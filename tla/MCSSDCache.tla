----------------------------- MODULE MCSSDCache -----------------------------
(* Instances of SSDCache: the store worker saves; the inference thread loads *)
(* and sheds; the admin routes and the shutdown stand in with it, too.       *)
EXTENDS SSDCache

CONSTANTS h1, h2

\* Two blocks above the reserve, one of them larger than the index.
MCHash == {h1, h2}
MCSize == [h \in MCHash |-> IF h = h1 THEN 2 ELSE 3]

MCMay == [t \in {"worker", "inference"} |->
            IF t = "worker" THEN {"save"} ELSE {"load", "shed", "clear", "close"}]
==============================================================================
