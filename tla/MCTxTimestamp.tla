--------------------------- MODULE MCTxTimestamp ---------------------------
(***************************************************************************)
(* Instances of TxTimestamp for TLC: clients are named after the type of   *)
(* their subscription.                                                     *)
(***************************************************************************)
EXTENDS TxTimestamp

MCKind == [c \in Client |-> IF c \in {"s1", "s2"} THEN Sync
                            ELSE IF c = "p" THEN DelayReq
                            ELSE IF c = "a" THEN Announce ELSE DelayResp]

=============================================================================
