----------------------------- MODULE MCDelivery ------------------------------
(***************************************************************************)
(* Instances of Delivery: three calls, the second repeating the first      *)
(* one's submission id, the third a plain submission.                      *)
(***************************************************************************)
EXTENDS Delivery

CONSTANTS c1, c2, c3

Submitted ==
    [c \in {c1, c2, c3} |-> IF c = c3 THEN [id |-> NoId, body |-> "plain"]
                            ELSE [id |-> "key", body |-> "keyed"]]

\* Either side may lose power or die, but the outbox suffers one kind of fault.
OneKindInit == DeliveryInit({{"power"}, {"process"}})
\* Both kinds in one behaviour.
BothKindsInit == DeliveryInit({{"power", "process"}})

OneKindSpec == OneKindInit /\ [][DeliveryNext]_vars
BothKindsSpec == BothKindsInit /\ [][DeliveryNext]_vars
=============================================================================
