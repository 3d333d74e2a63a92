-------------------------- MODULE MCWeixinDelivery --------------------------
(* The delivery loop for an owner and a member, answers of two chunks, and    *)
(* one message with whichever three troubles it meets, or two with one.       *)
EXTENDS WeixinDelivery

CONSTANTS owner, member

MCTexts == <<"t1", "t2">>

Few == inbox[2].state # "none" => troubles <= 1

FairSpec == DeliveryInit /\ [][DeliveryNext /\ Few']_deliveryVars /\ DeliveryFairness
=============================================================================
