----------------------------- MODULE MCTagExchange -----------------------------
(* TLC instances of TagExchange and of the transfers of the communicators. *)
EXTENDS TagExchange, Communicator

\* One peer has two messages for the first exchange, and both have one for the next.
Reused(p, x) == IF x = 1 THEN IF p = 1 THEN 2 ELSE 0 ELSE 1

\* Every peer sends up to two messages.
Two(p, x) == 2

\* Ranks 0 and 1 send to rank 2 in the same stage.
LanesToTwo == {<<0, 2, 1, 0>>, <<1, 2, 1, 0>>}
SendsOf(r) == <<2, 1, 0>>[r + 1]
RecvsOf(r) == <<0, 0, 2>>[r + 1]

VARIABLE part   \* what this instance runs

partVars == <<part, vars, commVars>>

PartInit ==
    /\ part \in {"exchange", "transfers"}
    /\ Init /\ CommInit
    /\ part # "transfers" => transport = "single"

PartNext ==
    /\ UNCHANGED part
    /\ \/ part = "exchange" /\ Next /\ UNCHANGED commVars
       \/ part = "transfers" /\ CommNext /\ UNCHANGED vars

PartSpec == PartInit /\ [][PartNext]_partVars /\ (part = "exchange" => Fairness)

\* Every exchange becomes idle with all its messages delivered, even if the allocator
\* never has memory and a peer is one exchange ahead.
ExchangesAreDelivered == part = "exchange" => EverythingIsDelivered
=============================================================================
