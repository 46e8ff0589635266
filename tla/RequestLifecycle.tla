-------------------------- MODULE RequestLifecycle --------------------------
(***************************************************************************)
(* What the clearance workflow promises of one request, as its users see   *)
(* it: the request moves along the stages of its form's status bar, one    *)
(* validation at a time, may be cancelled or set back to draft at any      *)
(* stage, and is billed by at most one main invoice, issued by the         *)
(* validation that completes customs or delivery.  How many people press   *)
(* buttons at once, and what the database makes of it, does not show.      *)
(***************************************************************************)
EXTENDS Naturals

VARIABLES stage, bills

vars == <<stage, bills>>

Stages == {"draft", "customs_clearance", "customs_statement", "transport",
           "delivery", "delivery_done", "close", "canceled"}

\* The validations; a request that needs no clearance skips the customs.
Forward ==
    { <<"draft", "customs_clearance">>, <<"customs_clearance", "customs_statement">>,
      <<"customs_statement", "transport">>, <<"draft", "transport">>,
      <<"transport", "delivery">>, <<"delivery", "delivery_done">>,
      <<"delivery_done", "close">> }

\* The validations that may issue the main invoice.
Billing == {<<"customs_statement", "transport">>, <<"delivery", "delivery_done">>}

Init == stage = "draft" /\ bills = 0

Validate ==
    /\ stage' \in Stages
    /\ <<stage, stage'>> \in Forward
    /\ \/ bills' = bills
       \/ <<stage, stage'>> \in Billing /\ bills = 0 /\ bills' = 1

Withdraw == stage' \in {"canceled", "draft"} /\ UNCHANGED bills

\* The accountants delete a draft invoice.
Unbill == bills' = 0 /\ UNCHANGED stage

Next == Validate \/ Withdraw \/ Unbill

Spec == Init /\ [][Next]_vars
=============================================================================
