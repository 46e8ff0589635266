---------------------------- MODULE Reconciliation ----------------------------
(***************************************************************************)
(* The screen of account_reconciliation_widget on which an accountant      *)
(* matches the lines of a bank statement with journal items: the           *)
(* StatementModel and StatementAction of the web client, and the methods   *)
(* of the server they call.                                                *)
(*                                                                         *)
(*  line     what the client keeps of each statement line: its mode, its   *)
(*           partner, the journal items offered to the user, the           *)
(*           propositions the user chose, and the balance computed last    *)
(*  shown    the lines whose widget is on the screen                       *)
(*  valuenow the progress counter                                          *)
(*  calls    the calls under way between the client and the server         *)
(*  server   the lines that have an entry, the journal items each entry    *)
(*           reconciled, and those other accountants reconciled            *)
(*  handlers, troubles   what was done so far, up to the bounds            *)
(*                                                                         *)
(* A handler of the client runs alone until it waits for the server; the   *)
(* answers come in any order, between handlers of any line.  The server's  *)
(* part of a fetch and the arrival of its answer are one step.  Propositions *)
(* are journal items ("props"), at most one write-off ("writeoff") and the *)
(* unfinished one the creation form edits ("draft", not valid, and not     *)
(* counted).  A write-off removed again is offered with the other items    *)
(* ("spare").                                                              *)
(***************************************************************************)
EXTENDS Integers, FiniteSets, FiniteSetsExt

CONSTANTS
    NumLines,       \* the statement lines are 1..NumLines, in handle order
    Amount,         \* the amount of each statement line
    MoveLine,       \* the journal items
    Residual,       \* what is left to pay on each of them
    Kind,           \* the list that offers it
    PartnerOf,      \* its partner
    Partner, NoPartner,
    StPartner,      \* the partner the statement line comes with
    Filters,        \* the texts the user searches for
    Matches,        \* the items each of them finds
    WriteOffs,      \* the user opens the tab that creates write-offs
    ModelAmounts,   \* the amounts of the reconcile models
    MaxPresses,     \* the Validate button is pressed again while it works
    MaxHandlers,    \* bound: what the user does
    MaxTroubles     \* bound: calls that fail, items others reconcile

Lines     == 1..NumLines
MatchMode == {"match_rp", "match_other"}
Modes     == MatchMode \cup {"create", "inactive"}

ASSUME ConstantsAssumption ==
    /\ NumLines \in Nat \ {0} /\ MaxPresses \in Nat \ {0}
    /\ MaxHandlers \in Nat /\ MaxTroubles \in Nat
    /\ Amount \in [Lines -> Int \ {0}]
    /\ IsFiniteSet(MoveLine)
    /\ Residual \in [MoveLine -> Int \ {0}]
    /\ Kind \in [MoveLine -> MatchMode]
    /\ NoPartner \notin Partner
    /\ PartnerOf \in [MoveLine -> Partner \cup {NoPartner}]
    /\ StPartner \in [Lines -> Partner \cup {NoPartner}]
    /\ "" \in Filters /\ Matches \in [Filters -> SUBSET MoveLine]
    /\ Matches[""] = MoveLine
    /\ WriteOffs \in BOOLEAN /\ ModelAmounts \subseteq Int \ {0}

VARIABLES line, shown, valuenow, calls, server, handlers, troubles

vars == <<line, shown, valuenow, calls, server, handlers, troubles>>

LineStates == [mode : Modes, partner : Partner \cup {NoPartner},
               offered : SUBSET MoveLine, spare : SUBSET Int,
               props : SUBSET MoveLine, draft : SUBSET Int, writeoff : SUBSET Int,
               balance : Int, filter : [MatchMode -> Filters],
               reconciled : BOOLEAN, need_update : BOOLEAN]

-----------------------------------------------------------------------------
(* The state of one line *)

Residuals == [ms \in SUBSET MoveLine |-> MapThenSumSet(LAMBDA m : Residual[m], ms)]

\* The amount of a write-off, if there is one.
AmountOf(writeoff) == IF writeoff = {} THEN 0 ELSE CHOOSE a \in writeoff : TRUE

Total(l, r) == Amount[l] - Residuals[r.props] - AmountOf(r.writeoff)

computeLine(l, r) == [r EXCEPT !.balance = Total(l, r)]

Shows(r, list) == \/ \E m \in r.offered : Kind[m] = list
                  \/ list = "match_other" /\ r.spare # {}

\* Mutant: the default mode keeps its name of before the list was split.
getDefaultModeMatch(r) == CASE r.balance = 0  -> "inactive"
                            [] r.offered # {} -> "match"
                            [] OTHER          -> "create"

getDefaultMode(r) == CASE r.balance = 0           -> "inactive"
                        [] Shows(r, "match_rp")    -> "match_rp"
                        [] Shows(r, "match_other") -> "match_other"
                        [] OTHER                   -> "create"

createProposition(l, r) == computeLine(l, [r EXCEPT !.draft = {r.balance}])

\* The items of an answer join the list; when it stays empty and nothing was
\* searched for, the line leaves for its default mode.
formatMoveLine(l, r, list, ms) ==
    LET joined == [r EXCEPT !.offered = @ \cup ms]
        left   == [joined EXCEPT !.mode = getDefaultMode(joined)]
    IN  IF r.mode \in MatchMode /\ ~Shows(joined, list) /\ r.filter[list] = ""
        THEN IF left.mode = "create" THEN createProposition(l, computeLine(l, left)) ELSE left
        ELSE computeLine(l, joined)

\* changeMode(), as far as it needs no answer of the server.
changeMode(l, r, mode) ==
    LET moved == [r EXCEPT !.mode = mode]
    IN  CASE mode = "create" -> createProposition(l, moved)
          [] mode \in MatchMode /\ Shows(r, mode) -> formatMoveLine(l, moved, mode, {})
          [] OTHER -> moved

-----------------------------------------------------------------------------
(* The calls of the client *)

\* What the handler does once the last of its fetches is answered:
\* "act"   the other lines become inactive
\* "open"  the line takes its default mode, then as "act"
\* "first" the line takes its default mode
\* "lost"  nothing, as an answer did not come
Purposes == {"act", "open", "first", "lost"}

\* Mutant: only the items on offer are excluded from a fetch.
performMoveLineChosen(l, r, list, one, purpose) ==
    {[call |-> "fetch", line |-> l, list |-> list, partner |-> r.partner,
      excluded |-> r.offered, filter |-> r.filter[list],
      one |-> one, purpose |-> purpose]}

performMoveLine(l, r, list, one, purpose) ==
    {[call |-> "fetch", line |-> l, list |-> list, partner |-> r.partner,
      excluded |-> r.props \cup r.offered, filter |-> r.filter[list],
      one |-> one, purpose |-> purpose]}

FetchBoth(l, r, purpose) ==
    UNION {performMoveLine(l, r, list, FALSE, purpose) : list \in MatchMode}

\* The fetch of changeMode().
FetchMode(l, r) ==
    IF r.mode \in MatchMode /\ ~Shows(r, r.mode)
    THEN performMoveLine(l, r, r.mode, FALSE, "act") ELSE {}

ReadAccounts(l, keep) == {[call |-> "partner", line |-> l, keep |-> keep]}

Fetches == [call : {"fetch"}, line : Lines, list : MatchMode,
            partner : Partner \cup {NoPartner}, excluded : SUBSET MoveLine,
            filter : Filters, one : BOOLEAN, purpose : Purposes]
Reads   == [call : {"partner"}, line : Lines, keep : BOOLEAN]
\* A call to reconcile: the counterparts, and the amount of the other items.
Posts   == [call : {"process"}, line : Lines, nth : 1..MaxPresses,
            props : SUBSET MoveLine, new : Int, done : BOOLEAN]

Of(kind, l) == {c \in calls : c.call = kind /\ c.line = l}
Quiet(l)    == \A c \in calls : c.line # l

UserActs == handlers < MaxHandlers /\ handlers' = handlers + 1 /\ UNCHANGED troubles
Trouble  == troubles < MaxTroubles /\ troubles' = troubles + 1 /\ UNCHANGED handlers

\* The end of _onAction(): an open line closes the others.
Focused(l, states) ==
    [k \in Lines |-> IF k # l /\ states[l].mode # "inactive"
                     THEN [states[k] EXCEPT !.mode = "inactive"] ELSE states[k]]

Init ==
    /\ line = [l \in Lines |->
                 [mode |-> "inactive", partner |-> StPartner[l], offered |-> {},
                  spare |-> {}, props |-> {}, draft |-> {}, writeoff |-> {},
                  balance |-> Amount[l], filter |-> [list \in MatchMode |-> ""],
                  reconciled |-> FALSE, need_update |-> FALSE]]
    /\ shown = Lines
    /\ valuenow = 0
    /\ calls = FetchBoth(1, line[1], "first")
    /\ server = [settled |-> {}, entry |-> [l \in Lines |-> {}], others |-> {}]
    /\ handlers = 0
    /\ troubles = 0

-----------------------------------------------------------------------------
(* What the user does on a line.  The user waits until the line has        *)
(* answered: MaxPresses alone allows a click too many.                     *)

\* A click on an inactive line reaches the line too, and opens it.
Bubbled(l, r) == IF line[l].mode = "inactive" THEN FetchBoth(l, r, "open") ELSE {}

\* The handler leaves line l as r and waits for the calls it made; without
\* a call it is over.
Handle(l, r, new) ==
    LET states == [line EXCEPT ![l] = r]
    IN  /\ line' = IF new = {} THEN Focused(l, states) ELSE states
        /\ calls' = calls \cup new \cup Bubbled(l, r)
        /\ UserActs
        /\ UNCHANGED <<shown, valuenow, server>>

Opened(l, mode) == l \in shown /\ Quiet(l) /\ line[l].mode \in mode

Toggle(l) ==
    /\ Opened(l, {"inactive"})
    /\ Handle(l, line[l], {})

ChangeTab(l, mode) ==
    LET r == [line[l] EXCEPT !.mode = mode]
    IN  /\ Opened(l, Modes \ {"inactive", mode})
        /\ mode \in MatchMode => Shows(r, mode) \/ r.filter[mode] # ""
        /\ mode = "create" => WriteOffs
        /\ Handle(l, changeMode(l, line[l], mode), FetchMode(l, r))

ChangeFilter(l, filter) ==
    LET list == line[l].mode
        r    == [line[l] EXCEPT !.filter = [@ EXCEPT ![list] = filter],
                                !.offered = {m \in @ : Kind[m] # list},
                                !.spare = IF list = "match_other" THEN {} ELSE @]
    IN  /\ Opened(l, MatchMode)
        /\ filter # line[l].filter[list]
        /\ Handle(l, r, performMoveLine(l, r, list, FALSE, "act"))

changeOffset(l) ==
    /\ Opened(l, MatchMode)
    /\ Handle(l, line[l], performMoveLine(l, line[l], line[l].mode, FALSE, "act"))

\* The two fetches after a choice: one item to fill the gap, and all of the
\* other list.
Refill(l, r) ==
    UNION {performMoveLine(l, r, list, list = r.mode, "act") : list \in MatchMode}

addProposition(l, m) ==
    LET r     == [line[l] EXCEPT !.props = @ \cup {m}, !.offered = @ \ {m}, !.draft = {}]
        named == [r EXCEPT !.partner = PartnerOf[m], !.offered = {}, !.spare = {}]
    IN  /\ Opened(l, {Kind[m]})
        /\ m \in line[l].offered
        /\ IF /\ r.partner = NoPartner /\ PartnerOf[m] # NoPartner
              /\ r.props = {m} /\ r.writeoff = {}
           THEN Handle(l, named, ReadAccounts(l, TRUE))
           ELSE Handle(l, computeLine(l, r), Refill(l, r))

\* A write-off that was removed is chosen again.
AddSpare(l, a) ==
    LET r == [line[l] EXCEPT !.writeoff = {a}, !.spare = @ \ {a}, !.draft = {}]
    IN  /\ Opened(l, {"match_other"})
        /\ a \in line[l].spare /\ line[l].writeoff = {}
        /\ Handle(l, computeLine(l, r), Refill(l, r))

\* Mutant: the balance is not computed after a removal.
RemovedUncomputed(l, r, mode) ==
    LET left  == [r EXCEPT !.mode = mode]
        reset == [left EXCEPT !.partner = NoPartner, !.offered = {}, !.spare = {}]
    IN  IF /\ StPartner[l] = NoPartner
           /\ r.props = {} /\ r.writeoff = {} /\ r.draft = {}
        THEN Handle(l, reset, FetchBoth(l, reset, "open"))
        ELSE Handle(l, changeMode(l, left, mode), FetchMode(l, left))

\* The end of removeProposition(): a line that came without a partner loses
\* it with its last proposition, and its lists with it.
Removed(l, r, mode) ==
    LET left  == computeLine(l, [r EXCEPT !.mode = mode])
        reset == [left EXCEPT !.partner = NoPartner, !.offered = {}, !.spare = {}]
    IN  IF /\ StPartner[l] = NoPartner
           /\ r.props = {} /\ r.writeoff = {} /\ r.draft = {}
        THEN Handle(l, reset, FetchBoth(l, reset, "open"))
        ELSE Handle(l, changeMode(l, left, mode), FetchMode(l, left))

RemoveMoveLine(l, m) ==
    LET r == [line[l] EXCEPT !.props = @ \ {m}, !.offered = @ \cup {m}]
    IN  /\ Opened(l, Modes)
        /\ m \in line[l].props
        /\ Removed(l, r, "match_rp")

RemoveWriteOff(l, a) ==
    LET r == [line[l] EXCEPT !.writeoff = {}, !.spare = {a}]
    IN  /\ Opened(l, Modes)
        /\ a \in line[l].writeoff
        /\ Removed(l, r, "create")

\* The form of mode "create" gets its account.
updateProposition(l) ==
    LET amount == IF line[l].draft = {} THEN {line[l].balance} ELSE line[l].draft
        r      == [line[l] EXCEPT !.writeoff = amount, !.draft = {}]
    IN  /\ WriteOffs
        /\ Opened(l, {"create"})
        /\ line[l].writeoff = {} /\ 0 \notin amount
        /\ Handle(l, computeLine(l, r), {})

\* A reconcile model of one item writes its amount off.
quickCreateProposition(l, amount) ==
    LET r == [line[l] EXCEPT !.draft = {}, !.writeoff = {amount}]
    IN  /\ Opened(l, {"create"})
        /\ line[l].writeoff = {}
        /\ Handle(l, computeLine(l, r), {})

\* Mutant: the items offered for the former partner stay.
changePartnerOffered(l, p) ==
    LET r == [line[l] EXCEPT !.partner = p]
    IN  /\ Opened(l, Modes \ {"inactive"})
        /\ p # line[l].partner
        /\ IF p = NoPartner
           THEN Handle(l, computeLine(l, r), FetchBoth(l, r, "open"))
           ELSE Handle(l, r, ReadAccounts(l, FALSE))

\* The user picks the partner, or clears it.
changePartner(l, p) ==
    LET r == [line[l] EXCEPT !.partner = p, !.offered = {}, !.spare = {}]
    IN  /\ Opened(l, Modes \ {"inactive"})
        /\ p # line[l].partner
        /\ IF p = NoPartner
           THEN Handle(l, computeLine(l, r), FetchBoth(l, r, "open"))
           ELSE Handle(l, r, ReadAccounts(l, FALSE))

\* The validated line takes its propositions away from the others, and is
\* sent, with what is left of its balance on an open account.  The balance of
\* a line that has propositions is read before the lines are computed again.
validate(l) ==
    LET r       == line[l]
        empty   == r.props = {} /\ r.writeoff = {}
        written == IF empty /\ r.balance # 0 THEN [r EXCEPT !.writeoff = {r.balance}] ELSE r
        sent    == computeLine(l, written)
        open    == IF empty THEN sent.balance ELSE r.balance
        robbed  == {k \in Lines \ {l} : line[k].props \cap r.props # {}}
        nth     == Cardinality(Of("process", l)) + 1
    IN  /\ l \in shown
        /\ Quiet(l) \/ nth > 1
        /\ nth <= MaxPresses
        /\ UserActs
        /\ r.balance = 0 \/ r.partner # NoPartner
        /\ line' = [k \in Lines |->
                      IF k = l THEN [sent EXCEPT !.reconciled = TRUE]
                      ELSE IF k \in robbed
                           THEN [line[k] EXCEPT !.props = @ \ r.props, !.need_update = TRUE]
                           ELSE line[k]]
        /\ calls' = calls \cup Bubbled(l, r)
                          \cup {[call |-> "process", line |-> l, nth |-> nth, props |-> sent.props,
                                 new |-> AmountOf(sent.writeoff) + open, done |-> FALSE]}
        /\ UNCHANGED <<shown, valuenow, server>>

-----------------------------------------------------------------------------
(* The server, and its answers *)

Reconciled(m) == m \in server.others \/ \E l \in Lines : m \in server.entry[l]

Candidates(c) ==
    {m \in MoveLine : /\ ~Reconciled(m)
                      /\ Kind[m] = c.list
                      /\ c.partner # NoPartner => PartnerOf[m] = c.partner
                      /\ m \in Matches[c.filter]
                      /\ m \notin c.excluded}

Answers(c) == IF c.one /\ Candidates(c) # {} THEN {{m} : m \in Candidates(c)}
              ELSE {Candidates(c)}

FetchAnswered(c) ==
    LET l    == c.line
        rest == calls \ {c}
        last == \A d \in rest : ~(d.call = "fetch" /\ d.line = l /\ d.purpose = c.purpose)
    IN  /\ c.call = "fetch"
        /\ calls' = rest
        /\ \E ms \in Answers(c) :
             LET r      == formatMoveLine(l, line[l], c.list, ms)
                 ready  == IF last /\ c.purpose \in {"open", "first"}
                           THEN changeMode(l, r, getDefaultMode(r)) ELSE r
                 states == [line EXCEPT ![l] = ready]
             IN  line' = IF last /\ c.purpose \in {"act", "open"}
                         THEN Focused(l, states) ELSE states
        /\ UNCHANGED <<shown, valuenow, server, handlers, troubles>>

\* A fetch fails: the other fetches of the handler are used, the handler is not.
FetchFailed(c) ==
    /\ Trouble
    /\ c.call = "fetch"
    /\ calls' = {IF d.call = "fetch" /\ d.line = c.line /\ d.purpose = c.purpose
                 THEN [d EXCEPT !.purpose = "lost"] ELSE d : d \in calls \ {c}}
    /\ UNCHANGED <<line, shown, valuenow, server>>

\* The accounts of the partner are read: propositions of another partner, or
\* of none, make the line drop them all.
PartnerRead(c) ==
    LET l      == c.line
        r      == line[l]
        foreign == r.writeoff # {} \/ r.draft # {} \/ \E m \in r.props : PartnerOf[m] # r.partner
        kept   == IF r.partner # NoPartner /\ foreign
                  THEN [r EXCEPT !.props = {}, !.writeoff = {}, !.draft = {}] ELSE r
        ready  == computeLine(l, kept)
        new    == IF c.keep THEN FetchMode(l, ready) ELSE FetchBoth(l, ready, "open")
        states == [line EXCEPT ![l] = IF c.keep THEN changeMode(l, ready, ready.mode) ELSE ready]
    IN  /\ c.call = "partner"
        /\ line' = IF new = {} THEN Focused(l, states) ELSE states
        /\ calls' = (calls \ {c}) \cup new
        /\ UNCHANGED <<shown, valuenow, server, handlers, troubles>>

Balanced(c) == Residuals[c.props] + c.new = Amount[c.line]

\* Mutant: the counterparts are not looked at.
process_bank_statement_lineUnchecked(c) ==
    /\ c.call = "process" /\ ~c.done
    /\ Balanced(c)
    /\ server' = [server EXCEPT !.settled = @ \cup {c.line}, !.entry[c.line] = c.props]
    /\ calls' = (calls \ {c}) \cup {[c EXCEPT !.done = TRUE]}
    /\ UNCHANGED <<line, shown, valuenow, handlers, troubles>>

\* The entry of a line is made anew; what its former one reconciled is free.
process_bank_statement_line(c) ==
    /\ c.call = "process" /\ ~c.done
    /\ Balanced(c)
    /\ \A m \in c.props : ~Reconciled(m)
    /\ server' = [server EXCEPT !.settled = @ \cup {c.line}, !.entry[c.line] = c.props]
    /\ calls' = (calls \ {c}) \cup {[c EXCEPT !.done = TRUE]}
    /\ UNCHANGED <<line, shown, valuenow, handlers, troubles>>

\* The client learns that the line is done, and opens the next one.
ValidateAnswered(c) ==
    LET later == {k \in Lines : k >= c.line /\ ~line[k].reconciled}
    IN  /\ c.call = "process" /\ c.done
        /\ valuenow' = valuenow + 1
        /\ shown' = shown \ {c.line}
        /\ calls' = (calls \ {c})
                    \cup IF later = {} THEN {} ELSE FetchBoth(Min(later), line[Min(later)], "first")
        /\ UNCHANGED <<line, server, handlers, troubles>>

\* Mutant: the line is counted and removed though the call failed.
ValidateFailedCounted(c) ==
    /\ Trouble
    /\ c.call = "process"
    /\ valuenow' = valuenow + 1
    /\ shown' = shown \ {c.line}
    /\ calls' = calls \ {c}
    /\ UNCHANGED <<line, server>>

\* The server refuses the call, or an answer is lost: the line stays.
ValidateFailed(c) ==
    /\ Trouble
    /\ c.call = "process"
    /\ calls' = calls \ {c}
    /\ UNCHANGED <<line, shown, valuenow, server>>

\* Another accountant reconciles a journal item.
OthersReconcile(m) ==
    /\ Trouble
    /\ ~Reconciled(m)
    /\ server' = [server EXCEPT !.others = @ \cup {m}]
    /\ UNCHANGED <<line, shown, valuenow, calls>>

-----------------------------------------------------------------------------
Next ==
    \/ \E l \in Lines :
         \/ Toggle(l)
         \/ changeOffset(l)
         \/ updateProposition(l)
         \/ validate(l)
         \/ \E mode \in Modes \ {"inactive"} : ChangeTab(l, mode)
         \/ \E filter \in Filters : ChangeFilter(l, filter)
         \/ \E m \in MoveLine : addProposition(l, m) \/ RemoveMoveLine(l, m)
         \/ \E amount \in ModelAmounts : quickCreateProposition(l, amount)
         \/ \E a \in line[l].spare : AddSpare(l, a)
         \/ \E a \in line[l].writeoff : RemoveWriteOff(l, a)
         \/ \E p \in Partner \cup {NoPartner} : changePartner(l, p)
    \/ \E c \in calls :
         \/ FetchAnswered(c)
         \/ FetchFailed(c)
         \/ PartnerRead(c)
         \/ process_bank_statement_line(c)
         \/ ValidateAnswered(c)
         \/ ValidateFailed(c)
    \/ \E m \in MoveLine : OthersReconcile(m)

Spec == Init /\ [][Next]_vars

-----------------------------------------------------------------------------
(* Properties *)

\* Every variable has its type, and a line has at most one draft, one
\* write-off and one removed write-off.
TypeOK ==
    /\ line \in [Lines -> LineStates]
    /\ \A l \in Lines : /\ Cardinality(line[l].draft) <= 1
                        /\ Cardinality(line[l].writeoff) <= 1
    /\ shown \subseteq Lines
    /\ valuenow \in Nat
    /\ handlers \in 0..MaxHandlers /\ troubles \in 0..MaxTroubles
    /\ calls \subseteq Fetches \cup Reads \cup Posts
    /\ server \in [settled : SUBSET Lines, entry : [Lines -> SUBSET MoveLine],
                   others : SUBSET MoveLine]

\* Whatever answers arrive late, an item the user already chose for a line is
\* not offered to that line again: it would be counted twice in its balance
\* (addProposition(), removeProposition(), the excluded ids of a fetch).
OneSide == \A l \in Lines : line[l].props \cap line[l].offered = {}

\* Once the accounts of its partner are read, a line with a partner proposes
\* and offers items of that partner alone, so that an entry never settles the
\* invoice of somebody else (changePartner(), get_move_lines_...()).
PartnerOfProps ==
    \A l \in Lines : line[l].partner # NoPartner /\ Of("partner", l) = {} =>
        \A m \in line[l].props \cup line[l].offered : PartnerOf[m] = line[l].partner

\* The balance of a line is that of its propositions, except while the
\* accounts of a new partner are read, and on the lines another line's
\* validation took propositions from (computeLine() in every handler).
BalanceFresh ==
    \A l \in Lines : Of("partner", l) = {} /\ ~line[l].need_update =>
        line[l].balance = Total(l, line[l])

\* The progress counts the lines that left the screen, and each of these has
\* its entry, though calls fail or their answers are lost (validate(),
\* _onValidate()).
Progress == /\ valuenow = Cardinality(Lines \ shown)
            /\ Lines \ shown \subseteq server.settled

\* A journal item is reconciled once: by the entry of one line or by another
\* accountant (process_reconciliation() and the lists of all the lines).
ReconciledOnce ==
    /\ \A k, l \in Lines : k # l => server.entry[k] \cap server.entry[l] = {}
    /\ \A l \in Lines : server.entry[l] \cap server.others = {}

\* "If the lines are not fully balanced, create an unreconciled amount.":
\* every entry sent to the server is balanced (reconciliation_model.js:1082).
SentBalanced == \A c \in calls : c.call = "process" => Balanced(c)

=============================================================================
