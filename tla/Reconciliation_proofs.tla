------------------------ MODULE Reconciliation_proofs ------------------------
(***************************************************************************)
(* Proofs about Reconciliation, for any number of statement lines, any     *)
(* journal items, partners and searches, and any bounds on what the user   *)
(* and the others do.                                                      *)
(***************************************************************************)
EXTENDS Reconciliation, FiniteSetTheorems, TLAPS

-----------------------------------------------------------------------------
(* A journal item is reconciled once *)

(* What the server keeps, as far as the argument needs it.                 *)
ServerInv ==
    /\ server = [settled |-> server.settled, entry |-> server.entry, others |-> server.others]
    /\ server.entry = [l \in Lines |-> server.entry[l]]
    /\ ReconciledOnce

(* A journal item is never reconciled by two entries, nor by an entry and  *)
(* another accountant, whatever the lists of the lines still offer: the    *)
(* test of process_reconciliation() is made on the state it writes to.     *)
THEOREM ReconciledOnceKept == Spec => []ReconciledOnce
  <1>1. Init => ServerInv
    <2> SUFFICES ASSUME Init PROVE ServerInv
      OBVIOUS
    <2>1. server = [settled |-> {}, entry |-> [l \in Lines |-> {}], others |-> {}]
      BY DEF Init
    <2>2. server.entry = [l \in Lines |-> {}] /\ server.others = {}
      BY <2>1
    <2> QED
      BY <2>1, <2>2 DEF ServerInv, ReconciledOnce
  <1>2. ASSUME ServerInv, [Next]_vars PROVE ServerInv'
    <2>1. CASE UNCHANGED server
      BY <1>2, <2>1 DEF ServerInv, ReconciledOnce
    <2>2. ASSUME NEW c \in calls, process_bank_statement_line(c) PROVE ServerInv'
      <3>1. server' = [server EXCEPT !.settled = @ \cup {c.line}, !.entry[c.line] = c.props]
        BY <2>2 DEF process_bank_statement_line
      <3>2. \A m \in c.props : m \notin server.others /\ \A l \in Lines : m \notin server.entry[l]
        BY <2>2 DEF process_bank_statement_line, Reconciled
      <3>3. server'.others = server.others
        BY <1>2, <3>1 DEF ServerInv
      <3>4. server'.entry = [server.entry EXCEPT ![c.line] = c.props]
        BY <1>2, <3>1 DEF ServerInv
      <3>5. \A l \in Lines : server'.entry[l] = IF l = c.line THEN c.props ELSE server.entry[l]
        BY <1>2, <3>4 DEF ServerInv
      <3>6. ReconciledOnce'
        BY <1>2, <3>2, <3>3, <3>5 DEF ServerInv, ReconciledOnce
      <3> QED
        BY <1>2, <3>1, <3>4, <3>6 DEF ServerInv
    <2>3. ASSUME NEW m \in MoveLine, OthersReconcile(m) PROVE ServerInv'
      BY <1>2, <2>3 DEF OthersReconcile, Reconciled, ServerInv, ReconciledOnce
    <2>4. ASSUME NEW l \in Lines, NEW r, NEW new, Handle(l, r, new) PROVE UNCHANGED server
      BY <2>4 DEF Handle
    <2>5. ASSUME NEW l \in Lines,
                 \/ Toggle(l) \/ changeOffset(l) \/ updateProposition(l) \/ validate(l)
                 \/ \E mode \in Modes \ {"inactive"} : ChangeTab(l, mode)
                 \/ \E filter \in Filters : ChangeFilter(l, filter)
                 \/ \E m \in MoveLine : addProposition(l, m) \/ RemoveMoveLine(l, m)
                 \/ \E amount \in ModelAmounts : quickCreateProposition(l, amount)
                 \/ \E a \in line[l].spare : AddSpare(l, a)
                 \/ \E a \in line[l].writeoff : RemoveWriteOff(l, a)
                 \/ \E p \in Partner \cup {NoPartner} : changePartner(l, p)
          PROVE  UNCHANGED server
      BY <2>4, <2>5, Zenon DEF Toggle, changeOffset, updateProposition, validate, ChangeTab, ChangeFilter,
         addProposition, RemoveMoveLine, Removed, quickCreateProposition, AddSpare, RemoveWriteOff,
         changePartner
    <2>6. ASSUME NEW c \in calls,
                 FetchAnswered(c) \/ FetchFailed(c) \/ PartnerRead(c) \/ ValidateAnswered(c)
                 \/ ValidateFailed(c)
          PROVE  UNCHANGED server
      BY <2>6, Zenon DEF FetchAnswered, FetchFailed, PartnerRead, ValidateAnswered, ValidateFailed
    <2> QED
      BY <1>2, <2>1, <2>2, <2>3, <2>5, <2>6 DEF Next, vars
  <1>3. ServerInv => ReconciledOnce
    BY DEF ServerInv
  <1> QED
    BY <1>1, <1>2, <1>3, PTL DEF Spec

-----------------------------------------------------------------------------
(* An item chosen for a line is not offered to it again *)

LineFields == {"mode", "partner", "offered", "spare", "props", "draft", "writeoff",
               "balance", "filter", "reconciled", "need_update"}
FetchFields == {"call", "line", "list", "partner", "excluded", "filter", "one", "purpose"}
PostFields  == {"call", "line", "nth", "props", "new", "done"}

IsLine(r) == r = [f \in LineFields |-> r[f]]

IsCall(c) ==
    /\ c.line \in Lines
    /\ \/ c.call = "fetch" /\ c = [f \in FetchFields |-> c[f]]
       \/ c.call = "partner"
       \/ c.call = "process" /\ c = [f \in PostFields |-> c[f]]

(* A call that cannot offer again to its line what r has chosen.           *)
Excludes(c, l, r) == IsCall(c) /\ c.line = l /\ (c.call = "fetch" => r.props \subseteq c.excluded)

IsState(states) ==
    /\ states = [l \in Lines |-> states[l]]
    /\ \A l \in Lines : IsLine(states[l]) /\ states[l].props \cap states[l].offered = {}

(* The inductive invariant: what a line has chosen while its fetches are   *)
(* under way was excluded from each of them.                               *)
OneSideInv ==
    /\ IsState(line)
    /\ \A c \in calls : Excludes(c, c.line, line[c.line])

(* Another state of a line with the same propositions, which offers ms.    *)
Same(r, s, ms) == IsLine(s) /\ s.props = r.props /\ s.offered = ms

LEMMA ModeSame ==
    ASSUME NEW r, IsLine(r), NEW mode
    PROVE  Same(r, [r EXCEPT !.mode = mode], r.offered)
BY DEF Same, IsLine, LineFields

LEMMA OfferedSame ==
    ASSUME NEW r, IsLine(r), NEW ms
    PROVE  Same(r, [r EXCEPT !.offered = ms], ms)
BY DEF Same, IsLine, LineFields

LEMMA ComputeSame ==
    ASSUME NEW l, NEW r, IsLine(r)
    PROVE  Same(r, computeLine(l, r), r.offered)
BY DEF Same, IsLine, LineFields, computeLine

LEMMA DraftSame ==
    ASSUME NEW r, IsLine(r), NEW draft
    PROVE  Same(r, [r EXCEPT !.draft = draft], r.offered)
BY DEF Same, IsLine, LineFields

LEMMA CreateSame ==
    ASSUME NEW l, NEW r, IsLine(r)
    PROVE  Same(r, createProposition(l, r), r.offered)
  <1> DEFINE drafted == [r EXCEPT !.draft = {r.balance}]
  <1>1. Same(r, drafted, r.offered)
    BY DraftSame
  <1> HIDE DEF drafted
  <1>2. Same(drafted, computeLine(l, drafted), drafted.offered)
    BY <1>1, ComputeSame, Zenon DEF Same
  <1>3. Same(r, computeLine(l, drafted), r.offered)
    BY <1>1, <1>2, Zenon DEF Same
  <1> QED
    BY <1>3, Zenon DEF createProposition, drafted

(* The answer of a fetch joins the list and leaves the propositions.       *)
LEMMA FormatSame ==
    ASSUME NEW l, NEW r, IsLine(r), NEW list, NEW ms
    PROVE  Same(r, formatMoveLine(l, r, list, ms), r.offered \cup ms)
  <1> DEFINE joined == [r EXCEPT !.offered = r.offered \cup ms]
             left   == [joined EXCEPT !.mode = getDefaultMode(joined)]
             value  == formatMoveLine(l, r, list, ms)
  <1>1. Same(r, joined, r.offered \cup ms)
    BY OfferedSame
  <1>2. Same(r, left, r.offered \cup ms)
    <2>1. Same(joined, left, joined.offered)
      BY <1>1, ModeSame, Zenon DEF Same
    <2> QED
      BY <1>1, <2>1, Zenon DEF Same
  <1>3. Same(r, computeLine(l, joined), r.offered \cup ms)
    <2>1. Same(joined, computeLine(l, joined), joined.offered)
      BY <1>1, ComputeSame, Zenon DEF Same
    <2> QED
      BY <1>1, <2>1, Zenon DEF Same
  <1>4. Same(r, createProposition(l, computeLine(l, left)), r.offered \cup ms)
    <2>1. Same(left, computeLine(l, left), left.offered)
      BY <1>2, ComputeSame, Zenon DEF Same
    <2>2. Same(computeLine(l, left), createProposition(l, computeLine(l, left)),
               computeLine(l, left).offered)
      BY <2>1, CreateSame, Zenon DEF Same
    <2> QED
      BY <1>2, <2>1, <2>2, Zenon DEF Same
  <1>5. \/ value = computeLine(l, joined)
        \/ value = createProposition(l, computeLine(l, left))
        \/ value = left
    BY Zenon DEF formatMoveLine
  <1> HIDE DEF joined, left, value
  <1>6. Same(r, value, r.offered \cup ms)
    BY <1>2, <1>3, <1>4, <1>5, Zenon
  <1> QED
    BY <1>6 DEF value

LEMMA ChangeModeSame ==
    ASSUME NEW l, NEW r, IsLine(r), NEW mode
    PROVE  Same(r, changeMode(l, r, mode), r.offered)
  <1> DEFINE moved == [r EXCEPT !.mode = mode]
             value == changeMode(l, r, mode)
  <1>1. Same(r, moved, r.offered)
    BY ModeSame
  <1>2. Same(r, createProposition(l, moved), r.offered)
    <2>1. Same(moved, createProposition(l, moved), moved.offered)
      BY <1>1, CreateSame, Zenon DEF Same
    <2> QED
      BY <1>1, <2>1, Zenon DEF Same
  <1>3. Same(r, formatMoveLine(l, moved, mode, {}), r.offered)
    <2> HIDE DEF moved
    <2>0. IsLine(moved)
      BY <1>1, Zenon DEF Same
    <2>1. Same(moved, formatMoveLine(l, moved, mode, {}), moved.offered \cup {})
      BY <2>0, FormatSame, Zenon
    <2>2. moved.offered \cup {} = moved.offered
      OBVIOUS
    <2> QED
      BY <1>1, <2>1, <2>2, Zenon DEF Same
  <1>4. \/ value = createProposition(l, moved)
        \/ value = formatMoveLine(l, moved, mode, {})
        \/ value = moved
    <2>1. CASE mode = "create"
      BY <2>1 DEF changeMode
    <2>2. CASE mode # "create" /\ mode \in MatchMode /\ Shows(r, mode)
      BY <2>2 DEF changeMode
    <2>3. CASE mode # "create" /\ ~(mode \in MatchMode /\ Shows(r, mode))
      BY <2>3 DEF changeMode
    <2> QED
      BY <2>1, <2>2, <2>3
  <1> HIDE DEF moved, value
  <1>5. Same(r, value, r.offered)
    BY <1>1, <1>2, <1>3, <1>4, Zenon
  <1> QED
    BY <1>5 DEF value

-----------------------------------------------------------------------------
(* What the calls exclude *)

LEMMA FetchExcludes ==
    ASSUME NEW l \in Lines, NEW r, NEW list, NEW one, NEW purpose,
           NEW c \in performMoveLine(l, r, list, one, purpose)
    PROVE  Excludes(c, l, r)
  <1>1. c = [call |-> "fetch", line |-> l, list |-> list, partner |-> r.partner,
             excluded |-> r.props \cup r.offered, filter |-> r.filter[list],
             one |-> one, purpose |-> purpose]
    BY DEF performMoveLine
  <1>2. c.call = "fetch" /\ c.line = l /\ c.excluded = r.props \cup r.offered
    BY <1>1
  <1>3. c = [f \in FetchFields |-> c[f]]
    BY <1>1 DEF FetchFields
  <1> QED
    BY <1>2, <1>3 DEF Excludes, IsCall

LEMMA BothExclude ==
    ASSUME NEW l \in Lines, NEW r, NEW purpose, NEW c \in FetchBoth(l, r, purpose)
    PROVE  Excludes(c, l, r)
BY FetchExcludes, Zenon DEF FetchBoth

LEMMA ModeExcludes ==
    ASSUME NEW l \in Lines, NEW r, NEW c \in FetchMode(l, r)
    PROVE  Excludes(c, l, r)
BY FetchExcludes, Zenon DEF FetchMode

LEMMA RefillExcludes ==
    ASSUME NEW l \in Lines, NEW r, NEW c \in Refill(l, r)
    PROVE  Excludes(c, l, r)
  <1> PICK list \in MatchMode : c \in performMoveLine(l, r, list, list = r.mode, "act")
    BY DEF Refill
  <1> DEFINE one == list = r.mode
  <1> HIDE DEF one
  <1>1. c \in performMoveLine(l, r, list, one, "act")
    BY DEF one
  <1> QED
    BY <1>1, FetchExcludes, Zenon

LEMMA BubbledExcludes ==
    ASSUME NEW l \in Lines, NEW r, NEW c \in Bubbled(l, r)
    PROVE  Excludes(c, l, r)
BY BothExclude, Zenon DEF Bubbled

(* What a call excludes is enough for every state of the line that has     *)
(* chosen no more.                                                         *)
LEMMA ExcludesLess ==
    ASSUME NEW l, NEW r, NEW s, NEW c, Excludes(c, l, r), s.props \subseteq r.props
    PROVE  Excludes(c, l, s)
BY DEF Excludes

(* The end of a handler closes lines, and nothing else.                    *)
LEMMA FocusKeeps ==
    ASSUME NEW l, NEW states, IsState(states)
    PROVE  /\ IsState(Focused(l, states))
           /\ \A k \in Lines : Focused(l, states)[k].props = states[k].props
  <1> DEFINE value == Focused(l, states)
  <1>1. \A k \in Lines : Same(states[k], value[k], states[k].offered)
    <2> SUFFICES ASSUME NEW k \in Lines PROVE Same(states[k], value[k], states[k].offered)
      OBVIOUS
    <2>1. IsLine(states[k])
      BY DEF IsState
    <2>2. Same(states[k], states[k], states[k].offered)
      BY <2>1 DEF Same
    <2>3. Same(states[k], [states[k] EXCEPT !.mode = "inactive"], states[k].offered)
      BY <2>1, ModeSame
    <2>4. value[k] = states[k] \/ value[k] = [states[k] EXCEPT !.mode = "inactive"]
      BY DEF Focused
    <2> HIDE DEF value
    <2> QED
      BY <2>2, <2>3, <2>4, Zenon
  <1>2. value = [k \in Lines |-> value[k]]
    BY DEF Focused
  <1> HIDE DEF value
  <1>3. IsState(value) /\ \A k \in Lines : value[k].props = states[k].props
    BY <1>1, <1>2 DEF IsState, Same
  <1> QED
    BY <1>3 DEF value

(* A line that has no call under way may choose, offer and ask what it     *)
(* likes, as long as it keeps the two apart.                               *)
LEMMA HandledKeeps ==
    ASSUME OneSideInv, NEW l \in Lines, Quiet(l),
           NEW r, IsLine(r), r.props \cap r.offered = {},
           NEW new, \A c \in new : Excludes(c, l, r), Handle(l, r, new)
    PROVE  OneSideInv'
  <1> DEFINE states == [line EXCEPT ![l] = r]
  <1>1. \A k \in Lines : states[k] = IF k = l THEN r ELSE line[k]
    BY DEF OneSideInv, IsState
  <1>2. IsState(states)
    BY <1>1 DEF OneSideInv, IsState
  <1>3. line' = states \/ line' = Focused(l, states)
    BY Zenon DEF Handle
  <1>4. calls' = calls \cup new \cup Bubbled(l, r)
    BY Zenon DEF Handle
  <1> HIDE DEF states
  <1>5. IsState(line') /\ \A k \in Lines : line'[k].props = states[k].props
    <2>1. CASE line' = states
      BY <1>2, <2>1, Zenon
    <2>2. CASE line' = Focused(l, states)
      <3>1. /\ IsState(Focused(l, states))
            /\ \A k \in Lines : Focused(l, states)[k].props = states[k].props
        BY <1>2, FocusKeeps
      <3> QED
        BY <2>2, <3>1
    <2> QED
      BY <1>3, <2>1, <2>2
  <1>6. ASSUME NEW c \in calls' PROVE Excludes(c, c.line, line'[c.line])
    <2>1. CASE c \in calls
      <3>1. c.line # l /\ c.line \in Lines /\ Excludes(c, c.line, line[c.line])
        BY <2>1 DEF Quiet, OneSideInv, Excludes, IsCall
      <3>2. line'[c.line].props = line[c.line].props
        BY <1>1, <1>5, <3>1
      <3> QED
        BY <3>1, <3>2, ExcludesLess
    <2>2. CASE c \in new \cup Bubbled(l, r)
      <3>1. Excludes(c, l, r)
        BY <2>2, BubbledExcludes, Zenon
      <3>2. c.line = l /\ line'[l].props = r.props
        BY <1>1, <1>5, <3>1 DEF Excludes
      <3> QED
        BY <3>1, <3>2, ExcludesLess
    <2> QED
      BY <1>4, <2>1, <2>2
  <1> QED
    BY <1>5, <1>6 DEF OneSideInv

LEMMA MinIsIn ==
    ASSUME NEW S, S \subseteq Nat, S # {}
    PROVE  Min(S) \in S
  <1> DEFINE Below == {1..n : n \in S}
  <1>1. \A n \in S : 1..n \in FiniteSubsetsOf(Nat)
    BY FS_Interval DEF FiniteSubsetsOf
  <1>2. PICK low \in Below : \A b \in Below : ~(<<b, low>> \in StrictSubsetOrdering(Nat))
    <2>1. Below # {} /\ Below \subseteq FiniteSubsetsOf(Nat)
      BY <1>1
    <2> HIDE DEF Below
    <2> QED
      BY <2>1, FS_StrictSubsetOrderingWellFounded, WFMin, Zenon
  <1>3. PICK x \in S : low = 1..x
    OBVIOUS
  <1>4. ASSUME NEW y \in S PROVE x <= y
    <2>1. ~(<<1..y, 1..x>> \in StrictSubsetOrdering(Nat))
      BY <1>2, <1>3
    <2>2. SUFFICES ASSUME y < x PROVE FALSE
      OBVIOUS
    <2>3. 1..y \subseteq 1..x /\ x \in 1..x /\ x \notin 1..y
      BY <2>2
    <2> QED
      BY <2>1, <2>3 DEF StrictSubsetOrdering
  <1> QED
    BY <1>4 DEF Min

-----------------------------------------------------------------------------
(* The handlers of the client *)

LEMMA OwnLine ==
    ASSUME OneSideInv, NEW l \in Lines
    PROVE  IsLine(line[l]) /\ line[l].props \cap line[l].offered = {}
BY DEF OneSideInv, IsState

LEMMA ReadExcludes ==
    ASSUME NEW l \in Lines, NEW r, NEW keep, NEW c \in ReadAccounts(l, keep)
    PROVE  Excludes(c, l, r)
BY DEF ReadAccounts, Excludes, IsCall

LEMMA TabsKeep ==
    ASSUME OneSideInv, NEW l \in Lines,
           \/ Toggle(l) \/ changeOffset(l)
           \/ \E mode \in Modes : ChangeTab(l, mode)
           \/ \E filter \in Filters : ChangeFilter(l, filter)
    PROVE  OneSideInv'
  <1>1. CASE Toggle(l)
    BY <1>1, OwnLine, HandledKeeps, Zenon DEF Toggle, Opened
  <1>2. CASE changeOffset(l)
    <2>1. \A c \in performMoveLine(l, line[l], line[l].mode, FALSE, "act") : Excludes(c, l, line[l])
      BY FetchExcludes, Zenon
    <2> QED
      BY <1>2, <2>1, OwnLine, HandledKeeps, Zenon DEF changeOffset, Opened
  <1>3. ASSUME NEW mode, ChangeTab(l, mode) PROVE OneSideInv'
    <2> DEFINE asked == [line[l] EXCEPT !.mode = mode]
               r     == changeMode(l, line[l], mode)
    <2>1. Quiet(l) /\ Handle(l, r, FetchMode(l, asked))
      BY <1>3, Zenon DEF ChangeTab, Opened
    <2>2. Same(line[l], asked, line[l].offered)
      BY OwnLine, ModeSame
    <2>3. Same(line[l], r, line[l].offered)
      BY OwnLine, ChangeModeSame
    <2> HIDE DEF asked, r
    <2>4. \A c \in FetchMode(l, asked) : Excludes(c, l, r)
      <3> SUFFICES ASSUME NEW c \in FetchMode(l, asked) PROVE Excludes(c, l, r)
        OBVIOUS
      <3>1. Excludes(c, l, asked)
        BY ModeExcludes, Zenon
      <3>2. r.props \subseteq asked.props
        BY <2>2, <2>3 DEF Same
      <3> QED
        BY <3>1, <3>2, ExcludesLess
    <2>5. IsLine(r) /\ r.props \cap r.offered = {}
      BY <2>3, OwnLine DEF Same
    <2> QED
      BY <2>1, <2>4, <2>5, HandledKeeps, Zenon
  <1>4. ASSUME NEW filter \in Filters, ChangeFilter(l, filter) PROVE OneSideInv'
    <2> DEFINE list == line[l].mode
               r == [line[l] EXCEPT !.filter = [@ EXCEPT ![list] = filter],
                                    !.offered = {m \in @ : Kind[m] # list},
                                    !.spare = IF list = "match_other" THEN {} ELSE @]
    <2>1. Quiet(l) /\ Handle(l, r, performMoveLine(l, r, list, FALSE, "act"))
      BY <1>4, Zenon DEF ChangeFilter, Opened
    <2>2. IsLine(r) /\ r.props \cap r.offered = {}
      <3>1. IsLine(r)
        BY OwnLine DEF IsLine, LineFields
      <3>2. r.props = line[l].props /\ r.offered \subseteq line[l].offered
        BY OwnLine DEF IsLine, LineFields
      <3> QED
        BY <3>1, <3>2, OwnLine
    <2> HIDE DEF r, list
    <2>3. \A c \in performMoveLine(l, r, list, FALSE, "act") : Excludes(c, l, r)
      BY FetchExcludes, Zenon
    <2> QED
      BY <2>1, <2>2, <2>3, HandledKeeps, Zenon
  <1> QED
    BY <1>1, <1>2, <1>3, <1>4

(* A choice leaves the list as it joins the propositions.                  *)
LEMMA AddKeeps ==
    ASSUME OneSideInv, NEW l \in Lines, NEW m, addProposition(l, m)
    PROVE  OneSideInv'
  <1> DEFINE r     == [line[l] EXCEPT !.props = @ \cup {m}, !.offered = @ \ {m}, !.draft = {}]
             named == [r EXCEPT !.partner = PartnerOf[m], !.offered = {}, !.spare = {}]
             ready == computeLine(l, r)
  <1>1. /\ Quiet(l)
        /\ Handle(l, named, ReadAccounts(l, TRUE)) \/ Handle(l, ready, Refill(l, r))
    BY Zenon DEF addProposition, Opened
  <1>2. IsLine(r) /\ r.props \cap r.offered = {}
    <2>1. IsLine(r)
      BY OwnLine DEF IsLine, LineFields
    <2>2. r.props = line[l].props \cup {m} /\ r.offered = line[l].offered \ {m}
      BY OwnLine DEF IsLine, LineFields
    <2> QED
      BY <2>1, <2>2, OwnLine
  <1> HIDE DEF r
  <1>3. IsLine(named) /\ named.offered = {}
    BY <1>2 DEF IsLine, LineFields
  <1>4. Same(r, ready, r.offered)
    BY <1>2, ComputeSame
  <1> HIDE DEF named, ready
  <1>5. CASE Handle(l, named, ReadAccounts(l, TRUE))
    <2>1. \A c \in ReadAccounts(l, TRUE) : Excludes(c, l, named)
      BY ReadExcludes, Zenon
    <2>2. named.props \cap named.offered = {}
      BY <1>3
    <2> QED
      BY <1>1, <1>3, <1>5, <2>1, <2>2, HandledKeeps, Zenon
  <1>6. CASE Handle(l, ready, Refill(l, r))
    <2>1. ASSUME NEW c \in Refill(l, r) PROVE Excludes(c, l, ready)
      <3>1. Excludes(c, l, r)
        BY RefillExcludes, Zenon
      <3>2. ready.props \subseteq r.props
        BY <1>4 DEF Same
      <3> QED
        BY <3>1, <3>2, ExcludesLess
    <2>2. IsLine(ready) /\ ready.props \cap ready.offered = {}
      BY <1>2, <1>4 DEF Same
    <2> QED
      BY <1>1, <1>6, <2>1, <2>2, HandledKeeps, Zenon
  <1> QED
    BY <1>1, <1>5, <1>6

(* Write-offs are neither chosen nor offered journal items.                *)
LEMMA WriteOffsKeep ==
    ASSUME OneSideInv, NEW l \in Lines,
           \/ \E a \in line[l].spare : AddSpare(l, a)
           \/ updateProposition(l)
           \/ \E a \in ModelAmounts : quickCreateProposition(l, a)
    PROVE  OneSideInv'
  <1>1. ASSUME NEW r, Same(line[l], r, line[l].offered), Quiet(l), NEW new,
               new = {} \/ new = Refill(l, r), Handle(l, computeLine(l, r), new)
        PROVE  OneSideInv'
    <2> DEFINE ready == computeLine(l, r)
    <2>1. IsLine(r) /\ Same(r, ready, r.offered)
      BY <1>1, ComputeSame DEF Same
    <2>2. Handle(l, ready, new)
      BY <1>1
    <2> HIDE DEF ready
    <2>3. IsLine(ready) /\ ready.props \cap ready.offered = {}
      BY <1>1, <2>1, OwnLine DEF Same
    <2>4. ASSUME NEW c \in new PROVE Excludes(c, l, ready)
      <3>1. Excludes(c, l, r)
        BY <1>1, <2>4, RefillExcludes
      <3>2. ready.props \subseteq r.props
        BY <2>1 DEF Same
      <3> QED
        BY <3>1, <3>2, ExcludesLess
    <2> QED
      BY <1>1, <2>2, <2>3, <2>4, HandledKeeps, Zenon
  <1>2. ASSUME NEW a, AddSpare(l, a) PROVE OneSideInv'
    <2> DEFINE r == [line[l] EXCEPT !.writeoff = {a}, !.spare = @ \ {a}, !.draft = {}]
    <2>1. Quiet(l) /\ Handle(l, computeLine(l, r), Refill(l, r))
      BY <1>2, Zenon DEF AddSpare, Opened
    <2>2. Same(line[l], r, line[l].offered)
      BY OwnLine DEF Same, IsLine, LineFields
    <2> HIDE DEF r
    <2> QED
      BY <1>1, <2>1, <2>2, Zenon
  <1>3. CASE updateProposition(l)
    <2> DEFINE amount == IF line[l].draft = {} THEN {line[l].balance} ELSE line[l].draft
               r == [line[l] EXCEPT !.writeoff = amount, !.draft = {}]
    <2>1. Quiet(l) /\ Handle(l, computeLine(l, r), {})
      BY <1>3, Zenon DEF updateProposition, Opened
    <2>2. Same(line[l], r, line[l].offered)
      BY OwnLine DEF Same, IsLine, LineFields
    <2> HIDE DEF r
    <2> QED
      BY <1>1, <2>1, <2>2, Zenon
  <1>4. ASSUME NEW a, quickCreateProposition(l, a) PROVE OneSideInv'
    <2> DEFINE r == [line[l] EXCEPT !.draft = {}, !.writeoff = {a}]
    <2>1. Quiet(l) /\ Handle(l, computeLine(l, r), {})
      BY <1>4, Zenon DEF quickCreateProposition, Opened
    <2>2. Same(line[l], r, line[l].offered)
      BY OwnLine DEF Same, IsLine, LineFields
    <2> HIDE DEF r
    <2> QED
      BY <1>1, <2>1, <2>2, Zenon
  <1> QED
    BY <1>2, <1>3, <1>4

(* The lists of a line that loses its last proposition are read anew.      *)
LEMMA RemovedKeeps ==
    ASSUME OneSideInv, NEW l \in Lines, Quiet(l),
           NEW r, IsLine(r), r.props \cap r.offered = {}, NEW mode, Removed(l, r, mode)
    PROVE  OneSideInv'
  <1> DEFINE moved == [r EXCEPT !.mode = mode]
             left  == computeLine(l, moved)
             reset == [left EXCEPT !.partner = NoPartner, !.offered = {}, !.spare = {}]
             ready == changeMode(l, left, mode)
  <1>1. Handle(l, reset, FetchBoth(l, reset, "open")) \/ Handle(l, ready, FetchMode(l, left))
    BY Zenon DEF Removed
  <1>2. Same(r, moved, r.offered)
    BY ModeSame
  <1> HIDE DEF moved
  <1>3. Same(r, left, r.offered)
    <2>1. IsLine(moved)
      BY <1>2, Zenon DEF Same
    <2>2. Same(moved, left, moved.offered)
      BY <2>1, ComputeSame, Zenon
    <2> QED
      BY <1>2, <2>2, Zenon DEF Same
  <1> HIDE DEF left
  <1>4. IsLine(left) /\ left.props \cap left.offered = {}
    BY <1>3 DEF Same
  <1>5. IsLine(reset) /\ reset.offered = {}
    BY <1>4 DEF IsLine, LineFields
  <1>6. Same(left, ready, left.offered)
    BY <1>4, ChangeModeSame
  <1> HIDE DEF reset, ready
  <1>7. CASE Handle(l, reset, FetchBoth(l, reset, "open"))
    <2>1. \A c \in FetchBoth(l, reset, "open") : Excludes(c, l, reset)
      BY BothExclude, Zenon
    <2>2. reset.props \cap reset.offered = {}
      BY <1>5
    <2> QED
      BY <1>5, <1>7, <2>1, <2>2, HandledKeeps, Zenon
  <1>8. CASE Handle(l, ready, FetchMode(l, left))
    <2>1. ASSUME NEW c \in FetchMode(l, left) PROVE Excludes(c, l, ready)
      <3>1. Excludes(c, l, left)
        BY ModeExcludes, Zenon
      <3>2. ready.props \subseteq left.props
        BY <1>6 DEF Same
      <3> QED
        BY <3>1, <3>2, ExcludesLess
    <2>2. IsLine(ready) /\ ready.props \cap ready.offered = {}
      BY <1>4, <1>6 DEF Same
    <2> QED
      BY <1>8, <2>1, <2>2, HandledKeeps, Zenon
  <1> QED
    BY <1>1, <1>7, <1>8

LEMMA RemovalsKeep ==
    ASSUME OneSideInv, NEW l \in Lines,
           \/ \E m \in MoveLine : RemoveMoveLine(l, m)
           \/ \E a \in line[l].writeoff : RemoveWriteOff(l, a)
    PROVE  OneSideInv'
  <1>1. ASSUME NEW m, RemoveMoveLine(l, m) PROVE OneSideInv'
    <2> DEFINE r == [line[l] EXCEPT !.props = @ \ {m}, !.offered = @ \cup {m}]
    <2>1. Quiet(l) /\ Removed(l, r, "match_rp")
      BY <1>1, Zenon DEF RemoveMoveLine, Opened
    <2>2. IsLine(r) /\ r.props \cap r.offered = {}
      <3>1. IsLine(r)
        BY OwnLine DEF IsLine, LineFields
      <3>2. r.props = line[l].props \ {m} /\ r.offered = line[l].offered \cup {m}
        BY OwnLine DEF IsLine, LineFields
      <3> QED
        BY <3>1, <3>2, OwnLine
    <2> HIDE DEF r
    <2> QED
      BY <2>1, <2>2, RemovedKeeps, Zenon
  <1>2. ASSUME NEW a, RemoveWriteOff(l, a) PROVE OneSideInv'
    <2> DEFINE r == [line[l] EXCEPT !.writeoff = {}, !.spare = {a}]
    <2>1. Quiet(l) /\ Removed(l, r, "create")
      BY <1>2, Zenon DEF RemoveWriteOff, Opened
    <2>2. Same(line[l], r, line[l].offered)
      BY OwnLine DEF Same, IsLine, LineFields
    <2> HIDE DEF r
    <2>3. IsLine(r) /\ r.props \cap r.offered = {}
      BY <2>2, OwnLine DEF Same
    <2> QED
      BY <2>1, <2>3, RemovedKeeps, Zenon
  <1> QED
    BY <1>1, <1>2

(* A new partner empties the lists.                                        *)
LEMMA PartnerKeeps ==
    ASSUME OneSideInv, NEW l \in Lines, NEW p, changePartner(l, p)
    PROVE  OneSideInv'
  <1> DEFINE r     == [line[l] EXCEPT !.partner = p, !.offered = {}, !.spare = {}]
             ready == computeLine(l, r)
  <1>1. /\ Quiet(l)
        /\ Handle(l, ready, FetchBoth(l, r, "open")) \/ Handle(l, r, ReadAccounts(l, FALSE))
    BY Zenon DEF changePartner, Opened
  <1>2. IsLine(r) /\ r.offered = {}
    BY OwnLine DEF IsLine, LineFields
  <1> HIDE DEF r
  <1>3. Same(r, ready, r.offered)
    BY <1>2, ComputeSame
  <1> HIDE DEF ready
  <1>4. CASE Handle(l, ready, FetchBoth(l, r, "open"))
    <2>1. ASSUME NEW c \in FetchBoth(l, r, "open") PROVE Excludes(c, l, ready)
      <3>1. Excludes(c, l, r)
        BY BothExclude, Zenon
      <3>2. ready.props \subseteq r.props
        BY <1>3 DEF Same
      <3> QED
        BY <3>1, <3>2, ExcludesLess
    <2>2. IsLine(ready) /\ ready.props \cap ready.offered = {}
      BY <1>2, <1>3 DEF Same
    <2> QED
      BY <1>1, <1>4, <2>1, <2>2, HandledKeeps, Zenon
  <1>5. CASE Handle(l, r, ReadAccounts(l, FALSE))
    <2>1. \A c \in ReadAccounts(l, FALSE) : Excludes(c, l, r)
      BY ReadExcludes, Zenon
    <2>2. r.props \cap r.offered = {}
      BY <1>2
    <2> QED
      BY <1>1, <1>2, <1>5, <2>1, <2>2, HandledKeeps, Zenon
  <1> QED
    BY <1>1, <1>4, <1>5

(* A step after which every line has chosen no more than before, and offers *)
(* nothing it chose, keeps the invariant when its new calls do.            *)
LEMMA LessKeeps ==
    ASSUME OneSideInv, IsState(line'),
           \A k \in Lines : line'[k].props \subseteq line[k].props,
           \A c \in calls' : c \in calls \/ Excludes(c, c.line, line'[c.line])
    PROVE  OneSideInv'
  <1>1. ASSUME NEW c \in calls PROVE Excludes(c, c.line, line'[c.line])
    <2>1. Excludes(c, c.line, line[c.line]) /\ c.line \in Lines
      BY DEF OneSideInv, Excludes, IsCall
    <2> QED
      BY <2>1, ExcludesLess
  <1> QED
    BY <1>1 DEF OneSideInv

(* The validated line takes its propositions away from the others.         *)
LEMMA ValidateKeeps ==
    ASSUME OneSideInv, NEW l \in Lines, validate(l)
    PROVE  OneSideInv'
  <1> DEFINE r       == line[l]
             empty   == r.props = {} /\ r.writeoff = {}
             written == IF empty /\ r.balance # 0 THEN [r EXCEPT !.writeoff = {r.balance}] ELSE r
             sent    == computeLine(l, written)
             open    == IF empty THEN sent.balance ELSE r.balance
             robbed  == {k \in Lines \ {l} : line[k].props \cap r.props # {}}
             nth     == Cardinality(Of("process", l)) + 1
             done    == [sent EXCEPT !.reconciled = TRUE]
             post    == [call |-> "process", line |-> l, nth |-> nth, props |-> sent.props,
                         new |-> AmountOf(sent.writeoff) + open, done |-> FALSE]
  <1>1. /\ line' = [k \in Lines |->
                      IF k = l THEN done
                      ELSE IF k \in robbed
                           THEN [line[k] EXCEPT !.props = @ \ r.props, !.need_update = TRUE]
                           ELSE line[k]]
        /\ calls' = calls \cup Bubbled(l, r) \cup {post}
    BY Zenon DEF validate
  <1>2. Same(r, written, r.offered)
    BY OwnLine DEF Same, IsLine, LineFields
  <1> HIDE DEF written
  <1>3. Same(r, sent, r.offered)
    <2>1. Same(written, sent, written.offered)
      BY <1>2, ComputeSame DEF Same
    <2> QED
      BY <1>2, <2>1 DEF Same
  <1> HIDE DEF sent
  <1>4. Same(r, done, r.offered)
    BY <1>3 DEF Same, IsLine, LineFields
  <1> HIDE DEF done
  <1>5. \A k \in Lines : /\ IsLine(line'[k])
                         /\ line'[k].props \subseteq line[k].props
                         /\ line'[k].offered = line[k].offered
    <2> SUFFICES ASSUME NEW k \in Lines
                 PROVE  /\ IsLine(line'[k])
                        /\ line'[k].props \subseteq line[k].props
                        /\ line'[k].offered = line[k].offered
      OBVIOUS
    <2> DEFINE left == [line[k] EXCEPT !.props = line[k].props \ r.props, !.need_update = TRUE]
    <2>1. line'[k] = IF k = l THEN done ELSE IF k \in robbed THEN left ELSE line[k]
      BY <1>1
    <2>2. /\ IsLine(left)
          /\ left.props \subseteq line[k].props
          /\ left.offered = line[k].offered
      BY OwnLine DEF IsLine, LineFields
    <2> HIDE DEF left, robbed
    <2> QED
      BY <1>4, <2>1, <2>2, OwnLine DEF Same
  <1>6. IsState(line')
    <2>1. line' = [k \in Lines |-> line'[k]]
      BY <1>1
    <2>2. \A k \in Lines : line'[k].props \cap line'[k].offered = {}
      BY <1>5, OwnLine
    <2> QED
      BY <1>5, <2>1, <2>2 DEF IsState
  <1>7. ASSUME NEW c \in calls', c \notin calls PROVE Excludes(c, c.line, line'[c.line])
    <2>1. CASE c = post
      <3>1. c.call = "process" /\ c.line = l /\ c = [f \in PostFields |-> c[f]]
        BY <2>1 DEF PostFields
      <3> QED
        BY <3>1 DEF Excludes, IsCall
    <2>2. CASE c \in Bubbled(l, r)
      <3>1. Excludes(c, l, r)
        BY <2>2, BubbledExcludes, Zenon
      <3>2. c.line = l
        BY <3>1 DEF Excludes
      <3>3. line'[l].props \subseteq r.props
        BY <1>5
      <3> QED
        BY <3>1, <3>2, <3>3, ExcludesLess
    <2> QED
      BY <1>1, <1>7, <2>1, <2>2
  <1> QED
    BY <1>5, <1>6, <1>7, LessKeeps

-----------------------------------------------------------------------------
(* The answers of the server *)

(* An answer holds nothing of what its fetch excluded.                     *)
LEMMA AnswersExclude ==
    ASSUME NEW c, NEW ms \in Answers(c)
    PROVE  ms \cap c.excluded = {}
BY DEF Answers, Candidates

LEMMA OpenKeeps ==
    ASSUME NEW l \in Lines, NEW states, IsState(states), NEW next,
           next = states \/ next = Focused(l, states)
    PROVE  IsState(next) /\ \A k \in Lines : next[k].props = states[k].props
  <1>1. CASE next = states
    BY <1>1
  <1>2. CASE next = Focused(l, states)
    <2>1. /\ IsState(Focused(l, states))
          /\ \A k \in Lines : Focused(l, states)[k].props = states[k].props
      BY FocusKeeps
    <2> QED
      BY <1>2, <2>1
  <1> QED
    BY <1>1, <1>2

(* Line l alone changes, to r.                                             *)
LEMMA OneLineState ==
    ASSUME OneSideInv, NEW l \in Lines, NEW r, IsLine(r), r.props \cap r.offered = {}
    PROVE  /\ IsState([line EXCEPT ![l] = r])
           /\ \A k \in Lines : [line EXCEPT ![l] = r][k].props
                               = IF k = l THEN r.props ELSE line[k].props
BY DEF OneSideInv, IsState

LEMMA AnsweredKeeps ==
    ASSUME OneSideInv, NEW c \in calls, FetchAnswered(c)
    PROVE  OneSideInv'
  <1> DEFINE l    == c.line
             rest == calls \ {c}
             last == \A d \in rest :
                       ~(d.call = "fetch" /\ d.line = l /\ d.purpose = c.purpose)
  <1>1. l \in Lines /\ line[l].props \subseteq c.excluded
    BY DEF OneSideInv, Excludes, IsCall, FetchAnswered
  <1>2. PICK ms \in Answers(c) :
          LET r      == formatMoveLine(l, line[l], c.list, ms)
              ready  == IF last /\ c.purpose \in {"open", "first"}
                        THEN changeMode(l, r, getDefaultMode(r)) ELSE r
              states == [line EXCEPT ![l] = ready]
          IN  line' = IF last /\ c.purpose \in {"act", "open"}
                      THEN Focused(l, states) ELSE states
    BY Zenon DEF FetchAnswered
  <1> DEFINE r      == formatMoveLine(l, line[l], c.list, ms)
             ready  == IF last /\ c.purpose \in {"open", "first"}
                       THEN changeMode(l, r, getDefaultMode(r)) ELSE r
             states == [line EXCEPT ![l] = ready]
  <1>3. line' = states \/ line' = Focused(l, states)
    BY <1>2, Zenon
  <1>4. calls' \subseteq calls
    BY DEF FetchAnswered
  <1>5. Same(line[l], r, line[l].offered \cup ms)
    BY <1>1, OwnLine, FormatSame
  <1>6. ready = r \/ ready = changeMode(l, r, getDefaultMode(r))
    BY Zenon
  <1> HIDE DEF l, last, r
  <1>7. Same(r, changeMode(l, r, getDefaultMode(r)), r.offered)
    BY <1>5, ChangeModeSame DEF Same
  <1> HIDE DEF ready
  <1>8. Same(line[l], ready, line[l].offered \cup ms)
    BY <1>5, <1>6, <1>7 DEF Same
  <1>9. ready.props \cap ready.offered = {}
    BY <1>1, <1>8, OwnLine, AnswersExclude DEF Same
  <1>10. IsLine(ready) /\ ready.props = line[l].props
    BY <1>8 DEF Same
  <1>11. /\ IsState(states)
         /\ \A k \in Lines : states[k].props = line[k].props
    BY <1>1, <1>9, <1>10, OneLineState
  <1> HIDE DEF states
  <1>12. IsState(line') /\ \A k \in Lines : line'[k].props = states[k].props
    BY <1>1, <1>3, <1>11, OpenKeeps
  <1> QED
    BY <1>4, <1>11, <1>12, LessKeeps

LEMMA PartnerReadKeeps ==
    ASSUME OneSideInv, NEW c \in calls, PartnerRead(c)
    PROVE  OneSideInv'
  <1> DEFINE l       == c.line
             r       == line[l]
             foreign == r.writeoff # {} \/ r.draft # {} \/ \E m \in r.props : PartnerOf[m] # r.partner
             kept    == IF r.partner # NoPartner /\ foreign
                        THEN [r EXCEPT !.props = {}, !.writeoff = {}, !.draft = {}] ELSE r
             ready   == computeLine(l, kept)
             new     == IF c.keep THEN FetchMode(l, ready) ELSE FetchBoth(l, ready, "open")
             moved   == IF c.keep THEN changeMode(l, ready, ready.mode) ELSE ready
             states  == [line EXCEPT ![l] = moved]
  <1>1. l \in Lines
    BY DEF OneSideInv, Excludes, IsCall
  <1>2. line' = states \/ line' = Focused(l, states)
    BY Zenon DEF PartnerRead
  <1>3. calls' \subseteq calls \cup new
    BY DEF PartnerRead
  <1>4. IsLine(kept) /\ kept.props \subseteq r.props /\ kept.offered = r.offered
    <2>1. IsLine([r EXCEPT !.props = {}, !.writeoff = {}, !.draft = {}])
      BY <1>1, OwnLine DEF IsLine, LineFields
    <2>2. /\ [r EXCEPT !.props = {}, !.writeoff = {}, !.draft = {}].props = {}
          /\ [r EXCEPT !.props = {}, !.writeoff = {}, !.draft = {}].offered = r.offered
      BY <1>1, OwnLine DEF IsLine, LineFields
    <2> QED
      BY <1>1, <2>1, <2>2, OwnLine
  <1> HIDE DEF kept
  <1>5. Same(kept, ready, kept.offered)
    BY <1>4, ComputeSame
  <1> HIDE DEF ready
  <1>6. Same(ready, moved, ready.offered)
    <2>1. Same(ready, changeMode(l, ready, ready.mode), ready.offered)
      BY <1>5, ChangeModeSame DEF Same
    <2> QED
      BY <1>5, <2>1 DEF Same
  <1> HIDE DEF moved
  <1>7. /\ IsLine(moved) /\ moved.props \cap moved.offered = {}
        /\ moved.props \subseteq r.props /\ moved.props \subseteq ready.props
    BY <1>1, <1>4, <1>5, <1>6, OwnLine DEF Same
  <1>8. /\ IsState(states)
        /\ \A k \in Lines : states[k].props = IF k = l THEN moved.props ELSE line[k].props
    BY <1>1, <1>7, OneLineState
  <1>9. ASSUME NEW d \in new PROVE Excludes(d, l, ready)
    BY <1>1, <1>9, BothExclude, ModeExcludes
  <1> HIDE DEF states, new, l
  <1>10. IsState(line') /\ \A k \in Lines : line'[k].props = states[k].props
    BY <1>1, <1>2, <1>8, OpenKeeps
  <1>11. ASSUME NEW d \in calls', d \notin calls PROVE Excludes(d, d.line, line'[d.line])
    <2>1. Excludes(d, l, ready)
      BY <1>3, <1>9, <1>11
    <2>2. d.line = l /\ line'[l].props = moved.props
      BY <1>1, <1>8, <1>10, <2>1 DEF Excludes
    <2> QED
      BY <1>7, <2>1, <2>2, ExcludesLess
  <1>12. \A k \in Lines : line'[k].props \subseteq line[k].props
    BY <1>7, <1>8, <1>10
  <1> QED
    BY <1>10, <1>11, <1>12, LessKeeps

LEMMA LinesFacts == Lines \subseteq Nat /\ 1 \in Lines
  <1>1. NumLines \in Nat /\ NumLines # 0
    BY ConstantsAssumption
  <1> QED
    BY <1>1 DEF Lines

LEMMA CallsKeep ==
    ASSUME OneSideInv, NEW c \in calls,
           \/ FetchFailed(c) \/ process_bank_statement_line(c)
           \/ ValidateAnswered(c) \/ ValidateFailed(c)
    PROVE  OneSideInv'
  <1>1. UNCHANGED line
    BY Zenon DEF FetchFailed, process_bank_statement_line, ValidateAnswered, ValidateFailed
  <1>2. ASSUME NEW d \in calls PROVE Excludes(d, d.line, line[d.line])
    BY DEF OneSideInv
  <1>3. CASE FetchFailed(c)
    <2> SUFFICES ASSUME NEW d \in calls'
                 PROVE  d \in calls \/ Excludes(d, d.line, line'[d.line])
      BY <1>1, LessKeeps DEF OneSideInv
    <2>1. PICK e \in calls :
            d = IF e.call = "fetch" /\ e.line = c.line /\ e.purpose = c.purpose
                THEN [e EXCEPT !.purpose = "lost"] ELSE e
      BY <1>3 DEF FetchFailed
    <2>2. CASE e.call = "fetch" /\ d = [e EXCEPT !.purpose = "lost"]
      <3>1. e = [f \in FetchFields |-> e[f]]
        BY <2>2 DEF OneSideInv, Excludes, IsCall
      <3>2. /\ d.call = "fetch" /\ d.line = e.line /\ d.excluded = e.excluded
            /\ d = [f \in FetchFields |-> d[f]]
        BY <2>2, <3>1 DEF FetchFields
      <3> QED
        BY <1>1, <1>2, <3>2, <2>2 DEF Excludes, IsCall
    <2> QED
      BY <2>1, <2>2
  <1>4. CASE process_bank_statement_line(c)
    <2>1. calls' = (calls \ {c}) \cup {[c EXCEPT !.done = TRUE]} /\ c.call = "process"
      BY <1>4 DEF process_bank_statement_line
    <2> DEFINE d == [c EXCEPT !.done = TRUE]
    <2>2. c = [f \in PostFields |-> c[f]] /\ c.line \in Lines
      BY <2>1 DEF OneSideInv, Excludes, IsCall
    <2>3. d.call = "process" /\ d.line = c.line /\ d = [f \in PostFields |-> d[f]]
      BY <2>1, <2>2 DEF PostFields
    <2>4. Excludes(d, d.line, line'[d.line])
      BY <2>2, <2>3 DEF Excludes, IsCall
    <2> QED
      BY <1>1, <2>1, <2>4, LessKeeps DEF OneSideInv
  <1>5. CASE ValidateAnswered(c)
    <2> DEFINE later == {k \in Lines : k >= c.line /\ ~line[k].reconciled}
    <2>1. calls' = (calls \ {c})
            \cup IF later = {} THEN {} ELSE FetchBoth(Min(later), line[Min(later)], "first")
      BY <1>5, Zenon DEF ValidateAnswered
    <2>2. later # {} => Min(later) \in Lines
      <3>1. later \subseteq Lines /\ Lines \subseteq Nat
        BY LinesFacts
      <3> HIDE DEF later
      <3>2. later # {} => Min(later) \in later
        BY <3>1, MinIsIn, Zenon
      <3> QED
        BY <3>1, <3>2
    <2> HIDE DEF later
    <2>3. ASSUME NEW d \in calls', d \notin calls PROVE Excludes(d, d.line, line'[d.line])
      <3>1. later # {} /\ d \in FetchBoth(Min(later), line[Min(later)], "first")
        BY <2>1, <2>3
      <3>2. Excludes(d, Min(later), line[Min(later)])
        BY <2>2, <3>1, BothExclude
      <3>3. d.line = Min(later)
        BY <3>2, Zenon DEF Excludes
      <3> QED
        BY <1>1, <3>2, <3>3
    <2> QED
      BY <1>1, <2>3, LessKeeps DEF OneSideInv
  <1>6. CASE ValidateFailed(c)
    BY <1>1, <1>6, LessKeeps DEF OneSideInv, ValidateFailed
  <1> QED
    BY <1>3, <1>4, <1>5, <1>6

LEMMA OneSideInit == Init => OneSideInv
  <1> SUFFICES ASSUME Init PROVE OneSideInv
    OBVIOUS
  <1>1. \A l \in Lines : /\ IsLine(line[l])
                         /\ line[l].props = {}
    BY DEF Init, IsLine, LineFields
  <1>2. line = [l \in Lines |-> line[l]]
    BY DEF Init
  <1>3. 1 \in Lines /\ calls = FetchBoth(1, line[1], "first")
    BY LinesFacts DEF Init
  <1>4. ASSUME NEW c \in calls PROVE Excludes(c, c.line, line[c.line])
    <2>1. Excludes(c, 1, line[1])
      BY <1>3, BothExclude
    <2> QED
      BY <2>1 DEF Excludes
  <1> QED
    BY <1>1, <1>2, <1>4 DEF OneSideInv, IsState

LEMMA OneSideNext == OneSideInv /\ [Next]_vars => OneSideInv'
  <1> SUFFICES ASSUME OneSideInv, [Next]_vars PROVE OneSideInv'
    OBVIOUS
  <1>1. CASE UNCHANGED vars
    BY <1>1 DEF vars, OneSideInv
  <1>2. ASSUME NEW l \in Lines,
               \/ Toggle(l) \/ changeOffset(l) \/ updateProposition(l) \/ validate(l)
               \/ \E mode \in Modes \ {"inactive"} : ChangeTab(l, mode)
               \/ \E filter \in Filters : ChangeFilter(l, filter)
               \/ \E m \in MoveLine : addProposition(l, m) \/ RemoveMoveLine(l, m)
               \/ \E amount \in ModelAmounts : quickCreateProposition(l, amount)
               \/ \E a \in line[l].spare : AddSpare(l, a)
               \/ \E a \in line[l].writeoff : RemoveWriteOff(l, a)
               \/ \E p \in Partner \cup {NoPartner} : changePartner(l, p)
        PROVE  OneSideInv'
    BY <1>2, TabsKeep, AddKeeps, WriteOffsKeep, RemovalsKeep, PartnerKeeps,
       ValidateKeeps, Zenon
  <1>3. ASSUME NEW c \in calls,
               \/ FetchAnswered(c) \/ FetchFailed(c) \/ PartnerRead(c)
               \/ process_bank_statement_line(c) \/ ValidateAnswered(c) \/ ValidateFailed(c)
        PROVE  OneSideInv'
    BY <1>3, AnsweredKeeps, PartnerReadKeeps, CallsKeep, Zenon
  <1>4. ASSUME NEW m \in MoveLine, OthersReconcile(m) PROVE OneSideInv'
    BY <1>4 DEF OthersReconcile, OneSideInv
  <1> QED
    BY <1>1, <1>2, <1>3, <1>4 DEF Next

(* Whatever answers of the server arrive late, a line never offers an item *)
(* it already chose: each fetch excludes what the line has chosen, and     *)
(* until it is answered the line can only lose propositions.               *)
THEOREM OneSideKept == Spec => []OneSide
  <1>1. OneSideInv => OneSide
    BY DEF OneSideInv, IsState, OneSide
  <1> QED
    BY <1>1, OneSideInit, OneSideNext, PTL DEF Spec

-----------------------------------------------------------------------------
(* The balance of a line is that of its propositions *)

Reading(l) == \E c \in calls : c.call = "partner" /\ c.line = l

Fresh(l, r) == r.need_update = TRUE \/ r.balance = Total(l, r)

FreshInv == \A l \in Lines : Reading(l) \/ Fresh(l, line[l])

(* A state that differs in nothing the balance is about.                   *)
Carries(r, s) == /\ IsLine(s)
                 /\ s.props = r.props /\ s.writeoff = r.writeoff /\ s.balance = r.balance
                 /\ r.need_update = TRUE => s.need_update = TRUE

LEMMA CarriesFresh ==
    ASSUME NEW l, NEW r, NEW s, Carries(r, s), Fresh(l, r)
    PROVE  Fresh(l, s)
BY DEF Carries, Fresh, Total

LEMMA ModeCarries ==
    ASSUME NEW r, IsLine(r), NEW mode
    PROVE  Carries(r, [r EXCEPT !.mode = mode])
BY DEF Carries, IsLine, LineFields

LEMMA ComputeFresh ==
    ASSUME NEW l, NEW r, IsLine(r)
    PROVE  IsLine(computeLine(l, r)) /\ Fresh(l, computeLine(l, r))
  <1> DEFINE s == [r EXCEPT !.balance = Total(l, r)]
  <1>1. /\ IsLine(s) /\ s.props = r.props /\ s.writeoff = r.writeoff
        /\ s.balance = Total(l, r)
    BY DEF IsLine, LineFields
  <1> HIDE DEF s
  <1>2. Fresh(l, s)
    BY <1>1 DEF Fresh, Total
  <1> QED
    BY <1>1, <1>2 DEF computeLine, s

LEMMA CreateFresh ==
    ASSUME NEW l, NEW r, IsLine(r)
    PROVE  Fresh(l, createProposition(l, r))
  <1>1. IsLine([r EXCEPT !.draft = {r.balance}])
    BY DEF IsLine, LineFields
  <1> QED
    BY <1>1, ComputeFresh DEF createProposition

LEMMA FormatFresh ==
    ASSUME NEW l, NEW r, IsLine(r), Fresh(l, r), NEW list, NEW ms
    PROVE  Fresh(l, formatMoveLine(l, r, list, ms))
  <1> DEFINE joined == [r EXCEPT !.offered = r.offered \cup ms]
             left   == [joined EXCEPT !.mode = getDefaultMode(joined)]
             value  == formatMoveLine(l, r, list, ms)
  <1>1. Carries(r, joined)
    BY DEF Carries, IsLine, LineFields
  <1>2. \/ value = computeLine(l, joined)
        \/ value = createProposition(l, computeLine(l, left))
        \/ value = left
    BY Zenon DEF formatMoveLine
  <1>3. Carries(joined, left)
    <2> HIDE DEF joined
    <2> QED
      BY <1>1, ModeCarries DEF Carries
  <1> HIDE DEF joined, left, value
  <1>4. Fresh(l, left)
    BY <1>1, <1>3, CarriesFresh
  <1>5. Fresh(l, computeLine(l, joined))
    BY <1>1, ComputeFresh DEF Carries
  <1>6. Fresh(l, createProposition(l, computeLine(l, left)))
    BY <1>3, ComputeFresh, CreateFresh DEF Carries
  <1>7. Fresh(l, value)
    BY <1>2, <1>4, <1>5, <1>6
  <1> QED
    BY <1>7 DEF value

LEMMA ChangeModeFresh ==
    ASSUME NEW l, NEW r, IsLine(r), Fresh(l, r), NEW mode
    PROVE  Fresh(l, changeMode(l, r, mode))
  <1> DEFINE moved == [r EXCEPT !.mode = mode]
             value == changeMode(l, r, mode)
  <1>1. Carries(r, moved)
    BY ModeCarries
  <1>2. \/ value = createProposition(l, moved)
        \/ value = formatMoveLine(l, moved, mode, {})
        \/ value = moved
    <2>1. CASE mode = "create"
      BY <2>1 DEF changeMode
    <2>2. CASE mode # "create" /\ mode \in MatchMode /\ Shows(r, mode)
      BY <2>2 DEF changeMode
    <2>3. CASE mode # "create" /\ ~(mode \in MatchMode /\ Shows(r, mode))
      BY <2>3 DEF changeMode
    <2> QED
      BY <2>1, <2>2, <2>3
  <1> HIDE DEF moved, value
  <1>3. IsLine(moved) /\ Fresh(l, moved)
    BY <1>1, CarriesFresh DEF Carries
  <1>4. Fresh(l, value)
    BY <1>2, <1>3, CreateFresh, FormatFresh
  <1> QED
    BY <1>4 DEF value

(* The end of a handler.                                                   *)
LEMMA FocusCarries ==
    ASSUME NEW l, NEW states, NEW k \in Lines, IsLine(states[k])
    PROVE  Carries(states[k], Focused(l, states)[k])
  <1>1. Carries(states[k], states[k]) /\ Carries(states[k], [states[k] EXCEPT !.mode = "inactive"])
    BY ModeCarries DEF Carries
  <1>2. \/ Focused(l, states)[k] = states[k]
        \/ Focused(l, states)[k] = [states[k] EXCEPT !.mode = "inactive"]
    BY DEF Focused
  <1> QED
    BY <1>1, <1>2, Zenon

(* A step that changes line l to r, and then perhaps closes lines.         *)
LEMMA OneFresh ==
    ASSUME OneSideInv, FreshInv, NEW l \in Lines, NEW r, IsLine(r),
           \/ line' = [line EXCEPT ![l] = r]
           \/ line' = Focused(l, [line EXCEPT ![l] = r]),
           Fresh(l, r) \/ Reading(l)',
           \A k \in Lines : Reading(k) /\ k # l => Reading(k)'
    PROVE  FreshInv'
  <1> DEFINE states == [line EXCEPT ![l] = r]
  <1>1. \A k \in Lines : /\ states[k] = IF k = l THEN r ELSE line[k]
                         /\ IsLine(states[k])
    BY DEF OneSideInv, IsState
  <1>2. line' = states \/ line' = Focused(l, states)
    OBVIOUS
  <1> HIDE DEF states
  <1>3. ASSUME NEW k \in Lines PROVE Carries(states[k], line'[k])
    <2>1. Carries(states[k], states[k]) /\ Carries(states[k], Focused(l, states)[k])
      <3>1. IsLine(states[k])
        BY <1>1
      <3>2. Carries(states[k], Focused(l, states)[k])
        BY <3>1, FocusCarries, Zenon
      <3> QED
        BY <3>1, <3>2 DEF Carries
    <2> QED
      BY <1>2, <2>1, Zenon
  <1>4. ASSUME NEW k \in Lines PROVE Reading(k)' \/ Fresh(k, line'[k])
    <2>1. Reading(k)' \/ Fresh(k, states[k])
      BY <1>1 DEF FreshInv
    <2> QED
      BY <1>3, <2>1, CarriesFresh
  <1> QED
    BY <1>4 DEF FreshInv

LEMMA HandledFresh ==
    ASSUME OneSideInv, FreshInv, NEW l \in Lines, NEW r, IsLine(r), NEW new,
           Fresh(l, r) \/ \E c \in new : c.call = "partner" /\ c.line = l, Handle(l, r, new)
    PROVE  FreshInv'
  <1>1. \/ line' = [line EXCEPT ![l] = r]
        \/ line' = Focused(l, [line EXCEPT ![l] = r])
    BY Zenon DEF Handle
  <1>2. calls \subseteq calls' /\ new \subseteq calls'
    BY DEF Handle
  <1>3. Fresh(l, r) \/ Reading(l)'
    BY <1>2 DEF Reading
  <1>4. \A k \in Lines : Reading(k) /\ k # l => Reading(k)'
    BY <1>2 DEF Reading
  <1> QED
    BY <1>1, <1>3, <1>4, OneFresh

(* The balance of a line that reads no accounts is fresh.                  *)
LEMMA OwnFresh ==
    ASSUME OneSideInv, FreshInv, NEW l \in Lines, Quiet(l)
    PROVE  IsLine(line[l]) /\ Fresh(l, line[l])
BY OwnLine DEF FreshInv, Reading, Quiet

LEMMA TabsFresh ==
    ASSUME OneSideInv, FreshInv, NEW l \in Lines,
           \/ Toggle(l) \/ changeOffset(l)
           \/ \E mode \in Modes : ChangeTab(l, mode)
           \/ \E filter \in Filters : ChangeFilter(l, filter)
    PROVE  FreshInv'
  <1>1. Quiet(l)
    BY Zenon DEF Toggle, changeOffset, ChangeTab, ChangeFilter, Opened
  <1>2. IsLine(line[l]) /\ Fresh(l, line[l])
    BY <1>1, OwnFresh
  <1>3. CASE Toggle(l) \/ changeOffset(l)
    BY <1>2, <1>3, HandledFresh, Zenon DEF Toggle, changeOffset
  <1>4. ASSUME NEW mode, ChangeTab(l, mode) PROVE FreshInv'
    <2> DEFINE r == changeMode(l, line[l], mode)
    <2>1. Handle(l, r, FetchMode(l, [line[l] EXCEPT !.mode = mode]))
      BY <1>4, Zenon DEF ChangeTab
    <2>2. IsLine(r) /\ Fresh(l, r)
      BY <1>2, ChangeModeSame, ChangeModeFresh DEF Same
    <2> HIDE DEF r
    <2> QED
      BY <2>1, <2>2, HandledFresh, Zenon
  <1>5. ASSUME NEW filter \in Filters, ChangeFilter(l, filter) PROVE FreshInv'
    <2> DEFINE list == line[l].mode
               r == [line[l] EXCEPT !.filter = [@ EXCEPT ![list] = filter],
                                    !.offered = {m \in @ : Kind[m] # list},
                                    !.spare = IF list = "match_other" THEN {} ELSE @]
    <2>1. Handle(l, r, performMoveLine(l, r, list, FALSE, "act"))
      BY <1>5, Zenon DEF ChangeFilter
    <2>2. Carries(line[l], r)
      BY <1>2 DEF Carries, IsLine, LineFields
    <2> HIDE DEF r
    <2>3. IsLine(r) /\ Fresh(l, r)
      BY <1>2, <2>2, CarriesFresh DEF Carries
    <2> QED
      BY <2>1, <2>3, HandledFresh, Zenon
  <1> QED
    BY <1>3, <1>4, <1>5

(* A handler that computes the line.                                       *)
LEMMA ComputedFresh ==
    ASSUME OneSideInv, FreshInv, NEW l \in Lines, NEW r, IsLine(r), NEW new,
           Handle(l, computeLine(l, r), new)
    PROVE  FreshInv'
  <1>1. IsLine(computeLine(l, r)) /\ Fresh(l, computeLine(l, r))
    BY ComputeFresh
  <1> QED
    BY <1>1, HandledFresh, Zenon

(* A handler that reads the accounts of the line's partner.                *)
LEMMA ReadingFresh ==
    ASSUME OneSideInv, FreshInv, NEW l \in Lines, NEW r, IsLine(r), NEW keep,
           Handle(l, r, ReadAccounts(l, keep))
    PROVE  FreshInv'
  <1>1. \E c \in ReadAccounts(l, keep) : c.call = "partner" /\ c.line = l
    BY DEF ReadAccounts
  <1> QED
    BY <1>1, HandledFresh, Zenon

LEMMA ChoicesFresh ==
    ASSUME OneSideInv, FreshInv, NEW l \in Lines,
           \/ \E m \in MoveLine : addProposition(l, m)
           \/ \E a \in line[l].spare : AddSpare(l, a)
           \/ updateProposition(l)
           \/ \E a \in ModelAmounts : quickCreateProposition(l, a)
           \/ \E p \in Partner \cup {NoPartner} : changePartner(l, p)
    PROVE  FreshInv'
  <1>1. ASSUME NEW m, addProposition(l, m) PROVE FreshInv'
    <2> DEFINE r     == [line[l] EXCEPT !.props = @ \cup {m}, !.offered = @ \ {m}, !.draft = {}]
               named == [r EXCEPT !.partner = PartnerOf[m], !.offered = {}, !.spare = {}]
    <2>1. Handle(l, named, ReadAccounts(l, TRUE)) \/ Handle(l, computeLine(l, r), Refill(l, r))
      BY <1>1, Zenon DEF addProposition
    <2>2. IsLine(r)
      BY OwnLine DEF IsLine, LineFields
    <2> HIDE DEF r
    <2>3. IsLine(named)
      BY <2>2 DEF IsLine, LineFields
    <2> HIDE DEF named
    <2> QED
      BY <2>1, <2>2, <2>3, ComputedFresh, ReadingFresh, Zenon
  <1>2. ASSUME NEW a, AddSpare(l, a) PROVE FreshInv'
    <2> DEFINE r == [line[l] EXCEPT !.writeoff = {a}, !.spare = @ \ {a}, !.draft = {}]
    <2>1. Handle(l, computeLine(l, r), Refill(l, r))
      BY <1>2, Zenon DEF AddSpare
    <2>2. IsLine(r)
      BY OwnLine DEF IsLine, LineFields
    <2> HIDE DEF r
    <2> QED
      BY <2>1, <2>2, ComputedFresh, Zenon
  <1>3. CASE updateProposition(l)
    <2> DEFINE amount == IF line[l].draft = {} THEN {line[l].balance} ELSE line[l].draft
               r == [line[l] EXCEPT !.writeoff = amount, !.draft = {}]
    <2>1. Handle(l, computeLine(l, r), {})
      BY <1>3, Zenon DEF updateProposition
    <2>2. IsLine(r)
      BY OwnLine DEF IsLine, LineFields
    <2> HIDE DEF r
    <2> QED
      BY <2>1, <2>2, ComputedFresh, Zenon
  <1>4. ASSUME NEW a, quickCreateProposition(l, a) PROVE FreshInv'
    <2> DEFINE r == [line[l] EXCEPT !.draft = {}, !.writeoff = {a}]
    <2>1. Handle(l, computeLine(l, r), {})
      BY <1>4, Zenon DEF quickCreateProposition
    <2>2. IsLine(r)
      BY OwnLine DEF IsLine, LineFields
    <2> HIDE DEF r
    <2> QED
      BY <2>1, <2>2, ComputedFresh, Zenon
  <1>5. ASSUME NEW p, changePartner(l, p) PROVE FreshInv'
    <2> DEFINE r == [line[l] EXCEPT !.partner = p, !.offered = {}, !.spare = {}]
    <2>1. \/ Handle(l, computeLine(l, r), FetchBoth(l, r, "open"))
          \/ Handle(l, r, ReadAccounts(l, FALSE))
      BY <1>5, Zenon DEF changePartner
    <2>2. IsLine(r)
      BY OwnLine DEF IsLine, LineFields
    <2> HIDE DEF r
    <2> QED
      BY <2>1, <2>2, ComputedFresh, ReadingFresh, Zenon
  <1> QED
    BY <1>1, <1>2, <1>3, <1>4, <1>5

LEMMA RemovedFresh ==
    ASSUME OneSideInv, FreshInv, NEW l \in Lines, NEW r, IsLine(r), NEW mode, Removed(l, r, mode)
    PROVE  FreshInv'
  <1> DEFINE moved == [r EXCEPT !.mode = mode]
             left  == computeLine(l, moved)
             reset == [left EXCEPT !.partner = NoPartner, !.offered = {}, !.spare = {}]
             ready == changeMode(l, left, mode)
  <1>1. Handle(l, reset, FetchBoth(l, reset, "open")) \/ Handle(l, ready, FetchMode(l, left))
    BY Zenon DEF Removed
  <1>2. IsLine(moved)
    BY DEF IsLine, LineFields
  <1> HIDE DEF moved
  <1>3. IsLine(left) /\ Fresh(l, left)
    BY <1>2, ComputeFresh
  <1> HIDE DEF left
  <1>4. Carries(left, reset)
    BY <1>3 DEF Carries, IsLine, LineFields
  <1> HIDE DEF reset
  <1>5. IsLine(reset) /\ Fresh(l, reset)
    BY <1>3, <1>4, CarriesFresh DEF Carries
  <1>6. IsLine(ready) /\ Fresh(l, ready)
    BY <1>3, ChangeModeSame, ChangeModeFresh DEF Same
  <1> HIDE DEF ready
  <1> QED
    BY <1>1, <1>5, <1>6, HandledFresh, Zenon

LEMMA RemovalsFresh ==
    ASSUME OneSideInv, FreshInv, NEW l \in Lines,
           \/ \E m \in MoveLine : RemoveMoveLine(l, m)
           \/ \E a \in line[l].writeoff : RemoveWriteOff(l, a)
    PROVE  FreshInv'
  <1>1. ASSUME NEW m, RemoveMoveLine(l, m) PROVE FreshInv'
    <2> DEFINE r == [line[l] EXCEPT !.props = @ \ {m}, !.offered = @ \cup {m}]
    <2>1. Removed(l, r, "match_rp")
      BY <1>1, Zenon DEF RemoveMoveLine
    <2>2. IsLine(r)
      BY OwnLine DEF IsLine, LineFields
    <2> HIDE DEF r
    <2> QED
      BY <2>1, <2>2, RemovedFresh, Zenon
  <1>2. ASSUME NEW a, RemoveWriteOff(l, a) PROVE FreshInv'
    <2> DEFINE r == [line[l] EXCEPT !.writeoff = {}, !.spare = {a}]
    <2>1. Removed(l, r, "create")
      BY <1>2, Zenon DEF RemoveWriteOff
    <2>2. IsLine(r)
      BY OwnLine DEF IsLine, LineFields
    <2> HIDE DEF r
    <2> QED
      BY <2>1, <2>2, RemovedFresh, Zenon
  <1> QED
    BY <1>1, <1>2

(* The validated line is computed, the lines it takes from are marked.     *)
LEMMA ValidateFresh ==
    ASSUME OneSideInv, FreshInv, NEW l \in Lines, validate(l)
    PROVE  FreshInv'
  <1> DEFINE r       == line[l]
             empty   == r.props = {} /\ r.writeoff = {}
             written == IF empty /\ r.balance # 0 THEN [r EXCEPT !.writeoff = {r.balance}] ELSE r
             sent    == computeLine(l, written)
             robbed  == {k \in Lines \ {l} : line[k].props \cap r.props # {}}
             done    == [sent EXCEPT !.reconciled = TRUE]
  <1>1. /\ line' = [k \in Lines |->
                      IF k = l THEN done
                      ELSE IF k \in robbed
                           THEN [line[k] EXCEPT !.props = @ \ r.props, !.need_update = TRUE]
                           ELSE line[k]]
        /\ calls \subseteq calls'
    BY Zenon DEF validate
  <1>2. IsLine(written)
    BY OwnLine DEF IsLine, LineFields
  <1> HIDE DEF written
  <1>3. IsLine(sent) /\ Fresh(l, sent)
    BY <1>2, ComputeFresh
  <1> HIDE DEF sent
  <1>4. Carries(sent, done)
    BY <1>3 DEF Carries, IsLine, LineFields
  <1> HIDE DEF done, robbed
  <1>5. Fresh(l, done)
    BY <1>3, <1>4, CarriesFresh
  <1>6. ASSUME NEW k \in Lines PROVE Reading(k)' \/ Fresh(k, line'[k])
    <2> DEFINE left == [line[k] EXCEPT !.props = line[k].props \ r.props, !.need_update = TRUE]
    <2>1. line'[k] = IF k = l THEN done ELSE IF k \in robbed THEN left ELSE line[k]
      BY <1>1
    <2>2. Fresh(k, left)
      BY OwnLine DEF Fresh, IsLine, LineFields
    <2>3. Reading(k)' \/ Fresh(k, line[k])
      BY <1>1 DEF FreshInv, Reading
    <2> HIDE DEF left
    <2> QED
      BY <1>5, <2>1, <2>2, <2>3
  <1> QED
    BY <1>6 DEF FreshInv

LEMMA AnsweredFresh ==
    ASSUME OneSideInv, FreshInv, NEW c \in calls, FetchAnswered(c)
    PROVE  FreshInv'
  <1> DEFINE l    == c.line
             rest == calls \ {c}
             last == \A d \in rest :
                       ~(d.call = "fetch" /\ d.line = l /\ d.purpose = c.purpose)
  <1>1. l \in Lines /\ c.call = "fetch" /\ calls' = rest
    BY DEF OneSideInv, Excludes, IsCall, FetchAnswered
  <1>2. PICK ms \in Answers(c) :
          LET r      == formatMoveLine(l, line[l], c.list, ms)
              ready  == IF last /\ c.purpose \in {"open", "first"}
                        THEN changeMode(l, r, getDefaultMode(r)) ELSE r
              states == [line EXCEPT ![l] = ready]
          IN  line' = IF last /\ c.purpose \in {"act", "open"}
                      THEN Focused(l, states) ELSE states
    BY Zenon DEF FetchAnswered
  <1> DEFINE r     == formatMoveLine(l, line[l], c.list, ms)
             ready == IF last /\ c.purpose \in {"open", "first"}
                      THEN changeMode(l, r, getDefaultMode(r)) ELSE r
  <1>3. line' = [line EXCEPT ![l] = ready] \/ line' = Focused(l, [line EXCEPT ![l] = ready])
    BY <1>2, Zenon
  <1>4. ready = r \/ ready = changeMode(l, r, getDefaultMode(r))
    BY Zenon
  <1>5. \A k \in Lines : Reading(k) => Reading(k)'
    BY <1>1 DEF Reading
  <1>6. IsLine(r) /\ (Fresh(l, line[l]) => Fresh(l, r))
    BY <1>1, OwnLine, FormatSame, FormatFresh DEF Same
  <1> HIDE DEF l, last, r
  <1>7. IsLine(ready) /\ (Fresh(l, r) => Fresh(l, ready))
    BY <1>4, <1>6, ChangeModeSame, ChangeModeFresh DEF Same
  <1> HIDE DEF ready
  <1>8. Fresh(l, ready) \/ Reading(l)'
    BY <1>1, <1>5, <1>6, <1>7 DEF FreshInv
  <1> QED
    BY <1>1, <1>3, <1>5, <1>7, <1>8, OneFresh

LEMMA PartnerReadFresh ==
    ASSUME OneSideInv, FreshInv, NEW c \in calls, PartnerRead(c)
    PROVE  FreshInv'
  <1> DEFINE l       == c.line
             r       == line[l]
             foreign == r.writeoff # {} \/ r.draft # {} \/ \E m \in r.props : PartnerOf[m] # r.partner
             kept    == IF r.partner # NoPartner /\ foreign
                        THEN [r EXCEPT !.props = {}, !.writeoff = {}, !.draft = {}] ELSE r
             ready   == computeLine(l, kept)
             moved   == IF c.keep THEN changeMode(l, ready, ready.mode) ELSE ready
  <1>1. l \in Lines
    BY DEF OneSideInv, Excludes, IsCall
  <1>2. line' = [line EXCEPT ![l] = moved] \/ line' = Focused(l, [line EXCEPT ![l] = moved])
    BY Zenon DEF PartnerRead
  <1>3. calls \ {c} \subseteq calls'
    BY DEF PartnerRead
  <1>4. IsLine(kept)
    <2>1. IsLine([r EXCEPT !.props = {}, !.writeoff = {}, !.draft = {}])
      BY <1>1, OwnLine DEF IsLine, LineFields
    <2> QED
      BY <1>1, <2>1, OwnLine
  <1> HIDE DEF kept
  <1>5. IsLine(ready) /\ Fresh(l, ready)
    BY <1>4, ComputeFresh
  <1> HIDE DEF ready
  <1>6. IsLine(moved) /\ Fresh(l, moved)
    BY <1>5, ChangeModeSame, ChangeModeFresh DEF Same
  <1> HIDE DEF moved
  <1>7. \A k \in Lines : Reading(k) /\ k # l => Reading(k)'
    BY <1>3 DEF Reading
  <1> QED
    BY <1>1, <1>2, <1>6, <1>7, OneFresh

LEMMA CallsFresh ==
    ASSUME OneSideInv, FreshInv, NEW c \in calls,
           \/ FetchFailed(c) \/ process_bank_statement_line(c)
           \/ ValidateAnswered(c) \/ ValidateFailed(c)
    PROVE  FreshInv'
  <1>1. UNCHANGED line
    BY Zenon DEF FetchFailed, process_bank_statement_line, ValidateAnswered, ValidateFailed
  <1>2. ASSUME NEW d \in calls, d.call = "partner" PROVE d \in calls'
    <2>1. CASE FetchFailed(c)
      BY <1>2, <2>1 DEF FetchFailed
    <2>2. CASE process_bank_statement_line(c) \/ ValidateAnswered(c) \/ ValidateFailed(c)
      <3>1. c.call = "process" /\ calls \ {c} \subseteq calls'
        BY <2>2 DEF process_bank_statement_line, ValidateAnswered, ValidateFailed
      <3> QED
        BY <1>2, <3>1
    <2> QED
      BY <2>1, <2>2
  <1> QED
    BY <1>1, <1>2 DEF FreshInv, Reading

(* Through choices, removals, searches, changes of partner and answers in  *)
(* any order, the balance of a line is that of its propositions once the   *)
(* accounts of its partner are read, but on lines another line's           *)
(* validation took propositions from, which nobody computes again.         *)
THEOREM BalanceKept == Spec => []BalanceFresh
  <1>1. Init => FreshInv
    <2> SUFFICES ASSUME Init, NEW l \in Lines PROVE Fresh(l, line[l])
      BY DEF FreshInv
    <2>1. line[l].balance = Amount[l] /\ line[l].props = {} /\ line[l].writeoff = {}
      BY DEF Init
    <2>2. Amount[l] \in Int
      BY ConstantsAssumption
    <2>3. Residuals[{}] = 0
      <3>1. Residuals[{}] = MapThenSumSet(LAMBDA m : Residual[m], {})
        BY DEF Residuals
      <3> DEFINE Sums(f) == [ms \in SUBSET {} |->
                               IF ms = {} THEN 0
                               ELSE LET m == CHOOSE m \in ms : TRUE
                                    IN  Residual[m] + f[ms \ {m}]]
                 sums == CHOOSE f : f = Sums(f)
      <3>2. [ms \in SUBSET {} |-> 0] = Sums([ms \in SUBSET {} |-> 0])
        OBVIOUS
      <3>3. sums = Sums(sums)
        BY <3>2
      <3>4. sums[{}] = 0
        <4>1. {} \in SUBSET {}
          OBVIOUS
        <4> HIDE DEF sums
        <4> QED
          BY <3>3, <4>1
      <3>5. MapThenSumSet(LAMBDA m : Residual[m], {}) = sums[{}]
        BY DEF MapThenSumSet, MapThenFoldSet
      <3> QED
        BY <3>1, <3>4, <3>5
    <2> QED
      BY <2>1, <2>2, <2>3 DEF Fresh, Total, AmountOf
  <1>2. ASSUME OneSideInv, FreshInv, [Next]_vars PROVE FreshInv'
    <2>1. CASE UNCHANGED vars
      BY <1>2, <2>1 DEF vars, FreshInv, Reading
    <2>2. ASSUME NEW l \in Lines,
                 \/ Toggle(l) \/ changeOffset(l) \/ updateProposition(l) \/ validate(l)
                 \/ \E mode \in Modes \ {"inactive"} : ChangeTab(l, mode)
                 \/ \E filter \in Filters : ChangeFilter(l, filter)
                 \/ \E m \in MoveLine : addProposition(l, m) \/ RemoveMoveLine(l, m)
                 \/ \E amount \in ModelAmounts : quickCreateProposition(l, amount)
                 \/ \E a \in line[l].spare : AddSpare(l, a)
                 \/ \E a \in line[l].writeoff : RemoveWriteOff(l, a)
                 \/ \E p \in Partner \cup {NoPartner} : changePartner(l, p)
          PROVE  FreshInv'
      BY <1>2, <2>2, TabsFresh, ChoicesFresh, RemovalsFresh, ValidateFresh, Zenon
    <2>3. ASSUME NEW c \in calls,
                 \/ FetchAnswered(c) \/ FetchFailed(c) \/ PartnerRead(c)
                 \/ process_bank_statement_line(c) \/ ValidateAnswered(c) \/ ValidateFailed(c)
          PROVE  FreshInv'
      BY <1>2, <2>3, AnsweredFresh, PartnerReadFresh, CallsFresh, Zenon
    <2>4. ASSUME NEW m \in MoveLine, OthersReconcile(m) PROVE FreshInv'
      BY <1>2, <2>4 DEF OthersReconcile, FreshInv, Reading
    <2> QED
      BY <1>2, <2>1, <2>2, <2>3, <2>4 DEF Next
  <1>3. FreshInv => BalanceFresh
    BY DEF FreshInv, Reading, Fresh, BalanceFresh, Of
  <1>4. OneSideInv /\ FreshInv /\ [Next]_vars => FreshInv'
    BY <1>2
  <1> QED
    BY <1>1, <1>3, <1>4, OneSideInit, OneSideNext, PTL DEF Spec

=============================================================================
