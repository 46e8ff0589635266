---------------------- MODULE ReconciliationLines_proofs ----------------------
(***************************************************************************)
(* More proofs about Reconciliation: the types, the partners of the        *)
(* propositions, and the progress of the screen.                           *)
(***************************************************************************)
EXTENDS Reconciliation_proofs, Sums

-----------------------------------------------------------------------------
(* Sums of residuals *)

LEMMA ResidualsType == \A ms \in SUBSET MoveLine : Residuals[ms] \in Int
  <1> SUFFICES ASSUME NEW ms \in SUBSET MoveLine PROVE Residuals[ms] \in Int
    OBVIOUS
  <1>1. Residuals[ms] = SumOver(Residual, ms)
    BY DEF Residuals, SumOver
  <1>2. IsFiniteSet(ms) /\ \A m \in ms : Residual[m] \in Int
    BY ConstantsAssumption, FS_Subset
  <1> QED
    BY <1>1, <1>2, SumType

-----------------------------------------------------------------------------
(* The states of a line *)

(* At most one amount.                                                     *)
OneAmount(amounts) == amounts = {} \/ \E a \in Int : amounts = {a}

LineOK(r) == r \in LineStates /\ OneAmount(r.draft) /\ OneAmount(r.writeoff)

OffersOwn(r)   == r.partner # NoPartner => \A m \in r.offered : PartnerOf[m] = r.partner
ProposesOwn(r) == r.partner # NoPartner => \A m \in r.props : PartnerOf[m] = r.partner

(* Another state of the line with the same propositions and partner, which *)
(* offers ms.                                                              *)
Like(r, s, ms) ==
    LineOK(s) /\ s.props = r.props /\ s.partner = r.partner /\ s.offered = ms

LEMMA LineFieldTypes ==
    ASSUME NEW r, LineOK(r)
    PROVE  /\ r.mode \in Modes /\ r.partner \in Partner \cup {NoPartner}
           /\ r.offered \in SUBSET MoveLine /\ r.spare \in SUBSET Int
           /\ r.props \in SUBSET MoveLine /\ r.draft \in SUBSET Int /\ r.writeoff \in SUBSET Int
           /\ r.balance \in Int /\ r.filter \in [MatchMode -> Filters]
           /\ r.reconciled \in BOOLEAN /\ r.need_update \in BOOLEAN
BY DEF LineOK, LineStates

LEMMA AmountType ==
    ASSUME NEW amounts, OneAmount(amounts)
    PROVE  AmountOf(amounts) \in Int
BY DEF OneAmount, AmountOf

LEMMA TotalType ==
    ASSUME NEW l \in Lines, NEW r, LineOK(r)
    PROVE  Total(l, r) \in Int
  <1>1. Residuals[r.props] \in Int
    BY ResidualsType, LineFieldTypes
  <1>2. AmountOf(r.writeoff) \in Int
    BY AmountType DEF LineOK
  <1>3. Amount[l] \in Int
    BY ConstantsAssumption
  <1> QED
    BY <1>1, <1>2, <1>3 DEF Total

LEMMA ModeLike ==
    ASSUME NEW r, LineOK(r), NEW mode \in Modes
    PROVE  Like(r, [r EXCEPT !.mode = mode], r.offered)
BY DEF Like, LineOK, LineStates

LEMMA OfferedLike ==
    ASSUME NEW r, LineOK(r), NEW ms \in SUBSET MoveLine
    PROVE  Like(r, [r EXCEPT !.offered = ms], ms)
BY DEF Like, LineOK, LineStates

LEMMA ComputeLike ==
    ASSUME NEW l \in Lines, NEW r, LineOK(r)
    PROVE  Like(r, computeLine(l, r), r.offered)
  <1> DEFINE total == Total(l, r)
             s     == [r EXCEPT !.balance = total]
  <1>1. total \in Int
    BY TotalType
  <1> HIDE DEF total
  <1>2. Like(r, s, r.offered)
    BY <1>1 DEF Like, LineOK, LineStates
  <1> QED
    BY <1>2 DEF computeLine, total

LEMMA DraftLike ==
    ASSUME NEW r, LineOK(r), NEW draft, OneAmount(draft)
    PROVE  Like(r, [r EXCEPT !.draft = draft], r.offered)
  <1>1. draft \in SUBSET Int
    BY DEF OneAmount
  <1> QED
    BY <1>1 DEF Like, LineOK, LineStates

LEMMA LikeThen ==
    ASSUME NEW r, NEW s, NEW t, NEW ms, NEW ns, Like(r, s, ms), Like(s, t, ns)
    PROVE  Like(r, t, ns)
BY DEF Like

LEMMA CreateLike ==
    ASSUME NEW l \in Lines, NEW r, LineOK(r)
    PROVE  Like(r, createProposition(l, r), r.offered)
  <1> DEFINE drafted == [r EXCEPT !.draft = {r.balance}]
  <1>1. OneAmount({r.balance})
    BY LineFieldTypes DEF OneAmount
  <1>2. Like(r, drafted, r.offered)
    BY <1>1, DraftLike
  <1>3. createProposition(l, r) = computeLine(l, drafted)
    BY DEF createProposition
  <1> HIDE DEF drafted
  <1>4. Like(drafted, computeLine(l, drafted), drafted.offered)
    BY <1>2, ComputeLike, Zenon DEF Like
  <1>5. drafted.offered = r.offered
    BY <1>2, Zenon DEF Like
  <1> QED
    BY <1>2, <1>3, <1>4, <1>5, LikeThen

LEMMA DefaultMode == ASSUME NEW r PROVE getDefaultMode(r) \in Modes
BY DEF getDefaultMode, Modes, MatchMode

LEMMA FormatLike ==
    ASSUME NEW l \in Lines, NEW r, LineOK(r), NEW list, NEW ms \in SUBSET MoveLine
    PROVE  Like(r, formatMoveLine(l, r, list, ms), r.offered \cup ms)
  <1> DEFINE all    == r.offered \cup ms
             joined == [r EXCEPT !.offered = r.offered \cup ms]
             left   == [joined EXCEPT !.mode = getDefaultMode(joined)]
             value  == formatMoveLine(l, r, list, ms)
  <1>1. \/ value = computeLine(l, joined)
        \/ value = createProposition(l, computeLine(l, left))
        \/ value = left
    BY Zenon DEF formatMoveLine
  <1>2. all \in SUBSET MoveLine
    BY LineFieldTypes
  <1>3. Like(r, joined, all)
    BY <1>2, OfferedLike
  <1>4. getDefaultMode(joined) \in Modes
    BY DefaultMode
  <1> HIDE DEF joined, value
  <1>5. LineOK(joined) /\ joined.offered = all
    BY <1>3, Zenon DEF Like
  <1>6. Like(joined, left, joined.offered)
    BY <1>4, <1>5, ModeLike
  <1> HIDE DEF left
  <1>7. Like(r, left, all) /\ LineOK(left) /\ left.offered = all
    BY <1>3, <1>5, <1>6, LikeThen DEF Like
  <1>8. Like(r, computeLine(l, joined), all)
    BY <1>3, <1>5, ComputeLike, LikeThen
  <1>9. Like(r, createProposition(l, computeLine(l, left)), all)
    <2> DEFINE c == computeLine(l, left)
    <2>1. Like(left, c, all)
      BY <1>7, ComputeLike
    <2> HIDE DEF c
    <2>2. LineOK(c) /\ c.offered = all
      BY <2>1 DEF Like
    <2>3. Like(c, createProposition(l, c), all)
      BY <2>2, CreateLike
    <2>4. Like(r, createProposition(l, c), all)
      BY <1>7, <2>1, <2>3, LikeThen
    <2> QED
      BY <2>4 DEF c
  <1>10. Like(r, value, all)
    BY <1>1, <1>7, <1>8, <1>9, Zenon
  <1> QED
    BY <1>10 DEF value

LEMMA ChangeModeLike ==
    ASSUME NEW l \in Lines, NEW r, LineOK(r), NEW mode \in Modes
    PROVE  Like(r, changeMode(l, r, mode), r.offered)
  <1> DEFINE moved == [r EXCEPT !.mode = mode]
             value == changeMode(l, r, mode)
  <1>1. \/ value = createProposition(l, moved)
        \/ value = formatMoveLine(l, moved, mode, {})
        \/ value = moved
    <2>1. CASE mode = "create"
      BY <2>1 DEF changeMode
    <2>2. CASE mode # "create" /\ mode \in MatchMode /\ Shows(r, mode)
      BY <2>2 DEF changeMode
    <2>3. CASE mode # "create" /\ ~(mode \in MatchMode /\ Shows(r, mode))
      BY <2>3 DEF changeMode
    <2> QED
      BY <2>1, <2>2, <2>3
  <1>2. Like(r, moved, r.offered)
    BY ModeLike
  <1> HIDE DEF moved, value
  <1>3. LineOK(moved) /\ moved.offered = r.offered /\ moved.offered \cup {} = r.offered
    BY <1>2 DEF Like
  <1>4. Like(r, createProposition(l, moved), r.offered)
    BY <1>2, <1>3, CreateLike, LikeThen
  <1>5. Like(moved, formatMoveLine(l, moved, mode, {}), moved.offered \cup {})
    BY <1>3, FormatLike
  <1>6. Like(r, formatMoveLine(l, moved, mode, {}), r.offered)
    BY <1>2, <1>3, <1>5, LikeThen
  <1>7. Like(r, value, r.offered)
    BY <1>1, <1>2, <1>4, <1>6, Zenon
  <1> QED
    BY <1>7 DEF value

-----------------------------------------------------------------------------
(* What the handlers ask *)

(* Calls of line l that a handler makes when its partner is that of r.     *)
Asks(l, r, new) ==
    /\ IsFiniteSet(new)
    /\ \A c \in new :
          /\ c \in Fetches \cup Reads /\ c.line = l
          /\ c.call = "fetch" => c.partner = r.partner

Pending(l, cs) == \E c \in cs : c.call = "partner" /\ c.line = l

LEMMA CallKinds ==
    /\ \A c \in Fetches : c.call = "fetch"
    /\ \A c \in Reads : c.call = "partner"
    /\ \A c \in Posts : c.call = "process"
BY DEF Fetches, Reads, Posts

LEMMA AsksNothing == ASSUME NEW l, NEW r PROVE Asks(l, r, {})
BY FS_EmptySet DEF Asks

LEMMA AsksOne ==
    ASSUME NEW l \in Lines, NEW r, LineOK(r), NEW list \in MatchMode, NEW one \in BOOLEAN,
           NEW purpose \in Purposes
    PROVE  Asks(l, r, performMoveLine(l, r, list, one, purpose))
  <1> DEFINE c == [call |-> "fetch", line |-> l, list |-> list, partner |-> r.partner,
                   excluded |-> r.props \cup r.offered, filter |-> r.filter[list],
                   one |-> one, purpose |-> purpose]
  <1>1. /\ r.partner \in Partner \cup {NoPartner} /\ r.props \cup r.offered \in SUBSET MoveLine
        /\ r.filter[list] \in Filters
    BY LineFieldTypes
  <1>2. c \in Fetches /\ c.line = l /\ c.call = "fetch" /\ c.partner = r.partner
    BY <1>1 DEF Fetches
  <1>3. performMoveLine(l, r, list, one, purpose) = {c}
    BY DEF performMoveLine
  <1> HIDE DEF c
  <1>4. IsFiniteSet({c})
    BY FS_Singleton
  <1> QED
    BY <1>2, <1>3, <1>4 DEF Asks

LEMMA AsksTwo ==
    ASSUME NEW l, NEW r, NEW new, NEW more, Asks(l, r, new), Asks(l, r, more)
    PROVE  Asks(l, r, new \cup more)
  <1>1. IsFiniteSet(new \cup more)
    BY FS_Union DEF Asks
  <1> QED
    BY <1>1 DEF Asks

LEMMA AsksBoth ==
    ASSUME NEW l \in Lines, NEW r, LineOK(r), NEW purpose \in Purposes
    PROVE  Asks(l, r, FetchBoth(l, r, purpose))
  <1> DEFINE A == performMoveLine(l, r, "match_rp", FALSE, purpose)
             B == performMoveLine(l, r, "match_other", FALSE, purpose)
  <1>1. FetchBoth(l, r, purpose) = A \cup B
    BY DEF FetchBoth, MatchMode
  <1>2. Asks(l, r, A) /\ Asks(l, r, B)
    BY AsksOne DEF MatchMode
  <1> HIDE DEF A, B
  <1> QED
    BY <1>1, <1>2, AsksTwo

LEMMA AsksMode ==
    ASSUME NEW l \in Lines, NEW r, LineOK(r)
    PROVE  Asks(l, r, FetchMode(l, r))
  <1>1. CASE r.mode \in MatchMode /\ ~Shows(r, r.mode)
    <2>1. FetchMode(l, r) = performMoveLine(l, r, r.mode, FALSE, "act")
      BY <1>1 DEF FetchMode
    <2> QED
      BY <1>1, <2>1, AsksOne DEF Purposes
  <1>2. CASE ~(r.mode \in MatchMode /\ ~Shows(r, r.mode))
    <2>1. FetchMode(l, r) = {}
      BY <1>2 DEF FetchMode
    <2> QED
      BY <2>1, AsksNothing
  <1> QED
    BY <1>1, <1>2

LEMMA AsksRefill ==
    ASSUME NEW l \in Lines, NEW r, LineOK(r)
    PROVE  Asks(l, r, Refill(l, r))
  <1> DEFINE one == "match_rp" = r.mode
             two == "match_other" = r.mode
  <1>1. Refill(l, r) = performMoveLine(l, r, "match_rp", one, "act")
                       \cup performMoveLine(l, r, "match_other", two, "act")
    BY DEF Refill, MatchMode
  <1>2. one \in BOOLEAN /\ two \in BOOLEAN
    OBVIOUS
  <1> HIDE DEF one, two
  <1>3. /\ Asks(l, r, performMoveLine(l, r, "match_rp", one, "act"))
        /\ Asks(l, r, performMoveLine(l, r, "match_other", two, "act"))
    BY <1>2, AsksOne DEF MatchMode, Purposes
  <1> QED
    BY <1>1, <1>3, AsksTwo

LEMMA AsksBubbled ==
    ASSUME NEW l \in Lines, NEW r, LineOK(r)
    PROVE  Asks(l, r, Bubbled(l, r))
  <1>1. Bubbled(l, r) = FetchBoth(l, r, "open") \/ Bubbled(l, r) = {}
    BY DEF Bubbled
  <1>2. Asks(l, r, FetchBoth(l, r, "open")) /\ Asks(l, r, {})
    BY AsksBoth, AsksNothing DEF Purposes
  <1> QED
    BY <1>1, <1>2

LEMMA AsksRead ==
    ASSUME NEW l \in Lines, NEW r, NEW keep \in BOOLEAN
    PROVE  Asks(l, r, ReadAccounts(l, keep)) /\ Pending(l, ReadAccounts(l, keep))
  <1> DEFINE c == [call |-> "partner", line |-> l, keep |-> keep]
  <1>1. c \in Reads /\ c.call = "partner" /\ c.line = l
    BY DEF Reads
  <1>2. ReadAccounts(l, keep) = {c}
    BY DEF ReadAccounts
  <1> HIDE DEF c
  <1>3. IsFiniteSet({c})
    BY FS_Singleton
  <1> QED
    BY <1>1, <1>2, <1>3 DEF Asks, Pending

LEMMA AsksLike ==
    ASSUME NEW l, NEW r, NEW s, NEW new, Asks(l, r, new), s.partner = r.partner
    PROVE  Asks(l, s, new)
BY DEF Asks

-----------------------------------------------------------------------------
(* The inductive invariant *)

CallOK(c, states) ==
    /\ c \in Fetches \cup Reads \cup Posts
    /\ c.call = "fetch" => c.partner = states[c.line].partner

(* Types, and the partner of what the lines offer, propose and ask for.    *)
Good(states, cs) ==
    /\ states = [l \in Lines |-> states[l]]
    /\ \A l \in Lines : /\ LineOK(states[l]) /\ OffersOwn(states[l])
                        /\ ProposesOwn(states[l]) \/ Pending(l, cs)
    /\ IsFiniteSet(cs)
    /\ \A c \in cs : CallOK(c, states)

(* What is not about the lines.                                            *)
Around ==
    /\ shown \in SUBSET Lines /\ valuenow \in Nat
    /\ handlers \in 0..MaxHandlers /\ troubles \in 0..MaxTroubles
    /\ server \in [settled : SUBSET Lines, entry : [Lines -> SUBSET MoveLine],
                   others : SUBSET MoveLine]

LinesInv == Good(line, calls) /\ Around

LEMMA Bounds ==
    /\ NumLines \in Nat \ {0} /\ MaxPresses \in Nat \ {0}
    /\ MaxHandlers \in Nat /\ MaxTroubles \in Nat
BY ConstantsAssumption, Zenon

(* A trouble counts, and leaves what it does not touch.                    *)
LEMMA TroubleCounts ==
    ASSUME Around, Trouble
    PROVE  handlers' \in 0..MaxHandlers /\ troubles' \in 0..MaxTroubles
  <1>1. troubles < MaxTroubles /\ troubles' = troubles + 1 /\ handlers' = handlers
    BY Zenon DEF Trouble
  <1>2. handlers \in 0..MaxHandlers /\ troubles \in 0..MaxTroubles
    BY Zenon DEF Around
  <1> QED
    BY <1>1, <1>2, Bounds

LEMMA CallLine ==
    ASSUME NEW c, NEW states, CallOK(c, states)
    PROVE  c.line \in Lines
BY DEF CallOK, Fetches, Reads, Posts

(* The end of a handler closes lines, and nothing else.                    *)
LEMMA FocusGood ==
    ASSUME NEW l, NEW states, NEW cs, Good(states, cs)
    PROVE  Good(Focused(l, states), cs)
  <1> DEFINE value == Focused(l, states)
  <1>1. ASSUME NEW k \in Lines PROVE Like(states[k], value[k], states[k].offered)
    <2>1. LineOK(states[k])
      BY DEF Good
    <2>2. Like(states[k], states[k], states[k].offered)
      BY <2>1 DEF Like
    <2>3. Like(states[k], [states[k] EXCEPT !.mode = "inactive"], states[k].offered)
      BY <2>1, ModeLike DEF Modes
    <2>4. value[k] = states[k] \/ value[k] = [states[k] EXCEPT !.mode = "inactive"]
      BY DEF Focused
    <2> HIDE DEF value
    <2> QED
      BY <2>2, <2>3, <2>4, Zenon
  <1>2. value = [k \in Lines |-> value[k]]
    BY DEF Focused
  <1> HIDE DEF value
  <1>3. \A c \in cs : CallOK(c, value)
    BY <1>1, CallLine DEF Good, CallOK, Like
  <1>4. \A k \in Lines : /\ LineOK(value[k]) /\ OffersOwn(value[k])
                         /\ ProposesOwn(value[k]) \/ Pending(k, cs)
    BY <1>1 DEF Good, Like, OffersOwn, ProposesOwn
  <1>5. Good(value, cs)
    BY <1>2, <1>3, <1>4 DEF Good
  <1> QED
    BY <1>5 DEF value

(* A line with no call under way takes another state and makes new calls.  *)
LEMMA HandledGood ==
    ASSUME LinesInv, NEW l \in Lines, Quiet(l), NEW r, LineOK(r), OffersOwn(r),
           NEW new, Asks(l, r, new), ProposesOwn(r) \/ Pending(l, new), Handle(l, r, new)
    PROVE  LinesInv'
  <1> DEFINE states == [line EXCEPT ![l] = r]
             cs     == calls \cup new \cup Bubbled(l, r)
  <1>1. \A k \in Lines : states[k] = IF k = l THEN r ELSE line[k]
    BY DEF LinesInv, Good
  <1>2. states = [k \in Lines |-> states[k]]
    BY DEF LinesInv, Good
  <1>3. Asks(l, r, new \cup Bubbled(l, r))
    BY AsksBubbled, AsksTwo
  <1>4. cs = calls \cup (new \cup Bubbled(l, r))
    OBVIOUS
  <1>5. /\ line' = states \/ line' = Focused(l, states)
        /\ calls' = cs
    BY Zenon DEF Handle
  <1> HIDE DEF states, cs
  <1>6. IsFiniteSet(cs)
    BY <1>3, <1>4, FS_Union DEF Asks, LinesInv, Good
  <1>7. ASSUME NEW c \in cs PROVE CallOK(c, states)
    <2>1. CASE c \in calls
      <3>1. CallOK(c, line) /\ c.line # l
        BY <2>1 DEF LinesInv, Good, Quiet
      <3>2. states[c.line] = line[c.line]
        BY <1>1, <3>1, CallLine
      <3> QED
        BY <3>1, <3>2 DEF CallOK
    <2>2. CASE c \in new \cup Bubbled(l, r)
      BY <1>1, <1>3, <2>2 DEF Asks, CallOK
    <2> QED
      BY <1>4, <2>1, <2>2
  <1>8. ASSUME NEW k \in Lines
        PROVE  /\ LineOK(states[k]) /\ OffersOwn(states[k])
               /\ ProposesOwn(states[k]) \/ Pending(k, cs)
    BY <1>1, <1>4 DEF LinesInv, Good, Pending
  <1>9. Good(states, cs)
    BY <1>2, <1>6, <1>7, <1>8 DEF Good
  <1>10. Good(line', calls')
    BY <1>5, <1>9, FocusGood
  <1>11. Around'
    <2>1. UserActs /\ UNCHANGED <<shown, valuenow, server>>
      BY Zenon DEF Handle
    <2>2. handlers < MaxHandlers /\ handlers' = handlers + 1 /\ troubles' = troubles
      BY <2>1, Zenon DEF UserActs
    <2>3. handlers \in 0..MaxHandlers /\ troubles \in 0..MaxTroubles /\ MaxHandlers \in Nat
      BY ConstantsAssumption, Zenon DEF LinesInv, Around
    <2>4. handlers' \in 0..MaxHandlers /\ troubles' \in 0..MaxTroubles
      BY <2>2, <2>3
    <2> QED
      BY <2>1, <2>4, Zenon DEF LinesInv, Around
  <1> QED
    BY <1>10, <1>11 DEF LinesInv

LEMMA OwnGood ==
    ASSUME LinesInv, NEW l \in Lines
    PROVE  LineOK(line[l]) /\ OffersOwn(line[l]) /\ (Quiet(l) => ProposesOwn(line[l]))
BY DEF LinesInv, Good, Quiet, Pending

(* A handler that keeps the partner and the propositions of its line, and  *)
(* offers no more.                                                         *)
LEMMA HandledAlike ==
    ASSUME LinesInv, NEW l \in Lines, Quiet(l), NEW r, NEW ms, Like(line[l], r, ms),
           ms \subseteq line[l].offered, NEW new, Asks(l, line[l], new), Handle(l, r, new)
    PROVE  LinesInv'
  <1>1. OffersOwn(r) /\ ProposesOwn(r) /\ LineOK(r)
    BY OwnGood DEF Like, OffersOwn, ProposesOwn
  <1>2. Asks(l, r, new)
    BY AsksLike DEF Like
  <1> QED
    BY <1>1, <1>2, HandledGood

-----------------------------------------------------------------------------
(* What the user does *)

LEMMA TabsGood ==
    ASSUME LinesInv, NEW l \in Lines,
           \/ Toggle(l) \/ changeOffset(l)
           \/ \E mode \in Modes : ChangeTab(l, mode)
           \/ \E filter \in Filters : ChangeFilter(l, filter)
    PROVE  LinesInv'
  <1>1. /\ LineOK(line[l]) /\ OffersOwn(line[l])
        /\ Like(line[l], line[l], line[l].offered)
    BY OwnGood DEF Like
  <1>2. CASE Toggle(l)
    <2>1. Quiet(l) /\ Handle(l, line[l], {})
      BY <1>2, Zenon DEF Toggle, Opened
    <2> QED
      BY <1>1, <2>1, AsksNothing, HandledAlike
  <1>3. CASE changeOffset(l)
    <2> DEFINE new == performMoveLine(l, line[l], line[l].mode, FALSE, "act")
    <2>1. Quiet(l) /\ line[l].mode \in MatchMode /\ Handle(l, line[l], new)
      BY <1>3, Zenon DEF changeOffset, Opened
    <2>2. Asks(l, line[l], new)
      BY <1>1, <2>1, AsksOne DEF Purposes
    <2> HIDE DEF new
    <2> QED
      BY <1>1, <2>1, <2>2, HandledAlike
  <1>4. ASSUME NEW mode \in Modes, ChangeTab(l, mode) PROVE LinesInv'
    <2> DEFINE asked == [line[l] EXCEPT !.mode = mode]
               r     == changeMode(l, line[l], mode)
    <2>1. Quiet(l) /\ Handle(l, r, FetchMode(l, asked))
      BY <1>4, Zenon DEF ChangeTab, Opened
    <2>2. Like(line[l], asked, line[l].offered) /\ Like(line[l], r, line[l].offered)
      BY <1>1, ModeLike, ChangeModeLike
    <2> HIDE DEF asked, r
    <2>3. Asks(l, line[l], FetchMode(l, asked))
      <3>1. LineOK(asked) /\ asked.partner = line[l].partner
        BY <2>2 DEF Like
      <3>2. Asks(l, asked, FetchMode(l, asked))
        BY <3>1, AsksMode
      <3> QED
        BY <3>1, <3>2, AsksLike
    <2> QED
      BY <2>1, <2>2, <2>3, HandledAlike
  <1>5. ASSUME NEW filter \in Filters, ChangeFilter(l, filter) PROVE LinesInv'
    <2> DEFINE list   == line[l].mode
               texts  == [line[l].filter EXCEPT ![list] = filter]
               others == {m \in line[l].offered : Kind[m] # list}
               spare  == IF list = "match_other" THEN {} ELSE line[l].spare
               r      == [line[l] EXCEPT !.filter = texts, !.offered = others, !.spare = spare]
               new    == performMoveLine(l, r, list, FALSE, "act")
    <2>1. Quiet(l) /\ list \in MatchMode /\ Handle(l, r, new)
      BY <1>5, Zenon DEF ChangeFilter, Opened
    <2>2. /\ texts \in [MatchMode -> Filters] /\ others \in SUBSET MoveLine
          /\ spare \in SUBSET Int /\ others \subseteq line[l].offered
      BY <1>1, LineFieldTypes
    <2> HIDE DEF texts, others, spare
    <2>3. Like(line[l], r, others)
      BY <1>1, <2>2 DEF Like, LineOK, LineStates
    <2> HIDE DEF r
    <2>4. Asks(l, r, new) /\ line[l].partner = r.partner
      BY <2>1, <2>3, AsksOne DEF Like, Purposes
    <2> HIDE DEF new, list
    <2> QED
      BY <2>1, <2>2, <2>3, <2>4, AsksLike, HandledAlike
  <1> QED
    BY <1>2, <1>3, <1>4, <1>5

LEMMA ChosenGood ==
    ASSUME LinesInv, NEW l \in Lines, NEW m \in MoveLine, addProposition(l, m)
    PROVE  LinesInv'
  <1> DEFINE r     == [line[l] EXCEPT !.props = @ \cup {m}, !.offered = @ \ {m}, !.draft = {}]
             named == [r EXCEPT !.partner = PartnerOf[m], !.offered = {}, !.spare = {}]
             Names == /\ r.partner = NoPartner /\ PartnerOf[m] # NoPartner
                      /\ r.props = {m} /\ r.writeoff = {}
  <1>1. LineOK(line[l]) /\ OffersOwn(line[l]) /\ ProposesOwn(line[l]) /\ Quiet(l)
        /\ m \in line[l].offered
    BY OwnGood, Zenon DEF addProposition, Opened
  <1>2. IF Names THEN Handle(l, named, ReadAccounts(l, TRUE))
        ELSE Handle(l, computeLine(l, r), Refill(l, r))
    BY Zenon DEF addProposition
  <1>3. /\ LineOK(r) /\ r.partner = line[l].partner
        /\ r.props = line[l].props \cup {m} /\ r.offered \subseteq line[l].offered
    BY <1>1 DEF LineOK, LineStates, OneAmount
  <1> HIDE DEF r
  <1>4. OffersOwn(r) /\ ProposesOwn(r)
    BY <1>1, <1>3 DEF OffersOwn, ProposesOwn
  <1>5. CASE Names
    <2>1. PartnerOf[m] \in Partner \cup {NoPartner}
      BY ConstantsAssumption
    <2>2. LineOK(named) /\ named.offered = {}
      BY <1>3, <2>1 DEF LineOK, LineStates
    <2> HIDE DEF named, Names
    <2>3. OffersOwn(named)
      BY <2>2 DEF OffersOwn
    <2>4. Asks(l, named, ReadAccounts(l, TRUE)) /\ Pending(l, ReadAccounts(l, TRUE))
      BY AsksRead
    <2> QED
      BY <1>1, <1>2, <1>5, <2>2, <2>3, <2>4, HandledGood
  <1>6. CASE ~Names
    <2> HIDE DEF Names
    <2> DEFINE s == computeLine(l, r)
    <2>1. Like(r, s, r.offered)
      BY <1>3, ComputeLike
    <2>2. Handle(l, s, Refill(l, r))
      BY <1>2, <1>6
    <2> HIDE DEF s
    <2>3. LineOK(s) /\ OffersOwn(s) /\ ProposesOwn(s)
      BY <1>4, <2>1 DEF Like, OffersOwn, ProposesOwn
    <2>4. Asks(l, s, Refill(l, r))
      BY <1>3, <2>1, AsksRefill, AsksLike DEF Like
    <2> QED
      BY <1>1, <2>2, <2>3, <2>4, HandledGood
  <1> QED
    BY <1>5, <1>6

(* A change of the amounts alone, computed again.                          *)
LEMMA AmountsGood ==
    ASSUME LinesInv, NEW l \in Lines, Quiet(l), NEW r, Like(line[l], r, line[l].offered),
           NEW new, Asks(l, line[l], new), Handle(l, computeLine(l, r), new)
    PROVE  LinesInv'
  <1>1. Like(r, computeLine(l, r), line[l].offered)
    BY ComputeLike DEF Like
  <1>2. Like(line[l], computeLine(l, r), line[l].offered)
    BY <1>1, LikeThen
  <1> QED
    BY <1>2, HandledAlike

LEMMA WriteOffsGood ==
    ASSUME LinesInv, NEW l \in Lines,
           \/ \E a \in line[l].spare : AddSpare(l, a)
           \/ updateProposition(l)
           \/ \E amount \in ModelAmounts : quickCreateProposition(l, amount)
    PROVE  LinesInv'
  <1>1. LineOK(line[l])
    BY OwnGood
  <1>2. ASSUME NEW a \in line[l].spare, AddSpare(l, a) PROVE LinesInv'
    <2> DEFINE r == [line[l] EXCEPT !.writeoff = {a}, !.spare = @ \ {a}, !.draft = {}]
    <2>1. Quiet(l) /\ Handle(l, computeLine(l, r), Refill(l, r))
      BY <1>2, Zenon DEF AddSpare, Opened
    <2>2. a \in Int
      BY <1>1, LineFieldTypes
    <2>3. Like(line[l], r, line[l].offered)
      BY <1>1, <2>2 DEF Like, LineOK, LineStates, OneAmount
    <2> HIDE DEF r
    <2>4. Asks(l, line[l], Refill(l, r))
      BY <2>3, AsksRefill, AsksLike DEF Like
    <2> QED
      BY <2>1, <2>3, <2>4, AmountsGood
  <1>3. CASE updateProposition(l)
    <2> DEFINE amount == IF line[l].draft = {} THEN {line[l].balance} ELSE line[l].draft
               r == [line[l] EXCEPT !.writeoff = amount, !.draft = {}]
    <2>1. Quiet(l) /\ Handle(l, computeLine(l, r), {})
      BY <1>3, Zenon DEF updateProposition, Opened
    <2>2. OneAmount(amount) /\ amount \in SUBSET Int
      BY <1>1, LineFieldTypes DEF LineOK, OneAmount
    <2> HIDE DEF amount
    <2>3. Like(line[l], r, line[l].offered)
      BY <1>1, <2>2 DEF Like, LineOK, LineStates, OneAmount
    <2> HIDE DEF r
    <2> QED
      BY <2>1, <2>3, AsksNothing, AmountsGood
  <1>4. ASSUME NEW amount \in ModelAmounts, quickCreateProposition(l, amount) PROVE LinesInv'
    <2> DEFINE r == [line[l] EXCEPT !.draft = {}, !.writeoff = {amount}]
    <2>1. Quiet(l) /\ Handle(l, computeLine(l, r), {})
      BY <1>4, Zenon DEF quickCreateProposition, Opened
    <2>2. amount \in Int
      BY ConstantsAssumption
    <2>3. Like(line[l], r, line[l].offered)
      BY <1>1, <2>2 DEF Like, LineOK, LineStates, OneAmount
    <2> HIDE DEF r
    <2> QED
      BY <2>1, <2>3, AsksNothing, AmountsGood
  <1> QED
    BY <1>2, <1>3, <1>4

LEMMA RemovedGood ==
    ASSUME LinesInv, NEW l \in Lines, Quiet(l), NEW r, LineOK(r), OffersOwn(r), ProposesOwn(r),
           NEW mode \in Modes, Removed(l, r, mode)
    PROVE  LinesInv'
  <1> DEFINE moved == [r EXCEPT !.mode = mode]
             left  == computeLine(l, moved)
             reset == [left EXCEPT !.partner = NoPartner, !.offered = {}, !.spare = {}]
             value == changeMode(l, left, mode)
  <1>1. \/ Handle(l, reset, FetchBoth(l, reset, "open"))
        \/ Handle(l, value, FetchMode(l, left))
    BY Zenon DEF Removed
  <1>2. Like(r, moved, r.offered)
    BY ModeLike
  <1> HIDE DEF moved
  <1>3. LineOK(moved) /\ moved.offered = r.offered
    BY <1>2 DEF Like
  <1>4. Like(r, left, r.offered)
    BY <1>2, <1>3, ComputeLike, LikeThen
  <1> HIDE DEF left
  <1>5. LineOK(left) /\ left.offered = r.offered /\ left.partner = r.partner
    BY <1>4 DEF Like
  <1>6. CASE Handle(l, reset, FetchBoth(l, reset, "open"))
    <2>1. LineOK(reset) /\ OffersOwn(reset) /\ ProposesOwn(reset)
      BY <1>5 DEF LineOK, LineStates, OffersOwn, ProposesOwn
    <2> HIDE DEF reset
    <2>2. Asks(l, reset, FetchBoth(l, reset, "open"))
      BY <2>1, AsksBoth DEF Purposes
    <2> QED
      BY <1>6, <2>1, <2>2, HandledGood
  <1>7. CASE Handle(l, value, FetchMode(l, left))
    <2>1. Like(left, value, left.offered)
      BY <1>5, ChangeModeLike
    <2> HIDE DEF value
    <2>2. Like(r, value, r.offered)
      BY <1>4, <1>5, <2>1, LikeThen
    <2>3. LineOK(value) /\ OffersOwn(value) /\ ProposesOwn(value)
      BY <2>2 DEF Like, OffersOwn, ProposesOwn
    <2>4. Asks(l, value, FetchMode(l, left))
      <3>1. Asks(l, left, FetchMode(l, left)) /\ value.partner = left.partner
        BY <1>5, <2>1, AsksMode DEF Like
      <3> QED
        BY <3>1, AsksLike
    <2> QED
      BY <1>7, <2>3, <2>4, HandledGood
  <1> QED
    BY <1>1, <1>6, <1>7

LEMMA RemovalsGood ==
    ASSUME LinesInv, NEW l \in Lines,
           \/ \E m \in MoveLine : RemoveMoveLine(l, m)
           \/ \E a \in line[l].writeoff : RemoveWriteOff(l, a)
    PROVE  LinesInv'
  <1>1. ASSUME NEW m \in MoveLine, RemoveMoveLine(l, m) PROVE LinesInv'
    <2> DEFINE r == [line[l] EXCEPT !.props = @ \ {m}, !.offered = @ \cup {m}]
    <2>1. Quiet(l) /\ m \in line[l].props /\ Removed(l, r, "match_rp")
      BY <1>1, Zenon DEF RemoveMoveLine, Opened
    <2>2. LineOK(line[l]) /\ OffersOwn(line[l]) /\ ProposesOwn(line[l])
      BY <2>1, OwnGood
    <2>3. /\ LineOK(r) /\ r.partner = line[l].partner
          /\ r.props = line[l].props \ {m} /\ r.offered = line[l].offered \cup {m}
      BY <2>2 DEF LineOK, LineStates
    <2> HIDE DEF r
    <2>4. OffersOwn(r) /\ ProposesOwn(r)
      BY <2>1, <2>2, <2>3 DEF OffersOwn, ProposesOwn
    <2>5. "match_rp" \in Modes
      BY DEF Modes, MatchMode
    <2> QED
      BY <2>1, <2>3, <2>4, <2>5, RemovedGood
  <1>2. ASSUME NEW a \in line[l].writeoff, RemoveWriteOff(l, a) PROVE LinesInv'
    <2> DEFINE r == [line[l] EXCEPT !.writeoff = {}, !.spare = {a}]
    <2>1. Quiet(l) /\ Removed(l, r, "create")
      BY <1>2, Zenon DEF RemoveWriteOff, Opened
    <2>2. LineOK(line[l]) /\ OffersOwn(line[l]) /\ ProposesOwn(line[l])
      BY <2>1, OwnGood
    <2>3. a \in Int
      BY <2>2, LineFieldTypes
    <2>4. Like(line[l], r, line[l].offered)
      BY <2>2, <2>3 DEF Like, LineOK, LineStates, OneAmount
    <2> HIDE DEF r
    <2>5. LineOK(r) /\ OffersOwn(r) /\ ProposesOwn(r)
      BY <2>2, <2>4 DEF Like, OffersOwn, ProposesOwn
    <2>6. "create" \in Modes
      BY DEF Modes
    <2> QED
      BY <2>1, <2>5, <2>6, RemovedGood
  <1> QED
    BY <1>1, <1>2

LEMMA PartnerGood ==
    ASSUME LinesInv, NEW l \in Lines, NEW p \in Partner \cup {NoPartner}, changePartner(l, p)
    PROVE  LinesInv'
  <1> DEFINE r == [line[l] EXCEPT !.partner = p, !.offered = {}, !.spare = {}]
             s == computeLine(l, r)
  <1>1. /\ Quiet(l)
        /\ IF p = NoPartner THEN Handle(l, s, FetchBoth(l, r, "open"))
           ELSE Handle(l, r, ReadAccounts(l, FALSE))
    BY Zenon DEF changePartner, Opened
  <1>2. LineOK(r) /\ r.partner = p /\ r.offered = {}
    BY OwnGood DEF LineOK, LineStates
  <1> HIDE DEF r
  <1>3. Like(r, s, {})
    BY <1>2, ComputeLike
  <1> HIDE DEF s
  <1>4. CASE p = NoPartner
    <2>1. LineOK(s) /\ OffersOwn(s) /\ ProposesOwn(s)
      BY <1>2, <1>3, <1>4 DEF Like, OffersOwn, ProposesOwn
    <2>2. Asks(l, s, FetchBoth(l, r, "open"))
      <3>1. Asks(l, r, FetchBoth(l, r, "open")) /\ s.partner = r.partner
        BY <1>2, <1>3, AsksBoth DEF Like, Purposes
      <3> QED
        BY <3>1, AsksLike
    <2> QED
      BY <1>1, <1>4, <2>1, <2>2, HandledGood
  <1>5. CASE p # NoPartner
    <2>1. OffersOwn(r)
      BY <1>2 DEF OffersOwn
    <2>2. Asks(l, r, ReadAccounts(l, FALSE)) /\ Pending(l, ReadAccounts(l, FALSE))
      BY AsksRead
    <2> QED
      BY <1>1, <1>2, <1>5, <2>1, <2>2, HandledGood
  <1> QED
    BY <1>4, <1>5

LEMMA ValidateGood ==
    ASSUME LinesInv, NEW l \in Lines, validate(l)
    PROVE  LinesInv'
  <1> DEFINE r       == line[l]
             empty   == r.props = {} /\ r.writeoff = {}
             written == IF empty /\ r.balance # 0 THEN [r EXCEPT !.writeoff = {r.balance}] ELSE r
             sent    == computeLine(l, written)
             open    == IF empty THEN sent.balance ELSE r.balance
             robbed  == {k \in Lines \ {l} : line[k].props \cap r.props # {}}
             nth     == Cardinality(Of("process", l)) + 1
             post    == [call |-> "process", line |-> l, nth |-> nth, props |-> sent.props,
                         new |-> AmountOf(sent.writeoff) + open, done |-> FALSE]
  <1>1. /\ nth <= MaxPresses /\ UserActs
        /\ line' = [k \in Lines |->
                      IF k = l THEN [sent EXCEPT !.reconciled = TRUE]
                      ELSE IF k \in robbed
                           THEN [line[k] EXCEPT !.props = @ \ r.props, !.need_update = TRUE]
                           ELSE line[k]]
        /\ calls' = calls \cup Bubbled(l, r) \cup {post}
        /\ UNCHANGED <<shown, valuenow, server>>
    BY Zenon DEF validate
  <1>2. LineOK(r)
    BY OwnGood
  <1>3. Like(r, written, r.offered)
    <2>1. Like(r, r, r.offered)
      BY <1>2 DEF Like
    <2>2. r.balance \in Int
      BY <1>2, LineFieldTypes
    <2>3. Like(r, [r EXCEPT !.writeoff = {r.balance}], r.offered)
      BY <1>2, <2>2 DEF Like, LineOK, LineStates, OneAmount
    <2> HIDE DEF r
    <2> QED
      BY <2>1, <2>3
  <1> HIDE DEF written
  <1>4. Like(r, sent, r.offered)
    BY <1>3, ComputeLike, LikeThen DEF Like
  <1> HIDE DEF sent
  <1>5. LineOK(sent) /\ sent.props = r.props /\ sent.partner = r.partner /\ sent.offered = r.offered
    BY <1>4 DEF Like
  <1>6. Like(sent, [sent EXCEPT !.reconciled = TRUE], sent.offered)
    BY <1>5 DEF Like, LineOK, LineStates
  <1>7. open \in Int
    BY <1>2, <1>5, LineFieldTypes
  <1> HIDE DEF open
  <1>8. nth \in 1..MaxPresses
    <2>1. IsFiniteSet(Of("process", l))
      BY FS_Subset DEF LinesInv, Good, Of
    <2>2. Cardinality(Of("process", l)) \in Nat
      BY <2>1, FS_CardinalityType
    <2>3. nth <= MaxPresses
      BY <1>1, Zenon
    <2> QED
      BY <2>2, <2>3, Bounds
  <1> HIDE DEF nth
  <1>9. post \in Posts /\ post.call = "process"
    <2>1. AmountOf(sent.writeoff) \in Int
      BY <1>5, AmountType DEF LineOK
    <2>2. AmountOf(sent.writeoff) + open \in Int
      BY <1>7, <2>1
    <2>3. sent.props \in SUBSET MoveLine
      BY <1>5, LineFieldTypes
    <2> QED
      BY <1>8, <2>2, <2>3 DEF Posts
  <1> HIDE DEF post
  <1>10. ASSUME NEW k \in Lines
         PROVE  /\ LineOK(line'[k]) /\ line'[k].partner = line[k].partner
                /\ line'[k].offered = line[k].offered /\ line'[k].props \subseteq line[k].props
    <2>1. CASE k = l
      <3>1. line'[k] = [sent EXCEPT !.reconciled = TRUE]
        BY <1>1, <2>1
      <3>2. Like(sent, line'[k], sent.offered)
        BY <1>6, <3>1
      <3> QED
        BY <1>5, <2>1, <3>2 DEF Like
    <2>2. CASE k # l
      <3>1. LineOK(line[k])
        BY OwnGood
      <3> DEFINE taken == [line[k] EXCEPT !.props = line[k].props \ r.props, !.need_update = TRUE]
      <3>2. /\ LineOK(taken) /\ taken.partner = line[k].partner
            /\ taken.offered = line[k].offered /\ taken.props \subseteq line[k].props
        BY <3>1 DEF LineOK, LineStates
      <3>3. line'[k] = line[k] \/ line'[k] = taken
        BY <1>1, <2>2
      <3> HIDE DEF taken
      <3> QED
        BY <3>1, <3>2, <3>3
    <2> QED
      BY <2>1, <2>2
  <1>11. Asks(l, r, Bubbled(l, r))
    BY <1>2, AsksBubbled
  <1>12. IsFiniteSet(calls')
    <2>1. IsFiniteSet(calls) /\ IsFiniteSet(Bubbled(l, r))
      BY <1>11 DEF Asks, LinesInv, Good
    <2>2. IsFiniteSet(calls \cup Bubbled(l, r))
      BY <2>1, FS_Union
    <2> QED
      BY <1>1, <2>2, FS_AddElement
  <1>13. ASSUME NEW c \in calls' PROVE CallOK(c, line')
    <2>1. CASE c \in calls
      BY <1>10, <2>1, CallLine DEF LinesInv, Good, CallOK
    <2>2. CASE c \in Bubbled(l, r)
      BY <1>10, <1>11, <2>2 DEF Asks, CallOK
    <2>3. CASE c = post
      BY <1>9, <2>3 DEF CallOK
    <2> QED
      BY <1>1, <2>1, <2>2, <2>3
  <1>14. ASSUME NEW k \in Lines
         PROVE  OffersOwn(line'[k]) /\ (ProposesOwn(line'[k]) \/ Pending(k, calls'))
    <2>1. OffersOwn(line[k]) /\ (ProposesOwn(line[k]) \/ Pending(k, calls))
      BY DEF LinesInv, Good
    <2>2. calls \subseteq calls'
      BY <1>1
    <2> QED
      BY <1>10, <2>1, <2>2 DEF OffersOwn, ProposesOwn, Pending
  <1>15. line' = [k \in Lines |-> line'[k]]
    BY <1>1
  <1>16. Around'
    <2>1. handlers < MaxHandlers /\ handlers' = handlers + 1 /\ troubles' = troubles
      BY <1>1, Zenon DEF UserActs
    <2>2. handlers \in 0..MaxHandlers /\ troubles \in 0..MaxTroubles /\ MaxHandlers \in Nat
      BY ConstantsAssumption, Zenon DEF LinesInv, Around
    <2>3. handlers' \in 0..MaxHandlers /\ troubles' \in 0..MaxTroubles
      BY <2>1, <2>2
    <2> QED
      BY <1>1, <2>3, Zenon DEF LinesInv, Around
  <1> QED
    BY <1>10, <1>12, <1>13, <1>14, <1>15, <1>16 DEF LinesInv, Good

-----------------------------------------------------------------------------
(* The calls *)

(* A line takes another state of the same partner while calls end.         *)
LEMMA UpdatedGood ==
    ASSUME LinesInv, NEW l \in Lines, NEW r, LineOK(r), OffersOwn(r),
           r.partner = line[l].partner, NEW cs, ProposesOwn(r) \/ Pending(l, cs),
           IsFiniteSet(cs), \A k \in Lines \ {l} : Pending(k, calls) => Pending(k, cs),
           \A c \in cs : CallOK(c, line)
    PROVE  Good([line EXCEPT ![l] = r], cs)
  <1> DEFINE states == [line EXCEPT ![l] = r]
  <1>1. /\ states = [k \in Lines |-> states[k]]
        /\ \A k \in Lines : states[k] = IF k = l THEN r ELSE line[k]
    BY DEF LinesInv, Good
  <1> HIDE DEF states
  <1>2. \A c \in cs : CallOK(c, states)
    BY <1>1, CallLine DEF CallOK
  <1>3. \A k \in Lines : /\ LineOK(states[k]) /\ OffersOwn(states[k])
                         /\ ProposesOwn(states[k]) \/ Pending(k, cs)
    BY <1>1 DEF LinesInv, Good
  <1>4. Good(states, cs)
    BY <1>1, <1>2, <1>3 DEF Good
  <1> QED
    BY <1>4 DEF states

LEMMA FewerCalls ==
    ASSUME LinesInv, NEW c \in calls
    PROVE  IsFiniteSet(calls \ {c}) /\ \A d \in calls \ {c} : CallOK(d, line)
BY FS_RemoveElement DEF LinesInv, Good

LEMMA AnsweredGood ==
    ASSUME LinesInv, NEW c \in calls, FetchAnswered(c)
    PROVE  LinesInv'
  <1> DEFINE l    == c.line
             rest == calls \ {c}
             last == \A d \in rest : ~(d.call = "fetch" /\ d.line = l /\ d.purpose = c.purpose)
  <1>1. PICK ms \in Answers(c) :
             LET r      == formatMoveLine(l, line[l], c.list, ms)
                 ready  == IF last /\ c.purpose \in {"open", "first"}
                           THEN changeMode(l, r, getDefaultMode(r)) ELSE r
                 states == [line EXCEPT ![l] = ready]
             IN  line' = IF last /\ c.purpose \in {"act", "open"}
                         THEN Focused(l, states) ELSE states
    BY Zenon DEF FetchAnswered
  <1> DEFINE r      == formatMoveLine(l, line[l], c.list, ms)
             ready  == IF last /\ c.purpose \in {"open", "first"}
                       THEN changeMode(l, r, getDefaultMode(r)) ELSE r
             states == [line EXCEPT ![l] = ready]
  <1>2. line' = states \/ line' = Focused(l, states)
    BY <1>1, Zenon
  <1>3. c.call = "fetch" /\ calls' = rest /\ UNCHANGED <<shown, valuenow, server, handlers, troubles>>
    BY Zenon DEF FetchAnswered
  <1>4. CallOK(c, line) /\ l \in Lines
    BY CallLine DEF LinesInv, Good
  <1>5. LineOK(line[l]) /\ OffersOwn(line[l])
    BY <1>4, OwnGood
  <1>6. c.partner = line[l].partner
    BY <1>3, <1>4 DEF CallOK
  <1> HIDE DEF last, l
  <1>7. ms \in SUBSET MoveLine /\ \A m \in ms : c.partner # NoPartner => PartnerOf[m] = c.partner
    BY DEF Answers, Candidates
  <1>8. Like(line[l], r, line[l].offered \cup ms)
    BY <1>4, <1>5, <1>7, FormatLike
  <1> HIDE DEF r
  <1>9. LineOK(r) /\ r.offered = line[l].offered \cup ms
    BY <1>8 DEF Like
  <1>10. Like(r, changeMode(l, r, getDefaultMode(r)), r.offered)
    BY <1>4, <1>9, ChangeModeLike, DefaultMode
  <1>11. Like(line[l], ready, line[l].offered \cup ms)
    BY <1>8, <1>9, <1>10, LikeThen
  <1> HIDE DEF ready
  <1>12. LineOK(ready) /\ OffersOwn(ready) /\ ready.partner = line[l].partner
    BY <1>5, <1>6, <1>7, <1>11 DEF Like, OffersOwn
  <1>13. ASSUME NEW k, Pending(k, calls) PROVE Pending(k, rest)
    BY <1>3, <1>13 DEF Pending
  <1>14. ProposesOwn(ready) \/ Pending(l, rest)
    <2>1. ProposesOwn(line[l]) \/ Pending(l, calls)
      BY <1>4 DEF LinesInv, Good
    <2> QED
      BY <1>11, <1>13, <2>1 DEF Like, ProposesOwn
  <1>15. IsFiniteSet(rest) /\ \A d \in rest : CallOK(d, line)
    BY FewerCalls
  <1> HIDE DEF rest
  <1>16. Good(states, rest)
    BY <1>4, <1>12, <1>13, <1>14, <1>15, UpdatedGood
  <1> HIDE DEF states
  <1>17. Good(line', calls')
    BY <1>2, <1>3, <1>16, FocusGood
  <1> QED
    BY <1>3, <1>17, Zenon DEF LinesInv, Around

LEMMA ReadGood ==
    ASSUME LinesInv, NEW c \in calls, PartnerRead(c)
    PROVE  LinesInv'
  <1> DEFINE l       == c.line
             r       == line[l]
             foreign == \/ r.writeoff # {} \/ r.draft # {}
                        \/ \E m \in r.props : PartnerOf[m] # r.partner
             kept    == IF r.partner # NoPartner /\ foreign
                        THEN [r EXCEPT !.props = {}, !.writeoff = {}, !.draft = {}] ELSE r
             ready   == computeLine(l, kept)
             new     == IF c.keep THEN FetchMode(l, ready) ELSE FetchBoth(l, ready, "open")
             value   == IF c.keep THEN changeMode(l, ready, ready.mode) ELSE ready
             states  == [line EXCEPT ![l] = value]
             cs      == (calls \ {c}) \cup new
  <1>1. /\ c.call = "partner"
        /\ line' = states \/ line' = Focused(l, states)
        /\ calls' = cs
        /\ UNCHANGED <<shown, valuenow, server, handlers, troubles>>
    BY Zenon DEF PartnerRead
  <1>2. l \in Lines
    BY CallLine DEF LinesInv, Good
  <1>3. LineOK(r) /\ OffersOwn(r)
    BY <1>2, OwnGood
  <1> HIDE DEF l
  <1>4. /\ LineOK(kept) /\ kept.partner = r.partner /\ kept.offered = r.offered
        /\ ProposesOwn(kept)
    <2> DEFINE none == [r EXCEPT !.props = {}, !.writeoff = {}, !.draft = {}]
    <2>1. LineOK(none) /\ none.partner = r.partner /\ none.offered = r.offered /\ none.props = {}
      BY <1>3 DEF LineOK, LineStates, OneAmount
    <2>2. CASE r.partner # NoPartner /\ foreign
      <3>1. kept = none
        BY <2>2
      <3> HIDE DEF none, kept
      <3> QED
        BY <2>1, <3>1 DEF ProposesOwn
    <2>3. CASE ~(r.partner # NoPartner /\ foreign)
      <3>1. kept = r
        BY <2>3, Zenon
      <3>2. ProposesOwn(r)
        BY <2>3 DEF ProposesOwn
      <3> HIDE DEF kept, r
      <3> QED
        BY <1>3, <3>1, <3>2
    <2> QED
      BY <2>2, <2>3
  <1> HIDE DEF kept
  <1>5. Like(kept, ready, kept.offered)
    BY <1>2, <1>4, ComputeLike
  <1> HIDE DEF ready
  <1>6. LineOK(ready)
    BY <1>5 DEF Like
  <1>7. Like(ready, value, ready.offered)
    <2>1. ready.mode \in Modes
      BY <1>6, LineFieldTypes
    <2>2. Like(ready, changeMode(l, ready, ready.mode), ready.offered)
      BY <1>2, <1>6, <2>1, ChangeModeLike
    <2>3. Like(ready, ready, ready.offered)
      BY <1>6 DEF Like
    <2> QED
      BY <2>2, <2>3
  <1> HIDE DEF value
  <1>8. /\ LineOK(value) /\ OffersOwn(value) /\ ProposesOwn(value)
        /\ value.partner = r.partner /\ ready.partner = r.partner
    BY <1>3, <1>4, <1>5, <1>7 DEF Like, OffersOwn, ProposesOwn
  <1>9. Asks(l, ready, new)
    BY <1>2, <1>6, AsksMode, AsksBoth DEF Purposes
  <1> HIDE DEF new
  <1>10. IsFiniteSet(cs) /\ \A d \in cs : CallOK(d, line)
    <2>1. IsFiniteSet(calls \ {c}) /\ \A d \in calls \ {c} : CallOK(d, line)
      BY FewerCalls
    <2>2. \A d \in new : CallOK(d, line)
      BY <1>8, <1>9 DEF Asks, CallOK
    <2>3. IsFiniteSet(cs)
      BY <1>9, <2>1, FS_Union DEF Asks
    <2> QED
      BY <2>1, <2>2, <2>3
  <1>11. \A k \in Lines \ {l} : Pending(k, calls) => Pending(k, cs)
    BY DEF Pending, l
  <1> HIDE DEF cs
  <1>12. Good(states, cs)
    BY <1>2, <1>8, <1>10, <1>11, UpdatedGood
  <1> HIDE DEF states
  <1>13. Good(line', calls')
    BY <1>1, <1>12, FocusGood
  <1> QED
    BY <1>1, <1>13, Zenon DEF LinesInv, Around

LEMMA FailedGood ==
    ASSUME LinesInv, NEW c \in calls, FetchFailed(c)
    PROVE  LinesInv'
  <1> DEFINE lost(d) == IF d.call = "fetch" /\ d.line = c.line /\ d.purpose = c.purpose
                        THEN [d EXCEPT !.purpose = "lost"] ELSE d
             rest == calls \ {c}
             f    == [d \in rest |-> lost(d)]
  <1>1. /\ Trouble /\ c.call = "fetch" /\ calls' = {lost(d) : d \in rest}
        /\ UNCHANGED <<line, shown, valuenow, server>>
    BY Zenon DEF FetchFailed
  <1>2. IsFiniteSet(rest) /\ \A d \in rest : CallOK(d, line)
    BY FewerCalls
  <1>3. ASSUME NEW d \in rest
        PROVE  /\ CallOK(lost(d), line)
               /\ d.call = "partner" => lost(d) = d
    <2>1. CASE d.call = "fetch"
      <3>1. d \in Fetches
        BY <1>2, <2>1, CallKinds DEF CallOK
      <3>2. /\ [d EXCEPT !.purpose = "lost"] \in Fetches
            /\ [d EXCEPT !.purpose = "lost"].partner = d.partner
            /\ [d EXCEPT !.purpose = "lost"].line = d.line
            /\ [d EXCEPT !.purpose = "lost"].call = "fetch"
        BY <3>1 DEF Fetches, Purposes
      <3>3. CallOK([d EXCEPT !.purpose = "lost"], line)
        BY <1>2, <2>1, <3>2 DEF CallOK
      <3> QED
        BY <1>2, <2>1, <3>3
    <2>2. CASE d.call # "fetch"
      BY <1>2, <2>2
    <2> QED
      BY <2>1, <2>2
  <1>4. f \in Surjection(rest, calls')
    <2>1. \A d \in rest : f[d] = lost(d)
      OBVIOUS
    <2>2. f \in [rest -> calls']
      BY <1>1
    <2> HIDE DEF f, lost, rest
    <2> QED
      BY <1>1, <2>1, <2>2 DEF Surjection
  <1>5. IsFiniteSet(calls')
    BY <1>2, <1>4, FS_Surjection
  <1>6. \A d \in calls' : CallOK(d, line)
    BY <1>1, <1>3
  <1>7. ASSUME NEW k \in Lines, Pending(k, calls) PROVE Pending(k, calls')
    <2>1. PICK d \in calls : d.call = "partner" /\ d.line = k
      BY <1>7 DEF Pending
    <2>2. d \in rest
      BY <1>1, <2>1
    <2>3. d \in calls'
      BY <1>1, <1>3, <2>1, <2>2
    <2> QED
      BY <2>1, <2>3 DEF Pending
  <1>8. Good(line, calls')
    BY <1>5, <1>6, <1>7 DEF LinesInv, Good
  <1>9. Around'
    BY <1>1, TroubleCounts, Zenon DEF LinesInv, Around
  <1> QED
    BY <1>1, <1>8, <1>9 DEF LinesInv

(* The calls to reconcile: whatever ends or replaces them.                 *)
LEMMA PostsGood ==
    ASSUME LinesInv, NEW c \in calls,
           \/ process_bank_statement_line(c) \/ ValidateAnswered(c) \/ ValidateFailed(c)
    PROVE  LinesInv'
  <1>1. c.call = "process" /\ c \in Posts /\ c.line \in Lines
    BY CallKinds, CallLine DEF LinesInv, Good, CallOK, process_bank_statement_line,
       ValidateAnswered, ValidateFailed
  <1>2. IsFiniteSet(calls \ {c}) /\ \A d \in calls \ {c} : CallOK(d, line)
    BY FewerCalls
  <1>3. ASSUME NEW more, IsFiniteSet(more), \A d \in more : CallOK(d, line)
        PROVE  Good(line, (calls \ {c}) \cup more)
    <2>1. IsFiniteSet((calls \ {c}) \cup more)
      BY <1>2, <1>3, FS_Union
    <2>2. \A k \in Lines : Pending(k, calls) => Pending(k, (calls \ {c}) \cup more)
      BY <1>1 DEF Pending
    <2> QED
      BY <1>2, <1>3, <2>1, <2>2 DEF LinesInv, Good
  <1>4. CASE process_bank_statement_line(c)
    <2> DEFINE d == [c EXCEPT !.done = TRUE]
    <2>1. /\ server' = [server EXCEPT !.settled = @ \cup {c.line}, !.entry[c.line] = c.props]
          /\ calls' = (calls \ {c}) \cup {d}
          /\ UNCHANGED <<line, shown, valuenow, handlers, troubles>>
      BY <1>4, Zenon DEF process_bank_statement_line
    <2>2. d \in Posts /\ d.call = "process" /\ c.props \in SUBSET MoveLine
      BY <1>1 DEF Posts
    <2> HIDE DEF d
    <2>3. CallOK(d, line) /\ IsFiniteSet({d})
      BY <2>2, FS_Singleton DEF CallOK
    <2>4. Good(line, calls')
      BY <1>3, <2>1, <2>3
    <2>5. Around'
      BY <1>1, <2>1, <2>2 DEF LinesInv, Around
    <2> QED
      BY <2>1, <2>4, <2>5 DEF LinesInv
  <1>5. CASE ValidateAnswered(c)
    <2> DEFINE later == {k \in Lines : k >= c.line /\ ~line[k].reconciled}
               next  == Min(later)
               more  == IF later = {} THEN {} ELSE FetchBoth(next, line[next], "first")
    <2>1. /\ valuenow' = valuenow + 1 /\ shown' = shown \ {c.line}
          /\ calls' = (calls \ {c}) \cup more
          /\ UNCHANGED <<line, server, handlers, troubles>>
      BY <1>5, Zenon DEF ValidateAnswered
    <2>2. IsFiniteSet(more) /\ \A d \in more : CallOK(d, line)
      <3>1. CASE later = {}
        BY <3>1, FS_EmptySet
      <3>2. CASE later # {}
        <4>1. later \subseteq Nat /\ later \subseteq Lines
          BY DEF Lines
        <4>2. next \in Lines
          BY <3>2, <4>1, MinIsIn
        <4> HIDE DEF later, next
        <4>3. Asks(next, line[next], more)
          BY <3>2, <4>2, OwnGood, AsksBoth DEF Purposes
        <4> QED
          BY <4>3 DEF Asks, CallOK
      <3> QED
        BY <3>1, <3>2
    <2> HIDE DEF more
    <2>3. Good(line, calls')
      BY <1>3, <2>1, <2>2
    <2>4. Around'
      BY <2>1 DEF LinesInv, Around
    <2> QED
      BY <2>1, <2>3, <2>4 DEF LinesInv
  <1>6. CASE ValidateFailed(c)
    <2>1. /\ Trouble /\ calls' = calls \ {c} /\ UNCHANGED <<line, shown, valuenow, server>>
      BY <1>6, Zenon DEF ValidateFailed
    <2>2. calls' = (calls \ {c}) \cup {}
      BY <2>1
    <2>3. Good(line, calls')
      BY <1>3, <2>2, FS_EmptySet
    <2>4. Around'
      BY <2>1, TroubleCounts, Zenon DEF LinesInv, Around
    <2> QED
      BY <2>1, <2>3, <2>4 DEF LinesInv
  <1> QED
    BY <1>4, <1>5, <1>6

-----------------------------------------------------------------------------
(* The invariant, and what follows from it *)

LEMMA InitGood == Init => LinesInv
  <1> SUFFICES ASSUME Init PROVE LinesInv
    OBVIOUS
  <1> DEFINE first(l) == [mode |-> "inactive", partner |-> StPartner[l], offered |-> {},
                          spare |-> {}, props |-> {}, draft |-> {}, writeoff |-> {},
                          balance |-> Amount[l], filter |-> [list \in MatchMode |-> ""],
                          reconciled |-> FALSE, need_update |-> FALSE]
  <1>1. /\ line = [l \in Lines |-> first(l)] /\ calls = FetchBoth(1, line[1], "first")
        /\ shown = Lines /\ valuenow = 0 /\ handlers = 0 /\ troubles = 0
        /\ server = [settled |-> {}, entry |-> [l \in Lines |-> {}], others |-> {}]
    BY DEF Init
  <1>2. ASSUME NEW l \in Lines
        PROVE  LineOK(first(l)) /\ first(l).offered = {} /\ first(l).props = {}
    <2>1. StPartner[l] \in Partner \cup {NoPartner} /\ Amount[l] \in Int /\ "" \in Filters
      BY ConstantsAssumption
    <2> QED
      BY <2>1 DEF LineOK, LineStates, OneAmount, Modes
  <1> HIDE DEF first
  <1>3. ASSUME NEW l \in Lines
        PROVE  LineOK(line[l]) /\ OffersOwn(line[l]) /\ ProposesOwn(line[l])
    BY <1>1, <1>2 DEF OffersOwn, ProposesOwn
  <1>4. 1 \in Lines
    BY Bounds DEF Lines
  <1>5. Asks(1, line[1], calls)
    BY <1>1, <1>3, <1>4, AsksBoth DEF Purposes
  <1>6. Good(line, calls)
    BY <1>1, <1>3, <1>5 DEF Good, Asks, CallOK
  <1>7. Around
    BY <1>1, Bounds DEF Around
  <1> QED
    BY <1>6, <1>7 DEF LinesInv

LEMMA NextGood == LinesInv /\ [Next]_vars => LinesInv'
  <1> SUFFICES ASSUME LinesInv, [Next]_vars PROVE LinesInv'
    OBVIOUS
  <1>1. CASE UNCHANGED vars
    BY <1>1 DEF vars, LinesInv, Around
  <1>2. ASSUME NEW l \in Lines,
               \/ Toggle(l) \/ changeOffset(l) \/ updateProposition(l) \/ validate(l)
               \/ \E mode \in Modes \ {"inactive"} : ChangeTab(l, mode)
               \/ \E filter \in Filters : ChangeFilter(l, filter)
               \/ \E m \in MoveLine : addProposition(l, m) \/ RemoveMoveLine(l, m)
               \/ \E amount \in ModelAmounts : quickCreateProposition(l, amount)
               \/ \E a \in line[l].spare : AddSpare(l, a)
               \/ \E a \in line[l].writeoff : RemoveWriteOff(l, a)
               \/ \E p \in Partner \cup {NoPartner} : changePartner(l, p)
        PROVE  LinesInv'
    BY <1>2, TabsGood, ChosenGood, WriteOffsGood, RemovalsGood, PartnerGood, ValidateGood, Zenon
  <1>3. ASSUME NEW c \in calls,
               \/ FetchAnswered(c) \/ FetchFailed(c) \/ PartnerRead(c)
               \/ process_bank_statement_line(c) \/ ValidateAnswered(c) \/ ValidateFailed(c)
        PROVE  LinesInv'
    BY <1>3, AnsweredGood, FailedGood, ReadGood, PostsGood, Zenon
  <1>4. ASSUME NEW m \in MoveLine, OthersReconcile(m) PROVE LinesInv'
    <2>1. /\ Trouble /\ server' = [server EXCEPT !.others = @ \cup {m}]
          /\ UNCHANGED <<line, shown, valuenow, calls>>
      BY <1>4, Zenon DEF OthersReconcile
    <2>2. handlers' \in 0..MaxHandlers /\ troubles' \in 0..MaxTroubles
      BY <2>1, TroubleCounts DEF LinesInv
    <2>3. Around'
      BY <2>1, <2>2 DEF LinesInv, Around
    <2> QED
      BY <2>1, <2>3 DEF LinesInv
  <1> QED
    BY <1>1, <1>2, <1>3, <1>4 DEF Next

(* For any statement, items, partners and searches every variable keeps    *)
(* its type: balances are numbers, and a line has at most one draft and    *)
(* one write-off, whatever is removed, chosen again or computed.           *)
THEOREM TypeCorrect == Spec => []TypeOK
  <1>1. ASSUME NEW amounts, OneAmount(amounts) PROVE Cardinality(amounts) <= 1
    <2>1. CASE amounts = {}
      BY <2>1, FS_EmptySet
    <2>2. CASE amounts # {}
      <3>1. PICK a : amounts = {a}
        BY <1>1, <2>2 DEF OneAmount
      <3> QED
        BY <3>1, FS_Singleton
    <2> QED
      BY <2>1, <2>2
  <1>2. LinesInv => TypeOK
    <2> SUFFICES ASSUME LinesInv PROVE TypeOK
      OBVIOUS
    <2>1. line \in [Lines -> LineStates]
      BY DEF LinesInv, Good, LineOK
    <2>2. \A l \in Lines : Cardinality(line[l].draft) <= 1 /\ Cardinality(line[l].writeoff) <= 1
      BY <1>1 DEF LinesInv, Good, LineOK
    <2>3. calls \subseteq Fetches \cup Reads \cup Posts
      BY DEF LinesInv, Good, CallOK
    <2> QED
      BY <2>1, <2>2, <2>3, Zenon DEF LinesInv, Around, TypeOK
  <1> QED
    BY <1>2, InitGood, NextGood, PTL DEF Spec

(* For any partners and items, and answers in any order, a line with a     *)
(* partner offers and proposes items of that partner alone once no reading *)
(* of a partner's accounts is under way: a fetch asks for the partner the  *)
(* line has, and the user cannot change it while the fetch is under way.   *)
THEOREM PartnersKept == Spec => []PartnerOfProps
  <1>1. LinesInv => PartnerOfProps
    BY DEF LinesInv, Good, PartnerOfProps, OffersOwn, ProposesOwn, Pending, Of
  <1> QED
    BY <1>1, InitGood, NextGood, PTL DEF Spec

-----------------------------------------------------------------------------
(* The progress *)

Posted(cs) == {c \in cs : c.call = "process"}

(* The inductive invariant: a line has one call to reconcile at a time,    *)
(* and stays on the screen until that call is answered; the answer comes   *)
(* after the entry.                                                        *)
ProgressInv ==
    /\ Progress
    /\ \A c \in Posted(calls) : c.line \in shown /\ (c.done => c.line \in server.settled)
    /\ \A c, d \in Posted(calls) : c.line = d.line => c = d

LEMMA SamePosts ==
    ASSUME ProgressInv, Posted(calls') \subseteq Posted(calls),
           UNCHANGED <<shown, valuenow>>, server.settled \subseteq server'.settled
    PROVE  ProgressInv'
  <1>1. Progress'
    BY DEF ProgressInv, Progress
  <1> QED
    BY <1>1 DEF ProgressInv

LEMMA FetchesAlone ==
    ASSUME NEW l, NEW r
    PROVE  /\ \A list, one, purpose :
                  \A c \in performMoveLine(l, r, list, one, purpose) : c.call = "fetch"
           /\ \A purpose : \A c \in FetchBoth(l, r, purpose) : c.call = "fetch"
           /\ \A c \in FetchMode(l, r) : c.call = "fetch"
           /\ \A c \in Refill(l, r) : c.call = "fetch"
           /\ \A c \in Bubbled(l, r) : c.call = "fetch"
           /\ \A keep : \A c \in ReadAccounts(l, keep) : c.call = "partner"
  <1>1. ASSUME NEW list, NEW one, NEW purpose, NEW c \in performMoveLine(l, r, list, one, purpose)
        PROVE  c.call = "fetch"
    BY DEF performMoveLine
  <1>2. ASSUME NEW purpose, NEW c \in FetchBoth(l, r, purpose) PROVE c.call = "fetch"
    BY <1>1, Zenon DEF FetchBoth
  <1>3. ASSUME NEW c \in FetchMode(l, r) PROVE c.call = "fetch"
    BY <1>1, Zenon DEF FetchMode
  <1>4. ASSUME NEW c \in Refill(l, r) PROVE c.call = "fetch"
    <2>1. PICK list \in MatchMode : c \in performMoveLine(l, r, list, list = r.mode, "act")
      BY <1>4 DEF Refill
    <2> QED
      BY <2>1 DEF performMoveLine
  <1>5. ASSUME NEW c \in Bubbled(l, r) PROVE c.call = "fetch"
    BY <1>2, Zenon DEF Bubbled
  <1>6. ASSUME NEW keep, NEW c \in ReadAccounts(l, keep) PROVE c.call = "partner"
    BY DEF ReadAccounts
  <1> QED
    BY <1>1, <1>2, <1>3, <1>4, <1>5, <1>6, Zenon

(* A handler other than validate() reconciles nothing.                     *)
LEMMA HandlersPostNothing ==
    ASSUME NEW l,
           \/ Toggle(l) \/ changeOffset(l) \/ updateProposition(l)
           \/ \E mode \in Modes \ {"inactive"} : ChangeTab(l, mode)
           \/ \E filter \in Filters : ChangeFilter(l, filter)
           \/ \E m \in MoveLine : addProposition(l, m) \/ RemoveMoveLine(l, m)
           \/ \E amount \in ModelAmounts : quickCreateProposition(l, amount)
           \/ \E a \in line[l].spare : AddSpare(l, a)
           \/ \E a \in line[l].writeoff : RemoveWriteOff(l, a)
           \/ \E p \in Partner \cup {NoPartner} : changePartner(l, p)
    PROVE  Posted(calls') \subseteq Posted(calls) /\ UNCHANGED <<shown, valuenow, server>>
  <1> DEFINE Kept == Posted(calls') \subseteq Posted(calls) /\ UNCHANGED <<shown, valuenow, server>>
  <1>1. ASSUME NEW r, NEW new, \A c \in new : c.call \in {"fetch", "partner"}, Handle(l, r, new)
        PROVE  Kept
    <2>1. /\ calls' = calls \cup new \cup Bubbled(l, r)
          /\ UNCHANGED <<shown, valuenow, server>>
      BY <1>1, Zenon DEF Handle
    <2>2. \A c \in Bubbled(l, r) : c.call = "fetch"
      BY FetchesAlone, Zenon
    <2> QED
      BY <1>1, <2>1, <2>2 DEF Posted
  <1>2. ASSUME NEW r, Handle(l, r, {}) PROVE Kept
    BY <1>1, <1>2
  <1>3. ASSUME NEW r, NEW s, NEW list, NEW one, NEW purpose,
               Handle(l, r, performMoveLine(l, s, list, one, purpose))
        PROVE  Kept
    <2>1. \A c \in performMoveLine(l, s, list, one, purpose) : c.call \in {"fetch", "partner"}
      BY FetchesAlone, Zenon
    <2> QED
      BY <1>1, <1>3, <2>1, Zenon
  <1>4. ASSUME NEW r, NEW s, Handle(l, r, FetchMode(l, s)) PROVE Kept
    <2>1. \A c \in FetchMode(l, s) : c.call \in {"fetch", "partner"}
      BY FetchesAlone, Zenon
    <2> QED
      BY <1>1, <1>4, <2>1, Zenon
  <1>5. ASSUME NEW r, NEW s, Handle(l, r, Refill(l, s)) PROVE Kept
    <2>1. \A c \in Refill(l, s) : c.call \in {"fetch", "partner"}
      BY FetchesAlone, Zenon
    <2> QED
      BY <1>1, <1>5, <2>1, Zenon
  <1>6. ASSUME NEW r, NEW s, NEW purpose, Handle(l, r, FetchBoth(l, s, purpose)) PROVE Kept
    <2>1. \A c \in FetchBoth(l, s, purpose) : c.call \in {"fetch", "partner"}
      BY FetchesAlone, Zenon
    <2> QED
      BY <1>1, <1>6, <2>1, Zenon
  <1>7. ASSUME NEW r, NEW keep, Handle(l, r, ReadAccounts(l, keep)) PROVE Kept
    <2>1. \A c \in ReadAccounts(l, keep) : c.call \in {"fetch", "partner"}
      BY FetchesAlone, Zenon
    <2> QED
      BY <1>1, <1>7, <2>1, Zenon
  <1> HIDE DEF Kept
  <1>8. ASSUME NEW r, NEW mode, Removed(l, r, mode) PROVE Kept
    BY <1>4, <1>6, <1>8, Zenon DEF Removed
  <1>9. ASSUME Toggle(l) PROVE Kept
    BY <1>2, <1>9, Zenon DEF Toggle
  <1>20. ASSUME updateProposition(l) PROVE Kept
    BY <1>2, <1>20, Zenon DEF updateProposition
  <1>10. ASSUME changeOffset(l) PROVE Kept
    <2>1. Handle(l, line[l], performMoveLine(l, line[l], line[l].mode, FALSE, "act"))
      BY <1>10, Zenon DEF changeOffset
    <2> QED
      BY <1>3, <2>1, Zenon
  <1>11. ASSUME NEW mode, ChangeTab(l, mode) PROVE Kept
    BY <1>4, <1>11, Zenon DEF ChangeTab
  <1>12. ASSUME NEW filter, ChangeFilter(l, filter) PROVE Kept
    BY <1>3, <1>12, Zenon DEF ChangeFilter
  <1>13. ASSUME NEW m, addProposition(l, m) PROVE Kept
    BY <1>5, <1>7, <1>13, Zenon DEF addProposition
  <1>14. ASSUME NEW m, RemoveMoveLine(l, m) PROVE Kept
    BY <1>8, <1>14, Zenon DEF RemoveMoveLine
  <1>15. ASSUME NEW a, RemoveWriteOff(l, a) PROVE Kept
    BY <1>8, <1>15, Zenon DEF RemoveWriteOff
  <1>16. ASSUME NEW amount, quickCreateProposition(l, amount) PROVE Kept
    BY <1>2, <1>16, Zenon DEF quickCreateProposition
  <1>17. ASSUME NEW a, AddSpare(l, a) PROVE Kept
    BY <1>5, <1>17, Zenon DEF AddSpare
  <1>18. ASSUME NEW p, changePartner(l, p) PROVE Kept
    BY <1>6, <1>7, <1>18, Zenon DEF changePartner
  <1>19. Kept
    BY <1>9, <1>10, <1>11, <1>12, <1>13, <1>14, <1>15, <1>16, <1>17, <1>18, <1>20, Zenon
  <1> QED
    BY <1>19 DEF Kept

LEMMA ValidatePosts ==
    ASSUME MaxPresses = 1, LinesInv, ProgressInv, NEW l \in Lines, validate(l)
    PROVE  ProgressInv'
  <1>1. PICK post :
          /\ post.call = "process" /\ post.line = l /\ post.done = FALSE
          /\ calls' = calls \cup Bubbled(l, line[l]) \cup {post}
          /\ l \in shown /\ Cardinality(Of("process", l)) + 1 <= MaxPresses
          /\ UNCHANGED <<shown, valuenow, server>>
    <2> DEFINE r       == line[l]
               empty   == r.props = {} /\ r.writeoff = {}
               written == IF empty /\ r.balance # 0 THEN [r EXCEPT !.writeoff = {r.balance}] ELSE r
               sent    == computeLine(l, written)
               open    == IF empty THEN sent.balance ELSE r.balance
               nth     == Cardinality(Of("process", l)) + 1
               post    == [call |-> "process", line |-> l, nth |-> nth, props |-> sent.props,
                           new |-> AmountOf(sent.writeoff) + open, done |-> FALSE]
    <2>1. /\ l \in shown /\ nth <= MaxPresses
          /\ calls' = calls \cup Bubbled(l, r) \cup {post}
          /\ UNCHANGED <<shown, valuenow, server>>
      BY Zenon DEF validate
    <2>2. post.call = "process" /\ post.line = l /\ post.done = FALSE
      OBVIOUS
    <2> HIDE DEF post
    <2> QED
      BY <2>1, <2>2
  <1>2. Of("process", l) = {}
    <2>1. IsFiniteSet(Of("process", l))
      BY FS_Subset DEF LinesInv, Good, Of
    <2>2. Cardinality(Of("process", l)) \in Nat
      BY <2>1, FS_CardinalityType
    <2>3. Cardinality(Of("process", l)) = 0
      BY <1>1, <2>2
    <2> QED
      BY <2>1, <2>3, FS_EmptySet
  <1>3. \A c \in Bubbled(l, line[l]) : c.call = "fetch"
    BY FetchesAlone, Zenon
  <1>4. Posted(calls') = Posted(calls) \cup {post}
    BY <1>1, <1>3 DEF Posted
  <1>5. \A c \in Posted(calls) : c.line # l
    BY <1>2 DEF Posted, Of
  <1>6. Progress'
    BY <1>1 DEF ProgressInv, Progress
  <1>7. \A c \in Posted(calls') : c.line \in shown' /\ (c.done => c.line \in server'.settled)
    BY <1>1, <1>4 DEF ProgressInv
  <1>8. \A c, d \in Posted(calls') : c.line = d.line => c = d
    BY <1>1, <1>4, <1>5 DEF ProgressInv
  <1> QED
    BY <1>6, <1>7, <1>8 DEF ProgressInv

LEMMA AnswersProgress ==
    ASSUME LinesInv, ProgressInv, NEW c \in calls, ValidateAnswered(c)
    PROVE  ProgressInv'
  <1>1. PICK more :
          /\ c.call = "process" /\ c.done
          /\ valuenow' = valuenow + 1 /\ shown' = shown \ {c.line}
          /\ calls' = (calls \ {c}) \cup more /\ \A d \in more : d.call = "fetch"
          /\ UNCHANGED server
    <2> DEFINE later == {k \in Lines : k >= c.line /\ ~line[k].reconciled}
               more  == IF later = {} THEN {}
                        ELSE FetchBoth(Min(later), line[Min(later)], "first")
    <2>1. \A d \in more : d.call = "fetch"
      BY FetchesAlone, Zenon
    <2>2. /\ c.call = "process" /\ c.done
          /\ valuenow' = valuenow + 1 /\ shown' = shown \ {c.line}
          /\ calls' = (calls \ {c}) \cup more
          /\ UNCHANGED server
      BY Zenon DEF ValidateAnswered
    <2> HIDE DEF more
    <2> QED
      BY <2>1, <2>2
  <1>2. c \in Posted(calls) /\ Posted(calls') = Posted(calls) \ {c}
    BY <1>1 DEF Posted
  <1>3. c.line \in shown /\ c.line \in server.settled /\ shown \subseteq Lines
    BY <1>1, <1>2 DEF ProgressInv, LinesInv, Around
  <1>4. Lines \ shown' = (Lines \ shown) \cup {c.line} /\ c.line \notin Lines \ shown
    BY <1>1, <1>3
  <1>5. IsFiniteSet(Lines \ shown)
    <2>1. IsFiniteSet(Lines)
      BY Bounds, FS_Interval DEF Lines
    <2> QED
      BY <2>1, FS_Difference
  <1>6. Cardinality(Lines \ shown') = Cardinality(Lines \ shown) + 1
    BY <1>4, <1>5, FS_AddElement
  <1>7. Progress'
    BY <1>1, <1>3, <1>4, <1>6 DEF ProgressInv, Progress
  <1>8. \A d \in Posted(calls') : d.line # c.line
    BY <1>2 DEF ProgressInv
  <1>9. \A d \in Posted(calls') : d.line \in shown' /\ (d.done => d.line \in server'.settled)
    BY <1>1, <1>2, <1>8 DEF ProgressInv
  <1>10. \A d, e \in Posted(calls') : d.line = e.line => d = e
    BY <1>2 DEF ProgressInv
  <1> QED
    BY <1>7, <1>9, <1>10 DEF ProgressInv

LEMMA ServerProgress ==
    ASSUME LinesInv, ProgressInv, NEW c \in calls, process_bank_statement_line(c)
    PROVE  ProgressInv'
  <1> DEFINE d == [c EXCEPT !.done = TRUE]
  <1>1. /\ c.call = "process" /\ UNCHANGED <<shown, valuenow>>
        /\ server' = [server EXCEPT !.settled = @ \cup {c.line}, !.entry[c.line] = c.props]
        /\ calls' = (calls \ {c}) \cup {d}
    BY Zenon DEF process_bank_statement_line
  <1>2. c \in Posts
    BY <1>1, CallKinds DEF LinesInv, Good, CallOK
  <1>3. d.call = "process" /\ d.line = c.line
    BY <1>1, <1>2 DEF Posts
  <1> HIDE DEF d
  <1>4. server'.settled = server.settled \cup {c.line}
    BY <1>1 DEF LinesInv, Around
  <1>5. c \in Posted(calls) /\ Posted(calls') = (Posted(calls) \ {c}) \cup {d}
    BY <1>1, <1>3 DEF Posted
  <1>6. Progress'
    BY <1>1, <1>4 DEF ProgressInv, Progress
  <1>7. \A e \in Posted(calls') : e.line \in shown' /\ (e.done => e.line \in server'.settled)
    BY <1>1, <1>3, <1>4, <1>5 DEF ProgressInv
  <1>8. \A e \in Posted(calls) \ {c} : e.line # c.line
    BY <1>5 DEF ProgressInv
  <1>9. \A e, g \in Posted(calls') : e.line = g.line => e = g
    BY <1>3, <1>5, <1>8 DEF ProgressInv
  <1> QED
    BY <1>6, <1>7, <1>9 DEF ProgressInv

(* The other calls leave the progress and the calls to reconcile alone.    *)
LEMMA OthersProgress ==
    ASSUME LinesInv, ProgressInv, NEW c \in calls,
           FetchAnswered(c) \/ FetchFailed(c) \/ PartnerRead(c) \/ ValidateFailed(c)
    PROVE  ProgressInv'
  <1>1. UNCHANGED <<shown, valuenow, server>>
    BY Zenon DEF FetchAnswered, FetchFailed, PartnerRead, ValidateFailed
  <1>2. CASE FetchAnswered(c) \/ ValidateFailed(c)
    <2>1. calls' = calls \ {c}
      BY <1>2, Zenon DEF FetchAnswered, ValidateFailed
    <2> QED
      BY <1>1, <2>1, SamePosts DEF Posted
  <1>3. CASE FetchFailed(c)
    <2> DEFINE lost(d) == IF d.call = "fetch" /\ d.line = c.line /\ d.purpose = c.purpose
                          THEN [d EXCEPT !.purpose = "lost"] ELSE d
    <2>1. calls' = {lost(d) : d \in calls \ {c}}
      BY <1>3, Zenon DEF FetchFailed
    <2>2. ASSUME NEW d \in calls, lost(d).call = "process" PROVE lost(d) = d
      <3>1. CASE d.call = "fetch"
        <4>1. d \in Fetches
          BY <3>1, CallKinds DEF LinesInv, Good, CallOK
        <4>2. [d EXCEPT !.purpose = "lost"].call = "fetch"
          BY <4>1 DEF Fetches
        <4> QED
          BY <2>2, <3>1, <4>2
      <3>2. CASE d.call # "fetch"
        BY <3>2
      <3> QED
        BY <3>1, <3>2
    <2> HIDE DEF lost
    <2>3. Posted(calls') \subseteq Posted(calls)
      BY <2>1, <2>2 DEF Posted
    <2> QED
      BY <1>1, <2>3, SamePosts
  <1>4. CASE PartnerRead(c)
    <2>1. PICK l, r, keep, new : /\ calls' = (calls \ {c}) \cup new
                                 /\ new = IF keep THEN FetchMode(l, r) ELSE FetchBoth(l, r, "open")
      BY <1>4, Zenon DEF PartnerRead
    <2>2. \A d \in new : d.call = "fetch"
      BY <2>1, FetchesAlone, Zenon
    <2>3. Posted(calls') \subseteq Posted(calls)
      BY <2>1, <2>2 DEF Posted
    <2> QED
      BY <1>1, <2>3, SamePosts
  <1> QED
    BY <1>2, <1>3, <1>4

(* If the button is not pressed again while it works, the progress counts  *)
(* the lines that left the screen and each of them has its entry, for any  *)
(* number of lines, whatever the server refuses and whatever answer is     *)
(* lost.  (With a second press both calls are counted.)                    *)
THEOREM ProgressKept == ASSUME MaxPresses = 1 PROVE Spec => []Progress
  <1>1. Init => ProgressInv
    <2> SUFFICES ASSUME Init PROVE ProgressInv
      OBVIOUS
    <2>1. /\ shown = Lines /\ valuenow = 0 /\ server.settled = {}
          /\ calls = FetchBoth(1, line[1], "first")
      BY DEF Init
    <2>2. \A c \in calls : c.call = "fetch"
      BY <2>1, FetchesAlone, Zenon
    <2>3. Posted(calls) = {}
      BY <2>2 DEF Posted
    <2>4. Lines \ shown = {}
      BY <2>1
    <2>5. Progress
      BY <2>1, <2>4, FS_EmptySet DEF Progress
    <2> QED
      BY <2>3, <2>5 DEF ProgressInv
  <1>2. ASSUME LinesInv, ProgressInv, [Next]_vars PROVE ProgressInv'
    <2>1. CASE UNCHANGED vars
      BY <1>2, <2>1, SamePosts DEF vars
    <2>2. ASSUME NEW l \in Lines,
                 \/ Toggle(l) \/ changeOffset(l) \/ updateProposition(l)
                 \/ \E mode \in Modes \ {"inactive"} : ChangeTab(l, mode)
                 \/ \E filter \in Filters : ChangeFilter(l, filter)
                 \/ \E m \in MoveLine : addProposition(l, m) \/ RemoveMoveLine(l, m)
                 \/ \E amount \in ModelAmounts : quickCreateProposition(l, amount)
                 \/ \E a \in line[l].spare : AddSpare(l, a)
                 \/ \E a \in line[l].writeoff : RemoveWriteOff(l, a)
                 \/ \E p \in Partner \cup {NoPartner} : changePartner(l, p)
          PROVE  ProgressInv'
      <3>1. Posted(calls') \subseteq Posted(calls) /\ UNCHANGED <<shown, valuenow, server>>
        BY <2>2, HandlersPostNothing, Zenon
      <3> QED
        BY <1>2, <3>1, SamePosts
    <2>3. ASSUME NEW l \in Lines, validate(l) PROVE ProgressInv'
      BY <1>2, <2>3, ValidatePosts
    <2>4. ASSUME NEW c \in calls,
                 \/ FetchAnswered(c) \/ FetchFailed(c) \/ PartnerRead(c)
                 \/ process_bank_statement_line(c) \/ ValidateAnswered(c) \/ ValidateFailed(c)
          PROVE  ProgressInv'
      BY <1>2, <2>4, OthersProgress, ServerProgress, AnswersProgress, Zenon
    <2>5. ASSUME NEW m \in MoveLine, OthersReconcile(m) PROVE ProgressInv'
      <3>1. server'.settled = server.settled /\ UNCHANGED <<shown, valuenow, calls>>
        BY <1>2, <2>5 DEF OthersReconcile, LinesInv, Around
      <3> QED
        BY <1>2, <3>1, SamePosts
    <2> QED
      BY <1>2, <2>1, <2>2, <2>3, <2>4, <2>5, Zenon DEF Next
  <1>3. ProgressInv => Progress
    BY DEF ProgressInv
  <1>4. LinesInv /\ ProgressInv /\ [Next]_vars => ProgressInv'
    BY <1>2
  <1> QED
    BY <1>1, <1>3, <1>4, InitGood, NextGood, PTL DEF Spec

=============================================================================
