------------------------- MODULE CalendarSeriesProofs -------------------------
(***************************************************************************)
(* What holds of the writes of CalendarSeries for every number of series   *)
(* and slots, whatever the rules, the dates and the slots they name.  Of   *)
(* requests that race: the types, the uid of an override, SEQUENCE after a *)
(* scoped write, the end of a series after an added date.  Of writes that  *)
(* do not: the end of every series, its overrides, SEQUENCE after any      *)
(* write, and that each does to the grid what its scope says.              *)
(***************************************************************************)
EXTENDS CalendarSeries, FiniteSetTheorems, WellFoundedInduction, TLAPS

-------------------------------------------------------------------------------
(* Naturals and their finite sets.                                         *)

LEMMA LeastNatural ==
  ASSUME NEW T \in SUBSET Nat, T # {}
  PROVE  \E x \in T : \A y \in T : x <= y
<1>1. PICK x \in T : \A y \in T : ~(<<y, x>> \in OpToRel(<, Nat))
  BY NatLessThanWellFounded, WFMin
<1>2. \A y \in T : ~(y < x)
  BY <1>1 DEF OpToRel
<1>3. \A y \in T : x <= y
  BY <1>2
<1> QED BY <1>3

LEMMA GreatestOfSome ==
  ASSUME NEW S \in SUBSET Nat, S # {}, NEW n \in Nat, \A x \in S : x <= n
  PROVE  Max(S) \in S /\ \A x \in S : x <= Max(S)
<1> DEFINE T == {n - x : x \in S}
<1>1. T \in SUBSET Nat
  <2>1. \A x \in S : n - x \in Nat
    OBVIOUS
  <2> QED BY <2>1
<1>2. T # {}
  OBVIOUS
<1>3. PICK t \in T : \A y \in T : t <= y
  BY <1>1, <1>2, LeastNatural
<1>4. PICK g \in S : t = n - g
  BY <1>3
<1>5. \A x \in S : t <= n - x
  BY <1>3
<1>6. g \in Nat /\ \A x \in S : x \in Nat
  OBVIOUS
<1>7. \A x \in S : g >= x
  BY <1>4, <1>5, <1>6
<1> QED BY <1>4, <1>6, <1>7 DEF Max

-------------------------------------------------------------------------------
(* Rules and where they end.                                               *)

\* A rule of the parser: a COUNT is at least one.
GoodRule(rule) == rule \in Rule /\ (rule # Nothing /\ rule.kind = "count" => rule.at > 0)

LEMMA RulesAreGood == \A rule \in Rules : GoodRule(rule)
BY ConstantsAssumption DEF GoodRule, Rule

LEMMA RuleEndCovers ==
  ASSUME NEW first \in Slot, NEW rule, GoodRule(rule), rule # Nothing, rule.kind # "open"
  PROVE  /\ RuleEnd(first, rule) \in Nat
         /\ \A c \in RuleSlots(first, rule) : c <= RuleEnd(first, rule)
<1>1. Horizon \in Nat /\ first \in Nat /\ rule.at \in Nat /\ rule.kind \in {"until", "count"}
  BY ConstantsAssumption DEF Slot, GoodRule, Rule
<1>2. CASE rule.kind = "until"
  BY <1>1, <1>2 DEF RuleEnd, RuleSlots, Slot, Stride
<1>3. CASE rule.kind = "count"
  <2>1. rule.at > 0
    BY <1>3 DEF GoodRule
  <2>2. ASSUME NEW c \in RuleSlots(first, rule) PROVE c <= first + 2 * (rule.at - 1)
    <3>1. c \in Int /\ c >= first /\ (c - first) % 2 = 0 /\ (c - first) \div 2 < rule.at
      BY <1>1, <1>3, <2>2 DEF RuleSlots, Slot, Stride
    <3> QED BY <1>1, <3>1
  <2> QED BY <1>1, <1>3, <2>1, <2>2 DEF RuleEnd, Stride
<1> QED BY <1>1, <1>2, <1>3

\* series_end_at covers what the rule generates and the dates it was given.
LEMMA SeriesEndCovers ==
  ASSUME NEW first \in Slot, NEW rule, GoodRule(rule), NEW rdates \in SUBSET Slot
  PROVE  /\ SeriesEnd(first, rule, rdates) \in Nat
         /\ rule # Nothing =>
              \A c \in RuleSlots(first, rule) \union rdates : c <= SeriesEnd(first, rule, rdates)
<1>1. Horizon \in Nat /\ first \in Nat
  BY ConstantsAssumption DEF Slot
<1>2. CASE rule = Nothing \/ rule.kind = "open"
  <2>1. SeriesEnd(first, rule, rdates) = 4 * (Horizon + 1)
    BY <1>2 DEF SeriesEnd, Unbounded
  <2>2. 4 * (Horizon + 1) \in Nat /\ \A c \in Slot : c <= 4 * (Horizon + 1)
    BY <1>1 DEF Slot
  <2>3. rule # Nothing => RuleSlots(first, rule) \union rdates \subseteq Slot
    BY DEF RuleSlots
  <2>4. rule # Nothing => \A c \in RuleSlots(first, rule) \union rdates : c <= 4 * (Horizon + 1)
    BY <2>2, <2>3, Zenon
  <2> QED BY <2>1, <2>2, <2>4, Zenon
<1>3. CASE rule # Nothing /\ rule.kind # "open"
  <2> DEFINE e == RuleEnd(first, rule)
             S == {e} \union rdates
  <2>1. e \in Nat /\ \A c \in RuleSlots(first, rule) : c <= e
    BY <1>3, RuleEndCovers
  <2>2. SeriesEnd(first, rule, rdates) = Max(S)
    BY <1>3 DEF SeriesEnd
  <2> HIDE DEF e
  <2>3. \A c \in S : c \in Nat /\ c <= e + Horizon
    BY <1>1, <2>1 DEF Slot
  <2>4. S \in SUBSET Nat /\ S # {} /\ e + Horizon \in Nat
    BY <1>1, <2>1, <2>3
  <2> HIDE DEF S
  <2>5. Max(S) \in S /\ \A c \in S : c <= Max(S)
    BY <2>3, <2>4, GreatestOfSome
  <2>6. e <= Max(S) /\ \A c \in rdates : c <= Max(S)
    BY <2>5 DEF S
  <2>7. Max(S) \in Nat
    BY <2>4, <2>5
  <2>8. \A c \in RuleSlots(first, rule) : c \in Nat
    BY <1>1 DEF RuleSlots, Slot
  <2>9. \A c \in RuleSlots(first, rule) : c <= Max(S)
    BY <2>1, <2>6, <2>7, <2>8
  <2> QED BY <2>2, <2>6, <2>7, <2>9
<1> QED BY <1>2, <1>3

LEMMA DatesAreSlots ==
  ASSUME NEW ds \in SUBSET Date, NEW kind
  PROVE  OfKind(kind, ds) \in SUBSET Slot
BY DEF OfKind, Date

\* How many occurrences lie before a cut: enough for each of them to be counted.
LEMMA BeforeIsNatural ==
  ASSUME NEW m, NEW c
  PROVE  /\ Before(m, c) \in Nat
         /\ Before(m, c) # 0 <=> \E s \in RuleSlots(m.first, m.rule) : s < c
<1> DEFINE S == {s \in RuleSlots(m.first, m.rule) : s < c}
<1>1. Horizon \in Int /\ 0 \in Int
  BY ConstantsAssumption
<1>2. IsFiniteSet(0 .. Horizon)
  BY <1>1, FS_Interval
<1>3. CASE m.rule # Nothing
  <2>1. S \in SUBSET (0 .. Horizon)
    BY <1>3 DEF RuleSlots, Slot
  <2>2. IsFiniteSet(S)
    BY <1>2, <2>1, FS_Subset
  <2> QED BY <2>2, FS_CardinalityType, FS_EmptySet DEF Before
<1>4. CASE m.rule = Nothing
  <2>1. S \in SUBSET {m.first}
    BY <1>4 DEF RuleSlots
  <2>2. IsFiniteSet(S)
    BY <2>1, FS_Singleton, FS_Subset
  <2> QED BY <2>2, FS_CardinalityType, FS_EmptySet DEF Before
<1> QED BY <1>3, <1>4

-------------------------------------------------------------------------------
(* OverridesCarryTheirUid holds of every number of series and of racing      *)
(* requests, whatever the rules, the dates and the slots they name.          *)

\* What the rows and the requests look like, and that no request names a
\* series that does not exist: rows of masters are never removed.
IsRow(m) == DOMAIN m = {"state", "first", "rule", "end", "seq"}

MastersShaped ==
  /\ DOMAIN masters = Sid
  /\ \A s \in Sid : IsRow(masters[s])

OverridesShaped ==
  \A o \in overrides :
    /\ DOMAIN o = {"parent", "uid", "slot", "live"}
    /\ o.parent \in Sid

RequestsShaped ==
  /\ DOMAIN req = Actor
  /\ \A a \in Actor : req[a] # Nothing =>
       /\ DOMAIN req[a] = {"op", "sid", "slot", "first", "rule", "target", "read", "dates"}
       /\ req[a].sid \in Sid /\ masters[req[a].sid].state # "none"

UidInv == MastersShaped /\ OverridesShaped /\ RequestsShaped /\ OverridesCarryTheirUid

\* No master is ever removed.
MastersStay == \A s \in Sid : masters[s].state # "none" => masters'[s].state # "none"

\* What a split at r makes of an override.
Handed(o, r, new) ==
  IF o.parent = r.sid /\ o.slot >= r.slot
  THEN [o EXCEPT !.parent = new, !.uid = new] ELSE o

\* What deleting its series at r makes of an override.
Ended(o, r) ==
  IF r.target.rule # Nothing /\ o.parent = r.sid THEN [o EXCEPT !.live = FALSE] ELSE o

LEMMA RequestsKept ==
  ASSUME RequestsShaped, MastersStay, NEW a \in Actor,
         req' = req \/ req' = [req EXCEPT ![a] = Nothing]
  PROVE  RequestsShaped'
BY DEF RequestsShaped, MastersStay

\* A write to the row of one master, whatever it sets, leaves a row there.
LEMMA OneMasterWritten ==
  ASSUME MastersShaped, NEW s \in Sid, NEW m, IsRow(m), m.state # "none",
         masters' = [masters EXCEPT ![s] = m]
  PROVE  MastersShaped' /\ MastersStay
BY DEF MastersShaped, MastersStay, IsRow

LEMMA BumpedIsRow ==
  ASSUME NEW m, IsRow(m)
  PROVE  IsRow(Bumped(m)) /\ Bumped(m).state = m.state
BY DEF IsRow, Bumped

LEMMA SomeOverridesRemoved ==
  ASSUME UidInv, MastersStay, overrides' \subseteq overrides
  PROVE  OverridesShaped' /\ OverridesCarryTheirUid'
BY DEF UidInv, OverridesShaped, OverridesCarryTheirUid, MastersStay

LEMMA UidStep == UidInv /\ [Next]_vars => UidInv'
<1> SUFFICES ASSUME UidInv, [Next]_vars PROVE UidInv'
  OBVIOUS
<1>0. MastersShaped /\ OverridesShaped /\ RequestsShaped /\ OverridesCarryTheirUid
  BY DEF UidInv
<1>1. CASE CreateEvent
  <2>1. PICK s \in Free, first \in Starts, rule \in Rules :
          masters' = [masters EXCEPT ![s] = NewMaster(first, rule, SeriesEnd(first, rule, {}))]
    BY <1>1 DEF CreateEvent
  <2>2. MastersShaped' /\ MastersStay
    <3>1. s \in Sid /\ IsRow(NewMaster(first, rule, SeriesEnd(first, rule, {})))
          /\ NewMaster(first, rule, SeriesEnd(first, rule, {})).state # "none"
      BY DEF NewMaster, Free, IsRow
    <3> QED BY <1>0, <2>1, <3>1, OneMasterWritten
  <2>3. RequestsShaped'
    BY <1>0, <1>1, <2>2 DEF CreateEvent, RequestsShaped, MastersStay
  <2> QED BY <1>1, <2>2, <2>3, SomeOverridesRemoved DEF CreateEvent, UidInv
<1>2. ASSUME NEW a \in Actor, Ask(a) \/ Refuse(a) \/ ReadDates(a) PROVE UidInv'
  <2>1. MastersStay /\ MastersShaped' /\ overrides' = overrides
    BY <1>0, <1>2 DEF Ask, Refuse, ReadDates, MastersStay, MastersShaped
  <2>2. RequestsShaped'
    <3>1. CASE Ask(a)
      <4>1. PICK s \in Sid : \E r \in InputsFor(s) :
              masters[s].state = "live" /\ req' = [req EXCEPT ![a] = r]
        BY <3>1 DEF Ask
      <4>2. PICK r \in InputsFor(s) :
              masters[s].state = "live" /\ req' = [req EXCEPT ![a] = r]
        BY <4>1
      <4>3. /\ DOMAIN r = {"op", "sid", "slot", "first", "rule", "target", "read", "dates"}
            /\ r.sid = s
        BY <4>2 DEF InputsFor, Asked
      <4>4. masters' = masters
        BY <3>1 DEF Ask
      <4> QED BY <1>0, <4>2, <4>3, <4>4 DEF RequestsShaped
    <3>2. CASE Refuse(a)
      BY <1>0, <2>1, <3>2, RequestsKept DEF Refuse
    <3>3. CASE ReadDates(a)
      <4>1. /\ req' = [req EXCEPT ![a] = [req[a] EXCEPT
                          !.read = TRUE, !.dates = DatesOf(req[a].sid, dates)]]
            /\ masters' = masters /\ req[a] # Nothing
        BY <3>3 DEF ReadDates
      <4> QED BY <1>0, <4>1 DEF RequestsShaped
    <3> QED BY <1>2, <3>1, <3>2, <3>3
  <2> QED BY <2>1, <2>2, SomeOverridesRemoved DEF UidInv
<1>3. ASSUME NEW a \in Actor,
             \/ UpdateWholeEvent(a) \/ UpdateOccurrence(a) \/ SoftDeleteEvent(a)
             \/ SkipOccurrence(a) \/ TruncateSeries(a) \/ SetRecurrenceDate(a)
      PROVE  UidInv'
  <2> DEFINE s == req[a].sid
  <2>1. req[a] # Nothing /\ req' = [req EXCEPT ![a] = Nothing] /\ s \in Sid
        /\ masters[s].state # "none"
    BY <1>0, <1>3
    DEF UpdateWholeEvent, UpdateOccurrence, SoftDeleteEvent, SkipOccurrence,
        TruncateSeries, SetRecurrenceDate, Committing, RequestsShaped
  <2>2. MastersShaped' /\ MastersStay
    <3>0. IsRow(masters[s])
      BY <1>0, <2>1 DEF MastersShaped
    <3>1. CASE UpdateOccurrence(a) \/ SkipOccurrence(a)
      <4>1. masters' = [masters EXCEPT ![s] = Bumped(masters[s])]
        BY <3>1 DEF UpdateOccurrence, SkipOccurrence
      <4> QED BY <1>0, <2>1, <3>0, <4>1, BumpedIsRow, OneMasterWritten
    <3>2. CASE SoftDeleteEvent(a)
      <4> DEFINE m == [masters[s] EXCEPT !.state = "deleted"]
      <4>1. IsRow(m) /\ m.state # "none"
        BY <2>1, <3>0 DEF IsRow
      <4>2. masters' = [masters EXCEPT ![s] = Bumped(m)]
        BY <3>2 DEF SoftDeleteEvent
      <4> HIDE DEF m, s
      <4> QED BY <1>0, <2>1, <3>0, <4>1, <4>2, BumpedIsRow, OneMasterWritten
    <3>3. CASE TruncateSeries(a)
      <4> DEFINE bounded == BoundedRule(req[a].target, req[a].slot)
                 kept == {c \in OfKind("rdate", req[a].dates) : c < req[a].slot}
                 end == SeriesEnd(req[a].target.first, bounded, kept)
                 m == [masters[s] EXCEPT !.rule = bounded, !.end = end]
      <4>1. masters' = [masters EXCEPT ![s] = Bumped(m)]
        BY <3>3 DEF TruncateSeries
      <4> HIDE DEF bounded, kept, end
      <4>2. IsRow(m) /\ m.state # "none"
        BY <2>1, <3>0 DEF IsRow
      <4> HIDE DEF m, s
      <4> QED BY <1>0, <2>1, <4>1, <4>2, BumpedIsRow, OneMasterWritten
    <3>4. CASE SetRecurrenceDate(a)
      <4> DEFINE rule == req[a].target.rule
                 end == SeriesEnd(req[a].target.first, rule, OfKind("rdate", DatesOf(s, dates')))
                 m == [masters[s] EXCEPT !.rule = rule, !.end = end]
      <4>1. masters' = [masters EXCEPT
                ![s] = IF req[a].op = "exdate" THEN Bumped(masters[s]) ELSE Bumped(m)]
        BY <3>4 DEF SetRecurrenceDate
      <4> HIDE DEF rule, end
      <4>2. IsRow(m) /\ m.state # "none"
        BY <2>1, <3>0 DEF IsRow
      <4> HIDE DEF m, s
      <4> QED BY <1>0, <2>1, <3>0, <4>1, <4>2, BumpedIsRow, OneMasterWritten
    <3>5. CASE UpdateWholeEvent(a)
      <4> DEFINE changed == req[a].rule # req[a].target.rule \/ req[a].first # req[a].target.first
                 dropped == changed /\ req[a].target.rule # Nothing
                 end == SeriesEnd(req[a].first, req[a].rule,
                                  IF dropped THEN {} ELSE OfKind("rdate", req[a].dates))
                 bumps == req[a].rule # masters[s].rule \/ req[a].first # masters[s].first
                 m == [masters[s] EXCEPT !.first = req[a].first, !.rule = req[a].rule, !.end = end]
      <4>1. masters' = [masters EXCEPT ![s] = IF bumps THEN Bumped(m) ELSE m]
        BY <3>5 DEF UpdateWholeEvent
      <4> HIDE DEF bumps, end
      <4>2. IsRow(m) /\ m.state # "none"
        BY <2>1, <3>0 DEF IsRow
      <4> HIDE DEF m, s
      <4> QED BY <1>0, <2>1, <4>1, <4>2, BumpedIsRow, OneMasterWritten
    <3> QED BY <1>3, <3>1, <3>2, <3>3, <3>4, <3>5
  <2>3. RequestsShaped'
    BY <1>0, <2>1, <2>2, RequestsKept
  <2>4. OverridesShaped' /\ OverridesCarryTheirUid'
    <3>1. CASE \/ UpdateWholeEvent(a) \/ SkipOccurrence(a) \/ TruncateSeries(a)
               \/ SetRecurrenceDate(a)
      BY <2>2, <3>1, SomeOverridesRemoved
      DEF UpdateWholeEvent, SkipOccurrence, TruncateSeries, SetRecurrenceDate
    <3>2. CASE SoftDeleteEvent(a)
      <4>1. overrides' = {Ended(o, req[a]) : o \in overrides}
        BY <3>2 DEF SoftDeleteEvent, Ended
      <4>2. \A o \in overrides :
              /\ DOMAIN Ended(o, req[a]) = {"parent", "uid", "slot", "live"}
              /\ Ended(o, req[a]).uid = o.uid /\ Ended(o, req[a]).parent = o.parent
              /\ Ended(o, req[a]).slot = o.slot
        BY <1>0 DEF OverridesShaped, Ended
      <4>3. OverridesShaped'
        BY <1>0, <4>1, <4>2 DEF OverridesShaped
      <4>4. OverridesCarryTheirUid'
        BY <1>0, <2>2, <4>1, <4>2 DEF OverridesShaped, OverridesCarryTheirUid, MastersStay
      <4> QED BY <4>3, <4>4
    <3>3. CASE UpdateOccurrence(a)
      <4> DEFINE slot == req[a].slot
                 found == {o \in overrides : o.uid = s /\ o.slot = slot}
                 row == [parent |-> s, uid |-> s, slot |-> slot, live |-> TRUE]
      <4>1. overrides' = IF found = {} THEN overrides \union {row}
              ELSE (overrides \ found) \union {[o EXCEPT !.live = TRUE] : o \in found}
        BY <3>3 DEF UpdateOccurrence
      <4> HIDE DEF slot, s
      <4>2. CASE found = {}
        <5>1. \A p \in overrides' : p \in overrides \/ p = row
          BY <4>1, <4>2
        <5>2. row.uid = s /\ row.parent = s /\ row.slot = slot
              /\ DOMAIN row = {"parent", "uid", "slot", "live"}
          OBVIOUS
        <5>3. \A o \in overrides : ~(o.uid = s /\ o.slot = slot)
          BY <4>2
        <5>4. s \in Sid /\ masters'[s].state # "none"
          BY <2>1, <2>2 DEF MastersStay, s
        <5> HIDE DEF row, found
        <5>5. OverridesShaped'
          BY <1>0, <5>1, <5>2, <5>4 DEF OverridesShaped
        <5>6. OverridesCarryTheirUid'
          BY <1>0, <2>2, <5>1, <5>2, <5>3, <5>4
          DEF OverridesShaped, OverridesCarryTheirUid, MastersStay
        <5> QED BY <5>5, <5>6
      <4>3. CASE found # {}
        <5>1. \A p \in overrides' :
                \/ p \in overrides /\ p \notin found
                \/ \E o \in found : p = [o EXCEPT !.live = TRUE]
          BY <4>1, <4>3
        <5>2. \A p \in overrides' : \E o \in overrides :
                /\ DOMAIN p = {"parent", "uid", "slot", "live"}
                /\ p.uid = o.uid /\ p.parent = o.parent /\ p.slot = o.slot
                /\ IF o.uid = s /\ o.slot = slot THEN p = [o EXCEPT !.live = TRUE] ELSE p = o
          BY <1>0, <5>1 DEF OverridesShaped
        <5> HIDE DEF row, found
        <5>3. OverridesShaped'
          BY <1>0, <5>2 DEF OverridesShaped
        <5>4. OverridesCarryTheirUid'
          <6>1. ASSUME NEW p \in overrides'
                PROVE  p.uid = p.parent /\ masters'[p.parent].state # "none"
            BY <1>0, <2>2, <5>2 DEF OverridesShaped, OverridesCarryTheirUid, MastersStay
          <6>2. ASSUME NEW p \in overrides', NEW q \in overrides', q.uid = p.uid, q.slot = p.slot
                PROVE  q = p
            <7>1. PICK o \in overrides :
                    /\ p.uid = o.uid /\ p.slot = o.slot
                    /\ IF o.uid = s /\ o.slot = slot THEN p = [o EXCEPT !.live = TRUE] ELSE p = o
              BY <5>2
            <7>2. PICK x \in overrides :
                    /\ q.uid = x.uid /\ q.slot = x.slot
                    /\ IF x.uid = s /\ x.slot = slot THEN q = [x EXCEPT !.live = TRUE] ELSE q = x
              BY <5>2
            <7>3. x = o
              BY <1>0, <6>2, <7>1, <7>2 DEF OverridesCarryTheirUid
            <7> QED BY <7>1, <7>2, <7>3
          <6> QED BY <6>1, <6>2 DEF OverridesCarryTheirUid
        <5> QED BY <5>3, <5>4
      <4> QED BY <4>2, <4>3
    <3> QED BY <1>3, <3>1, <3>2, <3>3
  <2> QED BY <2>2, <2>3, <2>4 DEF UidInv
<1>4. ASSUME NEW a \in Actor, SplitSeries(a) PROVE UidInv'
  <2> DEFINE r == req[a]
  <2>1. req[a] # Nothing /\ req' = [req EXCEPT ![a] = Nothing] /\ r.sid \in Sid
        /\ masters[r.sid].state # "none"
    <3>1. Committing(a, req[a])
      BY <1>4, ZenonT(30) DEF SplitSeries
    <3> QED BY <1>0, <3>1 DEF Committing, RequestsShaped
  <2> DEFINE bounded == BoundedRule(r.target, r.slot)
             rdates == OfKind("rdate", r.dates)
             kept == {c \in rdates : c < r.slot}
             end == SeriesEnd(r.target.first, bounded, kept)
             second == RemainderRule(r.target, r.rule, r.slot)
             secondEnd == SeriesEnd(r.first, second, rdates \ kept)
             old == [masters[r.sid] EXCEPT !.rule = bounded, !.end = end]
             added == NewMaster(r.first, second, secondEnd)
  <2>2. PICK new \in Free :
          /\ masters' = [masters EXCEPT ![r.sid] = Bumped(old), ![new] = added]
          /\ overrides' = {Handed(o, r, new) : o \in overrides}
    BY <1>4 DEF SplitSeries, Handed
  <2> HIDE DEF bounded, end, second, secondEnd
  <2>3. new \in Sid /\ new # r.sid /\ masters[new].state = "none"
    BY <2>1 DEF Free
  <2>4. MastersShaped' /\ MastersStay /\ masters'[new].state # "none"
    <3>1. IsRow(masters[r.sid])
      BY <1>0, <2>1 DEF MastersShaped
    <3>2. IsRow(old) /\ old.state # "none"
      BY <2>1, <3>1 DEF IsRow
    <3>3. IsRow(Bumped(old)) /\ Bumped(old).state # "none"
      BY <3>2, BumpedIsRow
    <3>4. IsRow(added) /\ added.state # "none"
      BY DEF NewMaster, IsRow
    <3> HIDE DEF old, added
    <3> QED BY <1>0, <2>1, <2>2, <2>3, <3>3, <3>4 DEF MastersShaped, MastersStay
  <2>6. RequestsShaped'
    BY <1>0, <2>1, <2>4, RequestsKept
  <2>7. OverridesShaped' /\ OverridesCarryTheirUid'
    <3>1. \A p \in overrides' : \E o \in overrides : p = Handed(o, r, new)
      BY <2>2
    <3>2. ASSUME NEW o \in overrides
          PROVE  LET p == Handed(o, r, new) IN
                 /\ DOMAIN p = {"parent", "uid", "slot", "live"}
                 /\ p.uid = p.parent /\ p.slot = o.slot /\ p.live = o.live
                 /\ p.parent \in {new, o.parent}
                 /\ o.parent \in Sid /\ masters[o.parent].state # "none"
                 /\ p.parent = new => o.parent = r.sid
      BY <1>0, <2>3 DEF OverridesShaped, OverridesCarryTheirUid, Handed
    <3>3. ASSUME NEW o \in overrides, NEW q \in overrides,
                 Handed(o, r, new).uid = Handed(q, r, new).uid, o.slot = q.slot
          PROVE  o = q
      <4>1. o.parent = q.parent
        BY <1>0, <2>3, <3>2, <3>3
        DEF OverridesCarryTheirUid, OverridesShaped, Handed
      <4> QED BY <1>0, <3>3, <4>1 DEF OverridesCarryTheirUid
    <3>4. OverridesShaped'
      BY <1>0, <2>3, <3>1, <3>2 DEF OverridesShaped
    <3>5. OverridesCarryTheirUid'
      <4>1. ASSUME NEW p \in overrides'
            PROVE  p.uid = p.parent /\ masters'[p.parent].state # "none"
        BY <2>4, <3>1, <3>2 DEF MastersStay
      <4>2. ASSUME NEW p \in overrides', NEW q \in overrides', q.uid = p.uid, q.slot = p.slot
            PROVE  q = p
        <5>1. PICK o \in overrides : p = Handed(o, r, new)
          BY <3>1
        <5>2. PICK x \in overrides : q = Handed(x, r, new)
          BY <3>1
        <5> QED BY <3>2, <3>3, <4>2, <5>1, <5>2
      <4> QED BY <4>1, <4>2 DEF OverridesCarryTheirUid
    <3> QED BY <3>4, <3>5
  <2> QED BY <2>4, <2>6, <2>7 DEF UidInv
<1>5. CASE UNCHANGED vars
  BY <1>5 DEF vars, UidInv, MastersShaped, OverridesShaped, RequestsShaped,
              OverridesCarryTheirUid
<1> QED
  BY <1>1, <1>2, <1>3, <1>4, <1>5 DEF Next

LEMMA UidStart == Init => UidInv
<1> SUFFICES ASSUME Init PROVE UidInv
  OBVIOUS
<1>1. MastersShaped
  BY DEF Init, MastersShaped, NewMaster, NoMaster, IsRow
<1>2. OverridesShaped /\ RequestsShaped /\ OverridesCarryTheirUid
  BY DEF Init, OverridesShaped, RequestsShaped, OverridesCarryTheirUid
<1> QED BY <1>1, <1>2 DEF UidInv

\* However the writes of any number of requests race, an override carries its
\* master's uid and is the only one of its occurrence: the unique key
\* (calendar, uid, recurrence id) that updateOccurrence's upsert relies on.
THEOREM OverridesKeepTheirUid == Spec => []OverridesCarryTheirUid
<1>1. UidInv => OverridesCarryTheirUid
  BY DEF UidInv
<1> QED BY <1>1, UidStart, UidStep, PTL DEF Spec
-------------------------------------------------------------------------------
(* The types of every table and request.                                   *)

GoodRequest(q) == q \in Requests /\ GoodRule(q.rule) /\ GoodRule(q.target.rule)

GoodRow(m) == m \in Master /\ GoodRule(m.rule)

TypesInv ==
  /\ DOMAIN masters = Sid /\ masters = [s \in Sid |-> masters[s]]
  /\ \A s \in Sid : GoodRow(masters[s])
  /\ overrides \subseteq Override /\ dates \subseteq Date
  /\ DOMAIN req = Actor /\ req = [a \in Actor |-> req[a]]
  /\ \A a \in Actor : req[a] # Nothing => GoodRequest(req[a])
  /\ asks \in 0 .. MaxAsks

LEMMA NewRowIsGood ==
  ASSUME NEW first \in Slot, NEW rule, GoodRule(rule), NEW end \in Nat
  PROVE  GoodRow(NewMaster(first, rule, end))
BY DEF GoodRow, GoodRule, NewMaster, Master

\* A row whose rule, start and end are written, or that is deleted or bumped.
LEMMA WrittenRowIsGood ==
  ASSUME NEW m, GoodRow(m), NEW first \in Slot, NEW rule, GoodRule(rule), NEW end \in Nat
  PROVE  /\ GoodRow([m EXCEPT !.rule = rule, !.end = end])
         /\ GoodRow([m EXCEPT !.first = first, !.rule = rule, !.end = end])
         /\ GoodRow([m EXCEPT !.state = "deleted"])
BY DEF GoodRow, GoodRule, Master

LEMMA BumpedRowIsGood ==
  ASSUME NEW m, GoodRow(m)
  PROVE  GoodRow(Bumped(m))
BY DEF GoodRow, GoodRule, Master, Bumped

\* What a user asks is a request about the series as it is.
LEMMA InputsAreGood ==
  ASSUME TypesInv, NEW s \in Sid, NEW r \in InputsFor(s)
  PROVE  /\ GoodRequest(r) /\ r.sid = s
         /\ r.target.first = masters[s].first /\ r.target.rule = masters[s].rule
         /\ ~r.read /\ r.dates = {}
<1>1. Horizon \in Nat /\ Starts \subseteq Slot /\ GoodRow(masters[s])
  BY ConstantsAssumption DEF TypesInv
<1>2. masters[s].first \in Slot /\ GoodRule(masters[s].rule)
  BY <1>1 DEF GoodRow, Master
<1>3. \E op \in {"all", "this", "split", "skip", "truncate", "delete", "exdate", "rdate"},
         c \in Slot, first \in Slot, rule \in Rules \union {masters[s].rule} :
         r = Asked(op, s, c, first, rule)
  <2>1. RuleSlots(masters[s].first, masters[s].rule) \subseteq Slot
    BY <1>2 DEF RuleSlots
  <2>2. CASE r \in {Asked(op, s, c, masters[s].first, masters[s].rule) :
                      op \in {"this", "skip", "truncate", "exdate", "rdate"},
                      c \in {c \in Slot : EarlyDates \/ c >= masters[s].first}}
    BY <1>2, <2>2
  <2>3. CASE r = Asked("delete", s, masters[s].first, masters[s].first, masters[s].rule)
    BY <1>2, <2>3
  <2>4. CASE r \in {Asked("all", s, masters[s].first, first, rule) :
                      first \in Starts, rule \in Rules}
    BY <1>1, <1>2, <2>4
  <2>5. CASE r \in {Asked("split", s, c, c, masters[s].rule) :
                      c \in RuleSlots(masters[s].first, masters[s].rule)}
    BY <2>1, <2>5
  <2>6. CASE r \in {Asked("split", s, c, first, rule) :
                      c \in {c \in Slot : EarlyDates \/ c >= masters[s].first},
                      first \in {first \in Starts : MovedSplits}, rule \in Rules}
    BY <1>1, <2>6
  <2> QED BY <2>2, <2>3, <2>4, <2>5, <2>6 DEF InputsFor
<1>4. PICK op \in {"all", "this", "split", "skip", "truncate", "delete", "exdate", "rdate"},
          c \in Slot, first \in Slot, rule \in Rules \union {masters[s].rule} :
          r = Asked(op, s, c, first, rule)
  BY <1>3
<1>5. GoodRule(rule)
  BY <1>2, RulesAreGood
<1>6. rule \in Rule /\ masters[s].rule \in Rule
  BY <1>2, <1>5 DEF GoodRule
<1>7. r \in Requests
  BY <1>2, <1>4, <1>6 DEF Asked, Requests, Scopes
<1> QED BY <1>2, <1>4, <1>5, <1>7 DEF Asked, GoodRequest

\* A cut with occurrences on both sides leaves a rule to each.
LEMMA CutRulesAreGood ==
  ASSUME NEW m, NEW c \in Slot, GoodRule(m.rule), m.rule # Nothing,
         Before(m, c) # 0, m.first \in Slot
  PROVE  /\ GoodRule(BoundedRule(m, c)) /\ BoundedRule(m, c) # Nothing
         /\ ~CutRefused(m, c) =>
              \A rule : GoodRule(rule) /\ rule # Nothing =>
                GoodRule(RemainderRule(m, rule, c)) /\ RemainderRule(m, rule, c) # Nothing
<1>1. Before(m, c) \in Nat /\ c > 0 /\ c \in Nat /\ Before(m, c) > 0
  <2>1. PICK s \in RuleSlots(m.first, m.rule) : s < c
    BY BeforeIsNatural
  <2>2. s \in Slot
    BY <2>1 DEF RuleSlots
  <2> QED BY <2>1, <2>2, BeforeIsNatural, ConstantsAssumption DEF Slot
<1>2. \A k \in {"count", "until"}, n \in Nat : n > 0 \/ k # "count" =>
        GoodRule([kind |-> k, at |-> n]) /\ [kind |-> k, at |-> n] # Nothing
  BY ConstantsAssumption DEF GoodRule, Rule
<1>3. GoodRule(BoundedRule(m, c)) /\ BoundedRule(m, c) # Nothing
  <2>1. c - 1 \in Nat
    BY <1>1
  <2> QED BY <1>1, <1>2, <2>1 DEF BoundedRule
<1>4. ASSUME NEW rule, GoodRule(rule), rule # Nothing, ~CutRefused(m, c)
      PROVE  GoodRule(RemainderRule(m, rule, c)) /\ RemainderRule(m, rule, c) # Nothing
  <2>1. CASE rule.kind = "count" /\ rule = m.rule
    <3>1. rule.at \in Nat /\ Before(m, c) < rule.at
      BY <1>1, <1>4, <2>1 DEF CutRefused, GoodRule, Rule
    <3>2. rule = [kind |-> "count", at |-> rule.at]
      BY <1>4, <2>1 DEF GoodRule, Rule
    <3>3. RemainderRule(m, rule, c) = [kind |-> "count", at |-> rule.at - Before(m, c)]
      BY <2>1, <3>2 DEF RemainderRule
    <3>4. rule.at - Before(m, c) \in Nat /\ rule.at - Before(m, c) > 0
      BY <1>1, <3>1
    <3> QED BY <1>2, <3>3, <3>4
  <2>2. CASE ~(rule.kind = "count" /\ rule = m.rule)
    BY <1>4, <2>2 DEF RemainderRule
  <2> QED BY <2>1, <2>2
<1> QED BY <1>3, <1>4

\* What a transaction that commits starts from, and what it leaves of the requests.
LEMMA Committed ==
  ASSUME TypesInv, NEW a \in Actor, Committing(a, req[a])
  PROVE  /\ req[a] # Nothing /\ GoodRequest(req[a]) /\ ~Refused(req[a])
         /\ req[a].sid \in Sid /\ req[a].slot \in Slot /\ req[a].first \in Slot
         /\ req[a].target.first \in Slot /\ req[a].dates \in SUBSET Date
         /\ GoodRule(req[a].rule) /\ GoodRule(req[a].target.rule)
         /\ NeedsDates(req[a]) => req[a].read
         /\ req'[a] = Nothing /\ \A b \in Actor : b # a => req'[b] = req[b]
         /\ DOMAIN req' = Actor /\ req' = [b \in Actor |-> req'[b]]
         /\ asks' = asks
<1>1. req[a] # Nothing /\ ~Refused(req[a]) /\ (NeedsDates(req[a]) => req[a].read)
      /\ req' = [req EXCEPT ![a] = Nothing] /\ asks' = asks
  BY DEF Committing
<1>2. GoodRequest(req[a])
  BY <1>1 DEF TypesInv
<1>3. /\ req'[a] = Nothing /\ \A b \in Actor : b # a => req'[b] = req[b]
      /\ DOMAIN req' = Actor /\ req' = [b \in Actor |-> req'[b]]
  BY <1>1 DEF TypesInv
<1> QED BY <1>1, <1>2, <1>3 DEF GoodRequest, Requests

\* What a commit leaves of the requests is typed; so is one row written.
LEMMA RequestsStayGood ==
  ASSUME TypesInv, NEW a \in Actor, Committing(a, req[a]),
         NEW s \in Sid, NEW m, GoodRow(m), masters' = [masters EXCEPT ![s] = m],
         overrides' \subseteq Override, dates' \subseteq Date
  PROVE  TypesInv'
BY Committed DEF TypesInv

LEMMA SomeDatesAreSlots ==
  ASSUME NEW ds \in SUBSET Date, NEW c
  PROVE  /\ OfKind("rdate", ds) \in SUBSET Slot
         /\ {x \in OfKind("rdate", ds) : x < c} \in SUBSET Slot
         /\ OfKind("rdate", ds) \ {x \in OfKind("rdate", ds) : x < c} \in SUBSET Slot
BY DatesAreSlots

LEMMA TypesWhole ==
  ASSUME TypesInv, NEW a \in Actor, UpdateWholeEvent(a) PROVE TypesInv'
<1> DEFINE r == req[a]
           changed == r.rule # r.target.rule \/ r.first # r.target.first
           dropped == changed /\ r.target.rule # Nothing
           end == SeriesEnd(r.first, r.rule, IF dropped THEN {} ELSE OfKind("rdate", r.dates))
           bumps == r.rule # masters[r.sid].rule \/ r.first # masters[r.sid].first
           m == [masters[r.sid] EXCEPT !.first = r.first, !.rule = r.rule, !.end = end]
<1>1. Committing(a, req[a])
      /\ masters' = [masters EXCEPT ![r.sid] = IF bumps THEN Bumped(m) ELSE m]
      /\ overrides' \subseteq overrides /\ dates' \subseteq dates
  BY DEF UpdateWholeEvent
<1>2. GoodRow(masters[r.sid]) /\ r.first \in Slot /\ GoodRule(r.rule) /\ r.sid \in Sid
  BY <1>1, Committed DEF TypesInv
<1>3. end \in Nat
  <2>1. OfKind("rdate", r.dates) \in SUBSET Slot /\ {} \in SUBSET Slot
    BY <1>1, Committed, DatesAreSlots, SMTT(30)
  <2> QED BY <1>2, <2>1, SeriesEndCovers
<1> HIDE DEF end, bumps
<1>4. GoodRow(m)
  BY <1>2, <1>3, WrittenRowIsGood
<1> HIDE DEF m
<1>5. GoodRow(IF bumps THEN Bumped(m) ELSE m)
  BY <1>4, BumpedRowIsGood
<1>6. overrides' \subseteq Override /\ dates' \subseteq Date
  BY <1>1 DEF TypesInv
<1> QED BY <1>1, <1>2, <1>5, <1>6, RequestsStayGood

LEMMA TypesThis ==
  ASSUME TypesInv, NEW a \in Actor, UpdateOccurrence(a) PROVE TypesInv'
<1> DEFINE r == req[a]
           found == {o \in overrides : o.uid = r.sid /\ o.slot = r.slot}
           row == [parent |-> r.sid, uid |-> r.sid, slot |-> r.slot, live |-> TRUE]
<1>1. /\ Committing(a, req[a]) /\ masters' = [masters EXCEPT ![r.sid] = Bumped(masters[r.sid])]
      /\ overrides' = IF found = {} THEN overrides \union {row}
                      ELSE (overrides \ found) \union {[o EXCEPT !.live = TRUE] : o \in found}
      /\ dates' = dates
  BY DEF UpdateOccurrence
<1>2. GoodRow(masters[r.sid]) /\ r.slot \in Slot /\ r.sid \in Sid
  BY <1>1, Committed DEF TypesInv
<1>3. row \in Override /\ \A o \in found : [o EXCEPT !.live = TRUE] \in Override
  BY <1>2 DEF Override, TypesInv
<1> HIDE DEF found, row
<1>4. overrides' \subseteq Override /\ dates' \subseteq Date
  BY <1>1, <1>3 DEF TypesInv
<1> QED BY <1>1, <1>2, <1>4, BumpedRowIsGood, RequestsStayGood

LEMMA TypesDelete ==
  ASSUME TypesInv, NEW a \in Actor, SoftDeleteEvent(a) PROVE TypesInv'
<1> DEFINE r == req[a]
           m == [masters[r.sid] EXCEPT !.state = "deleted"]
<1>1. /\ Committing(a, req[a]) /\ masters' = [masters EXCEPT ![r.sid] = Bumped(m)]
      /\ overrides' = {Ended(o, r) : o \in overrides}
      /\ dates' = dates
  BY DEF SoftDeleteEvent, Ended
<1>2. GoodRow(masters[r.sid]) /\ r.sid \in Sid
  BY <1>1, Committed DEF TypesInv
<1>3. GoodRow(Bumped(m))
  <2>1. 0 \in Slot /\ GoodRule(Nothing)
    <3>1. 0 \in Slot
      BY ConstantsAssumption, SMTT(30) DEF Slot
    <3> QED BY <3>1 DEF GoodRule, Rule
  <2>2. GoodRow(m)
    BY <1>2, <2>1, WrittenRowIsGood
  <2> QED BY <2>2, BumpedRowIsGood
<1>4. \A o \in Override : Ended(o, r) \in Override
  BY DEF Ended, Override
<1>5. overrides' \subseteq Override /\ dates' \subseteq Date
  BY <1>1, <1>4 DEF TypesInv
<1> HIDE DEF m
<1> QED BY <1>1, <1>2, <1>3, <1>5, RequestsStayGood

LEMMA TypesSkip ==
  ASSUME TypesInv, NEW a \in Actor, SkipOccurrence(a) PROVE TypesInv'
<1> DEFINE r == req[a]
<1>1. /\ Committing(a, req[a]) /\ masters' = [masters EXCEPT ![r.sid] = Bumped(masters[r.sid])]
      /\ overrides' \subseteq overrides
      /\ dates' = dates \union {[sid |-> r.sid, kind |-> "exdate", slot |-> r.slot]}
  BY DEF SkipOccurrence
<1>2. GoodRow(masters[r.sid]) /\ r.slot \in Slot /\ r.sid \in Sid
  BY <1>1, Committed DEF TypesInv
<1>3. overrides' \subseteq Override /\ dates' \subseteq Date
  BY <1>1, <1>2 DEF TypesInv, Date
<1> QED BY <1>1, <1>2, <1>3, BumpedRowIsGood, RequestsStayGood

LEMMA TypesTruncate ==
  ASSUME TypesInv, NEW a \in Actor, TruncateSeries(a) PROVE TypesInv'
<1> DEFINE r == req[a]
           bounded == BoundedRule(r.target, r.slot)
           kept == {c \in OfKind("rdate", r.dates) : c < r.slot}
           end == SeriesEnd(r.target.first, bounded, kept)
           m == [masters[r.sid] EXCEPT !.rule = bounded, !.end = end]
<1>1. /\ Committing(a, req[a]) /\ masters' = [masters EXCEPT ![r.sid] = Bumped(m)]
      /\ overrides' \subseteq overrides /\ dates' \subseteq dates
      /\ r.op = "truncate" /\ ~WholeCut(r)
  BY DEF TruncateSeries
<1>2. GoodRow(masters[r.sid]) /\ r.target.first \in Slot /\ r.sid \in Sid /\ r.slot \in Slot
  BY <1>1, Committed DEF TypesInv
<1>3. GoodRule(bounded)
  <2>1. r.target.rule # Nothing /\ Before(r.target, r.slot) # 0
    BY <1>1, Committed DEF Refused, RefusedUnread, WholeCut
  <2> QED BY <1>1, <1>2, <2>1, Committed, CutRulesAreGood
<1>4. end \in Nat
  <2>1. kept \in SUBSET Slot
    BY <1>1, Committed, SomeDatesAreSlots, SMTT(30)
  <2> HIDE DEF bounded, kept
  <2> QED BY <1>2, <1>3, <2>1, SeriesEndCovers
<1> HIDE DEF bounded, end
<1>5. GoodRow(Bumped(m))
  BY <1>2, <1>3, <1>4, WrittenRowIsGood, BumpedRowIsGood
<1> HIDE DEF m
<1>6. overrides' \subseteq Override /\ dates' \subseteq Date
  BY <1>1 DEF TypesInv
<1> QED BY <1>1, <1>2, <1>5, <1>6, RequestsStayGood

LEMMA TypesDate ==
  ASSUME TypesInv, NEW a \in Actor, SetRecurrenceDate(a) PROVE TypesInv'
<1> DEFINE r == req[a]
           s == r.sid
           end == SeriesEnd(r.target.first, r.target.rule, OfKind("rdate", DatesOf(s, dates')))
           m == [masters[s] EXCEPT !.rule = r.target.rule, !.end = end]
<1>1. /\ Committing(a, req[a]) /\ r.op \in {"exdate", "rdate"}
      /\ dates' = dates \union {[sid |-> s, kind |-> r.op, slot |-> r.slot]}
      /\ masters' = [masters EXCEPT
           ![s] = IF r.op = "exdate" THEN Bumped(masters[s]) ELSE Bumped(m)]
      /\ overrides' = overrides
  BY DEF SetRecurrenceDate
<1>2. /\ GoodRow(masters[s]) /\ r.target.first \in Slot /\ s \in Sid /\ r.slot \in Slot
      /\ GoodRule(r.target.rule)
  BY <1>1, Committed DEF TypesInv
<1>3. overrides' \subseteq Override /\ dates' \subseteq Date
  BY <1>1, <1>2 DEF TypesInv, Date
<1>4. end \in Nat
  <2>1. DatesOf(s, dates') \in SUBSET Date
    BY <1>3 DEF DatesOf
  <2>2. OfKind("rdate", DatesOf(s, dates')) \in SUBSET Slot
    BY <2>1, DatesAreSlots, SMTT(30)
  <2> QED BY <1>2, <2>2, SeriesEndCovers
<1> HIDE DEF end
<1>5. GoodRow(Bumped(m)) /\ GoodRow(Bumped(masters[s]))
  BY <1>2, <1>4, WrittenRowIsGood, BumpedRowIsGood
<1> HIDE DEF m
<1>6. GoodRow(IF r.op = "exdate" THEN Bumped(masters[s]) ELSE Bumped(m))
  BY <1>5
<1> QED BY <1>1, <1>2, <1>3, <1>6, RequestsStayGood


LEMMA TypesSplit ==
  ASSUME TypesInv, NEW a \in Actor, SplitSeries(a) PROVE TypesInv'
<1> DEFINE r == req[a]
           rdates == OfKind("rdate", r.dates)
           kept == {c \in rdates : c < r.slot}
           bounded == BoundedRule(r.target, r.slot)
           second == RemainderRule(r.target, r.rule, r.slot)
           end == SeriesEnd(r.target.first, bounded, kept)
           secondEnd == SeriesEnd(r.first, second, rdates \ kept)
           m == [masters[r.sid] EXCEPT !.rule = bounded, !.end = end]
           added == NewMaster(r.first, second, secondEnd)
<1>1. Committing(a, req[a]) /\ r.op = "split" /\ ~WholeCut(r)
  BY ZenonT(30) DEF SplitSeries
<1>2. PICK new \in Free :
        /\ masters' = [masters EXCEPT ![r.sid] = Bumped(m), ![new] = added]
        /\ overrides' = {Handed(o, r, new) : o \in overrides}
        /\ dates' = {IF d.sid = r.sid /\ d.slot >= r.slot
                     THEN [d EXCEPT !.sid = new] ELSE d : d \in dates}
  BY DEF SplitSeries, Handed
<1>3. /\ GoodRow(masters[r.sid]) /\ r.target.first \in Slot /\ r.sid \in Sid /\ r.slot \in Slot
      /\ r.first \in Slot /\ new \in Sid
  BY <1>1, Committed DEF TypesInv, Free
<1>4. GoodRule(bounded) /\ GoodRule(second)
  <2>1. /\ r.target.rule # Nothing /\ r.rule # Nothing /\ ~CutRefused(r.target, r.slot)
        /\ Before(r.target, r.slot) # 0
    BY <1>1, Committed DEF Refused, RefusedUnread, WholeCut
  <2>2. GoodRule(r.rule) /\ GoodRule(r.target.rule)
    BY <1>1, Committed
  <2> HIDE DEF r
  <2> QED BY <1>3, <2>1, <2>2, CutRulesAreGood
<1>5. end \in Nat /\ secondEnd \in Nat
  <2>1. kept \in SUBSET Slot /\ rdates \ kept \in SUBSET Slot
    BY <1>1, Committed, SomeDatesAreSlots
  <2> HIDE DEF bounded, second, kept, rdates
  <2> QED BY <1>3, <1>4, <2>1, SeriesEndCovers
<1> HIDE DEF bounded, second, end, secondEnd
<1>6. GoodRow(Bumped(m)) /\ GoodRow(added)
  <2>1. GoodRow(m)
    BY <1>3, <1>4, <1>5 DEF GoodRow, GoodRule, Master
  <2>2. GoodRow(added)
    BY <1>3, <1>4, <1>5, NewRowIsGood
  <2> HIDE DEF m, added
  <2> QED BY <2>1, <2>2, BumpedRowIsGood
<1> HIDE DEF m, added
<1>7. overrides' \subseteq Override
  <2>1. \A o \in Override : Handed(o, r, new) \in Override
    BY <1>3 DEF Handed, Override
  <2> QED BY <1>2, <2>1 DEF TypesInv
<1>8. dates' \subseteq Date
  BY <1>2, <1>3 DEF TypesInv, Date
<1>9. /\ DOMAIN masters' = Sid /\ masters' = [s \in Sid |-> masters'[s]]
      /\ \A s \in Sid : GoodRow(masters'[s])
  BY <1>2, <1>3, <1>6 DEF TypesInv
<1> QED BY <1>1, <1>7, <1>8, <1>9, Committed DEF TypesInv

LEMMA TypesStep == TypesInv /\ [Next]_vars => TypesInv'
<1> SUFFICES ASSUME TypesInv, [Next]_vars PROVE TypesInv'
  OBVIOUS
<1>1. CASE CreateEvent
  <2>1. PICK s \in Free, first \in Starts, rule \in Rules :
          masters' = [masters EXCEPT ![s] = NewMaster(first, rule, SeriesEnd(first, rule, {}))]
    BY <1>1 DEF CreateEvent
  <2>2. first \in Slot /\ GoodRule(rule) /\ SeriesEnd(first, rule, {}) \in Nat /\ s \in Sid
    BY ConstantsAssumption, RulesAreGood, SeriesEndCovers DEF Free
  <2>3. GoodRow(NewMaster(first, rule, SeriesEnd(first, rule, {})))
    BY <2>2, NewRowIsGood
  <2>4. asks' \in 0 .. MaxAsks
    BY <1>1, ConstantsAssumption DEF CreateEvent, TypesInv
  <2> QED BY <1>1, <2>1, <2>2, <2>3, <2>4 DEF CreateEvent, TypesInv
<1>2. ASSUME NEW a \in Actor, Ask(a) PROVE TypesInv'
  <2>1. PICK s \in Sid : \E r \in InputsFor(s) : req' = [req EXCEPT ![a] = r]
    BY <1>2 DEF Ask
  <2>2. PICK r \in InputsFor(s) : req' = [req EXCEPT ![a] = r]
    BY <2>1
  <2>3. GoodRequest(r)
    BY InputsAreGood
  <2>4. asks' \in 0 .. MaxAsks
    BY <1>2, ConstantsAssumption DEF Ask, TypesInv
  <2> QED BY <1>2, <2>2, <2>3, <2>4 DEF Ask, TypesInv
<1>3. ASSUME NEW a \in Actor, Refuse(a) PROVE TypesInv'
  BY <1>3 DEF Refuse, TypesInv
<1>4. ASSUME NEW a \in Actor, ReadDates(a) PROVE TypesInv'
  <2> DEFINE q == [req[a] EXCEPT !.read = TRUE, !.dates = DatesOf(req[a].sid, dates)]
  <2>1. req' = [req EXCEPT ![a] = q] /\ req[a] # Nothing
        /\ UNCHANGED <<masters, overrides, dates, asks>>
    BY <1>4 DEF ReadDates
  <2>2. GoodRequest(q)
    <3>1. DatesOf(req[a].sid, dates) \in SUBSET Date
      BY DEF TypesInv, DatesOf
    <3>2. GoodRequest(req[a])
      BY <2>1 DEF TypesInv
    <3> QED BY <3>1, <3>2 DEF GoodRequest, Requests
  <2> HIDE DEF q
  <2> QED BY <2>1, <2>2 DEF TypesInv
<1>5. ASSUME NEW a \in Actor,
             \/ UpdateWholeEvent(a) \/ UpdateOccurrence(a) \/ SplitSeries(a)
             \/ SoftDeleteEvent(a) \/ SkipOccurrence(a) \/ TruncateSeries(a)
             \/ SetRecurrenceDate(a)
      PROVE  TypesInv'
  BY <1>5, TypesWhole, TypesThis, TypesSplit, TypesDelete, TypesSkip, TypesTruncate, TypesDate
<1>6. CASE UNCHANGED vars
  BY <1>6 DEF vars, TypesInv
<1> QED BY <1>1, <1>2, <1>3, <1>4, <1>5, <1>6 DEF Next

LEMMA TypesStart == Init => TypesInv
<1> SUFFICES ASSUME Init PROVE TypesInv
  OBVIOUS
<1>1. PICK s \in Sid, first \in Starts, rule \in Rules :
        masters = [x \in Sid |-> IF x = s THEN NewMaster(first, rule, SeriesEnd(first, rule, {}))
                                 ELSE NoMaster]
  BY DEF Init
<1>2. first \in Slot /\ GoodRule(rule) /\ SeriesEnd(first, rule, {}) \in Nat
  BY ConstantsAssumption, RulesAreGood, SeriesEndCovers
<1>3. GoodRow(NewMaster(first, rule, SeriesEnd(first, rule, {})))
  BY <1>2, NewRowIsGood
<1>4. GoodRow(NoMaster)
  BY ConstantsAssumption DEF GoodRow, GoodRule, NoMaster, NewMaster, Master, Rule, Slot
<1>5. overrides = {} /\ dates = {} /\ req = [a \in Actor |-> Nothing] /\ asks = 0
  BY DEF Init
<1> QED BY <1>1, <1>3, <1>4, <1>5, ConstantsAssumption DEF TypesInv

LEMMA TypesAreKept == Spec => []TypesInv
BY TypesStart, TypesStep, PTL DEF Spec

\* However requests race, and whatever they read before others wrote: rows and
\* requests hold values of their columns, no rule of a COUNT below one is ever
\* written, and every series_end_at is a slot number.
THEOREM TablesAreTyped == Spec => []TypeOK
<1>1. TypesInv => TypeOK
  <2> SUFFICES ASSUME TypesInv PROVE TypeOK
    OBVIOUS
  <2>1. masters \in [Sid -> Master]
    BY DEF TypesInv, GoodRow
  <2>2. \A s \in Sid : GoodRule(masters[s].rule)
    BY DEF TypesInv, GoodRow
  <2> QED BY <2>1, <2>2 DEF TypesInv, TypeOK, GoodRequest, GoodRule
<1> QED BY <1>1, TypesAreKept, PTL

-------------------------------------------------------------------------------
(* Writes that race: SEQUENCE after a scoped write, and the end of a series *)
(* after an added date.                                                     *)

\* The two halves of a split or a cut, and the added dates of each.
FirstRule(r) == BoundedRule(r.target, r.slot)
SecondRule(r) == RemainderRule(r.target, r.rule, r.slot)
EarlierDates(r) == {c \in OfKind("rdate", r.dates) : c < r.slot}
LaterDates(r) == OfKind("rdate", r.dates) \ EarlierDates(r)

FirstHalf(r) ==
  [masters[r.sid] EXCEPT !.rule = FirstRule(r),
                         !.end = SeriesEnd(r.target.first, FirstRule(r), EarlierDates(r))]
SecondHalf(r) ==
  NewMaster(r.first, SecondRule(r), SeriesEnd(r.first, SecondRule(r), LaterDates(r)))

\* What a split makes of a date.
Passed(d, r, new) == IF d.sid = r.sid /\ d.slot >= r.slot THEN [d EXCEPT !.sid = new] ELSE d

\* The rows a split leaves.
Splits(r, new) ==
  /\ new \in Free /\ new # r.sid
  /\ masters'[r.sid] = Bumped(FirstHalf(r)) /\ masters'[new] = SecondHalf(r)
  /\ \A s \in Sid \ {r.sid, new} : masters'[s] = masters[s]
  /\ overrides' = {Handed(o, r, new) : o \in overrides}
  /\ dates' = {Passed(d, r, new) : d \in dates}

LEMMA SplitWrites ==
  ASSUME TypesInv, UidInv, NEW a \in Actor, SplitSeries(a)
  PROVE  /\ Committing(a, req[a]) /\ req[a].op = "split" /\ ~WholeCut(req[a])
         /\ \E new \in Sid : Splits(req[a], new)
<1> DEFINE r == req[a]
           first == BoundedRule(r.target, r.slot)
           second == RemainderRule(r.target, r.rule, r.slot)
           rdates == OfKind("rdate", r.dates)
           kept == {c \in rdates : c < r.slot}
           half == [masters[r.sid] EXCEPT !.rule = first,
                                          !.end = SeriesEnd(r.target.first, first, kept)]
           other == NewMaster(r.first, second, SeriesEnd(r.first, second, rdates \ kept))
<1>1. Committing(a, req[a]) /\ r.op = "split" /\ ~WholeCut(r)
  BY ZenonT(30) DEF SplitSeries
<1>0. half = FirstHalf(r) /\ other = SecondHalf(r)
  BY DEF FirstHalf, SecondHalf, FirstRule, SecondRule, EarlierDates, LaterDates
<1>2. PICK new \in Free :
        /\ masters' = [masters EXCEPT ![r.sid] = Bumped(half), ![new] = other]
        /\ overrides' = {Handed(o, r, new) : o \in overrides}
        /\ dates' = {IF d.sid = r.sid /\ d.slot >= r.slot
                     THEN [d EXCEPT !.sid = new] ELSE d : d \in dates}
  BY ZenonT(60) DEF SplitSeries, Handed
<1> HIDE DEF first, second, half, other
<1>3. r.sid \in Sid /\ masters[r.sid].state # "none"
  BY <1>1 DEF Committing, UidInv, RequestsShaped
<1>4. new \in Sid /\ new # r.sid
  BY <1>3 DEF Free
<1>5. /\ masters'[r.sid] = Bumped(FirstHalf(r)) /\ masters'[new] = SecondHalf(r)
      /\ \A s \in Sid \ {r.sid, new} : masters'[s] = masters[s]
  BY <1>0, <1>2, <1>3, <1>4 DEF TypesInv
<1>6. Splits(r, new)
  BY <1>2, <1>4, <1>5 DEF Splits, Passed
<1> QED BY <1>1, <1>4, <1>6

\* What the .ics of s is made from is as it was.
Unmoved(s) ==
  /\ masters'[s] = masters[s]
  /\ {o \in overrides' : o.parent = s} = {o \in overrides : o.parent = s}
  /\ DatesOf(s, dates') = DatesOf(s, dates)

LEMMA UnmovedIsUnchanged == ASSUME NEW s, Unmoved(s) PROVE Ics(s)' = Ics(s)
BY DEF Unmoved, Ics

\* A write to one series touches no other.
LEMMA OthersUnmoved ==
  ASSUME TypesInv, UidInv, NEW a \in Actor, NEW s \in Sid, s # req[a].sid,
         \/ UpdateOccurrence(a) \/ SoftDeleteEvent(a)
         \/ SkipOccurrence(a) \/ TruncateSeries(a) \/ SetRecurrenceDate(a)
  PROVE  Unmoved(s)
<1> DEFINE r == req[a]
<1>1. masters'[s] = masters[s]
  BY DEF UpdateOccurrence, SoftDeleteEvent, SkipOccurrence, TruncateSeries,
         SetRecurrenceDate, TypesInv
<1>2. DatesOf(s, dates') = DatesOf(s, dates)
  <2>1. CASE UpdateOccurrence(a) \/ SoftDeleteEvent(a)
    BY <2>1 DEF UpdateOccurrence, SoftDeleteEvent
  <2>2. CASE SkipOccurrence(a) \/ TruncateSeries(a) \/ SetRecurrenceDate(a)
    <3>1. \/ dates' = dates \union {[sid |-> r.sid, kind |-> "exdate", slot |-> r.slot]}
          \/ dates' = {d \in dates : ~(d.sid = r.sid /\ d.slot >= r.slot)}
          \/ dates' = dates \union {[sid |-> r.sid, kind |-> r.op, slot |-> r.slot]}
      BY <2>2 DEF SkipOccurrence, TruncateSeries, SetRecurrenceDate
    <3> QED BY <3>1 DEF DatesOf
  <2> QED BY <2>1, <2>2
<1>3. {o \in overrides' : o.parent = s} = {o \in overrides : o.parent = s}
  <2>1. CASE SetRecurrenceDate(a)
    BY <2>1 DEF SetRecurrenceDate
  <2>2. CASE SkipOccurrence(a) \/ TruncateSeries(a)
    BY <2>2 DEF SkipOccurrence, TruncateSeries
  <2>3. CASE SoftDeleteEvent(a)
    <3>1. overrides' = {Ended(o, r) : o \in overrides}
      BY <2>3 DEF SoftDeleteEvent, Ended
    <3>2. \A o \in overrides :
            /\ Ended(o, r).parent = o.parent
            /\ o.parent = s => Ended(o, r) = o
      BY DEF UidInv, OverridesShaped, Ended
    <3> QED BY <3>1, <3>2
  <2>4. CASE UpdateOccurrence(a)
    <3> DEFINE found == {o \in overrides : o.uid = r.sid /\ o.slot = r.slot}
               row == [parent |-> r.sid, uid |-> r.sid, slot |-> r.slot, live |-> TRUE]
    <3>1. overrides' = IF found = {} THEN overrides \union {row}
            ELSE (overrides \ found) \union {[o EXCEPT !.live = TRUE] : o \in found}
      BY <2>4 DEF UpdateOccurrence
    <3>2. \A o \in found : o.parent # s /\ [o EXCEPT !.live = TRUE].parent # s
      BY DEF UidInv, OverridesShaped, OverridesCarryTheirUid
    <3>3. row.parent # s
      OBVIOUS
    <3> HIDE DEF found, row
    <3> QED BY <3>1, <3>2, <3>3
  <2> QED BY <2>1, <2>2, <2>3, <2>4
<1> QED BY <1>1, <1>2, <1>3 DEF Unmoved

\* Every scoped write raises the SEQUENCE of the series it is about.
LEMMA ScopedBumps ==
  ASSUME TypesInv, UidInv, NEW a \in Actor,
         \/ UpdateOccurrence(a) \/ SoftDeleteEvent(a) \/ SplitSeries(a)
         \/ SkipOccurrence(a) \/ TruncateSeries(a) \/ SetRecurrenceDate(a)
  PROVE  masters'[req[a].sid].seq > masters[req[a].sid].seq
<1> DEFINE s == req[a].sid
<1>1. Committing(a, req[a])
  BY ZenonT(30)
  DEF UpdateOccurrence, SoftDeleteEvent, SplitSeries, SkipOccurrence, TruncateSeries,
      SetRecurrenceDate
<1>2. s \in Sid /\ GoodRow(masters[s]) /\ masters[s].seq \in Nat
  BY <1>1, Committed DEF TypesInv, GoodRow, Master
<1>3. \E m : /\ m = masters[s] \/ DOMAIN m = DOMAIN masters[s]
             /\ m.seq = masters[s].seq /\ "seq" \in DOMAIN m
             /\ masters'[s] = Bumped(m)
  <2>0. DOMAIN masters[s] = {"state", "first", "rule", "end", "seq"}
    BY <1>2 DEF GoodRow, Master
  <2>1. CASE UpdateOccurrence(a) \/ SkipOccurrence(a)
    <3>1. masters' = [masters EXCEPT ![s] = Bumped(masters[s])]
      BY <2>1 DEF UpdateOccurrence, SkipOccurrence
    <3>2. masters'[s] = Bumped(masters[s])
      BY <1>2, <3>1 DEF TypesInv
    <3> QED BY <2>0, <3>2
  <2>2. CASE SoftDeleteEvent(a)
    <3> DEFINE m == [masters[s] EXCEPT !.state = "deleted"]
    <3>1. masters' = [masters EXCEPT ![s] = Bumped(m)]
      BY <2>2 DEF SoftDeleteEvent
    <3>2. DOMAIN m = DOMAIN masters[s] /\ m.seq = masters[s].seq
      BY <2>0
    <3> HIDE DEF m
    <3>3. masters'[s] = Bumped(m)
      BY <1>2, <3>1 DEF TypesInv
    <3> QED BY <2>0, <3>2, <3>3
  <2>3. CASE TruncateSeries(a)
    <3> DEFINE rule == BoundedRule(req[a].target, req[a].slot)
               end == SeriesEnd(req[a].target.first, rule,
                                {c \in OfKind("rdate", req[a].dates) : c < req[a].slot})
               m == [masters[s] EXCEPT !.rule = rule, !.end = end]
    <3>1. masters' = [masters EXCEPT ![s] = Bumped(m)]
      BY <2>3 DEF TruncateSeries
    <3> HIDE DEF rule, end
    <3>2. DOMAIN m = DOMAIN masters[s] /\ m.seq = masters[s].seq
      BY <2>0
    <3> HIDE DEF m
    <3>3. masters'[s] = Bumped(m)
      BY <1>2, <3>1 DEF TypesInv
    <3> QED BY <2>0, <3>2, <3>3
  <2>4. CASE SetRecurrenceDate(a)
    <3> DEFINE rule == req[a].target.rule
               end == SeriesEnd(req[a].target.first, rule, OfKind("rdate", DatesOf(s, dates')))
               m == [masters[s] EXCEPT !.rule = rule, !.end = end]
    <3>1. masters' = [masters EXCEPT
            ![s] = IF req[a].op = "exdate" THEN Bumped(masters[s]) ELSE Bumped(m)]
      BY <2>4 DEF SetRecurrenceDate
    <3> HIDE DEF rule, end
    <3>2. DOMAIN m = DOMAIN masters[s] /\ m.seq = masters[s].seq
      BY <2>0
    <3> HIDE DEF m
    <3>3. masters'[s] = Bumped(m) \/ masters'[s] = Bumped(masters[s])
      BY <1>2, <3>1 DEF TypesInv
    <3> QED BY <2>0, <3>2, <3>3
  <2>5. CASE SplitSeries(a)
    <3>1. masters'[s] = Bumped(FirstHalf(req[a]))
      BY <2>5, SplitWrites DEF Splits
    <3>2. DOMAIN FirstHalf(req[a]) = DOMAIN masters[s] /\ FirstHalf(req[a]).seq = masters[s].seq
      BY <2>0 DEF FirstHalf
    <3> QED BY <2>0, <3>1, <3>2
  <2> QED BY <2>1, <2>2, <2>3, <2>4, <2>5
<1> QED BY <1>2, <1>3 DEF Bumped

\* A split touches the series it is about, and one that did not exist.
LEMMA SplitSparesOthers ==
  ASSUME TypesInv, UidInv, NEW a \in Actor, SplitSeries(a),
         NEW s \in Sid, s # req[a].sid, masters[s].state # "none"
  PROVE  Unmoved(s)
<1> DEFINE r == req[a]
<1>1. PICK new \in Sid : Splits(r, new)
  BY SplitWrites
<1>2. s # new
  BY <1>1 DEF Splits, Free
<1>3. masters'[s] = masters[s]
  BY <1>1, <1>2 DEF Splits
<1>4. {o \in overrides' : o.parent = s} = {o \in overrides : o.parent = s}
  <2>1. \A o \in overrides :
          /\ Handed(o, r, new).parent = s => o.parent = s
          /\ o.parent = s => Handed(o, r, new) = o
    BY <1>2 DEF UidInv, OverridesShaped, Handed
  <2> QED BY <1>1, <2>1 DEF Splits
<1>5. DatesOf(s, dates') = DatesOf(s, dates)
  <2>1. \A d \in dates :
          /\ Passed(d, r, new).sid = s => d.sid = s
          /\ d.sid = s => Passed(d, r, new) = d
    BY <1>2 DEF TypesInv, Date, Passed
  <2> QED BY <1>1, <2>1 DEF Splits, DatesOf
<1> QED BY <1>3, <1>4, <1>5 DEF Unmoved

LEMMA ScopedStep ==
  TypesInv /\ UidInv /\ [Next]_vars =>
    [~(\E a \in Actor : UpdateWholeEvent(a)) =>
       \A s \in Sid :
         masters[s].state # "none" /\ Ics(s)' # Ics(s) => masters'[s].seq > masters[s].seq]_vars
<1> SUFFICES ASSUME TypesInv, UidInv, [Next]_vars, ~(UNCHANGED vars),
                    ~(\E a \in Actor : UpdateWholeEvent(a)),
                    NEW s \in Sid, masters[s].state # "none", Ics(s)' # Ics(s)
             PROVE  masters'[s].seq > masters[s].seq
  OBVIOUS
<1>1. ~Unmoved(s)
  BY UnmovedIsUnchanged
<1>2. ~CreateEvent
  <2> SUFFICES ASSUME CreateEvent PROVE FALSE
    OBVIOUS
  <2>1. PICK x \in Free : \E m : masters' = [masters EXCEPT ![x] = m]
    BY DEF CreateEvent
  <2>2. s # x /\ UNCHANGED <<overrides, dates>>
    BY DEF CreateEvent, Free
  <2> QED BY <1>1, <2>1, <2>2 DEF Unmoved, TypesInv
<1>3. ASSUME NEW a \in Actor PROVE ~(Ask(a) \/ Refuse(a) \/ ReadDates(a))
  BY <1>1 DEF Ask, Refuse, ReadDates, Unmoved
<1>4. PICK a \in Actor :
        \/ UpdateOccurrence(a) \/ SoftDeleteEvent(a) \/ SplitSeries(a)
        \/ SkipOccurrence(a) \/ TruncateSeries(a) \/ SetRecurrenceDate(a)
  BY <1>2, <1>3 DEF Next
<1>5. s = req[a].sid
  BY <1>1, <1>4, OthersUnmoved, SplitSparesOthers
<1> QED BY <1>4, <1>5, ScopedBumps

LEMMA AddedDateStep ==
  TypesInv /\ UidInv /\ [Next]_vars =>
    [\A a \in Actor, s \in Sid :
       /\ SetRecurrenceDate(a)
       /\ req[a].op = "rdate" /\ req[a].sid = s
       /\ req[a].target.first = masters[s].first
       => EndCoversOf(s)']_vars
<1> SUFFICES ASSUME TypesInv, NEW a \in Actor, NEW s \in Sid, TypesInv',
                    SetRecurrenceDate(a), req[a].op = "rdate", req[a].sid = s,
                    req[a].target.first = masters[s].first
             PROVE  EndCoversOf(s)'
  BY TypesStep
<1> DEFINE rule == req[a].target.rule
           rdates == OfKind("rdate", DatesOf(s, dates'))
           end == SeriesEnd(masters[s].first, rule, rdates)
           m == [masters[s] EXCEPT !.rule = rule, !.end = end]
<1>1. Committing(a, req[a]) /\ masters' = [masters EXCEPT ![s] = Bumped(m)]
  BY DEF SetRecurrenceDate
<1>2. masters[s].first \in Slot /\ GoodRule(rule) /\ GoodRow(masters[s])
  BY <1>1, Committed DEF TypesInv, GoodRow, Master
<1>3. rdates \in SUBSET Slot
  BY DatesAreSlots DEF TypesInv, DatesOf
<1> HIDE DEF rule, rdates
<1>4. rule # Nothing => \A c \in RuleSlots(masters[s].first, rule) \union rdates : c <= end
  BY <1>2, <1>3, SeriesEndCovers
<1> HIDE DEF end
<1>5. m.first = masters[s].first /\ m.rule = rule /\ m.end = end
      /\ DOMAIN m = {"state", "first", "rule", "end", "seq"}
  BY <1>2 DEF GoodRow, Master
<1> HIDE DEF m
<1>6. masters'[s].first = masters[s].first /\ masters'[s].rule = rule /\ masters'[s].end = end
  BY <1>1, <1>5 DEF Bumped, TypesInv
<1> QED BY <1>4, <1>6 DEF EndCoversOf, Generated, rdates

\* However writes race: one that changes what the .ics of a series says and is
\* not to the whole series raises its SEQUENCE, and once an added date is in,
\* series_end_at covers it and every other date, unless the start itself moved.
THEOREM RacesAreSafe == Spec => RacesSpareTheSeries
<1>1. Init => TypesInv /\ UidInv
  BY TypesStart, UidStart
<1>2. TypesInv /\ UidInv /\ [Next]_vars => TypesInv' /\ UidInv'
  BY TypesStep, UidStep
<1> QED
  BY <1>1, <1>2, ScopedStep, AddedDateStep, PTL
  DEF Spec, RacesSpareTheSeries, ScopedSequenceRises, AddedDateIsCovered

-------------------------------------------------------------------------------
(* One request at a time: what each write does to the series it is about.   *)

\* No two requests are under way.
Alone == \A a, b \in Actor : a = b

OverridesOf(s, os) == {o \in os : o.parent = s}
SlotsOf(os) == {o.slot : o \in os}

\* A row's end covers what its rule generates and the dates added to it.
Covered(m, ds) ==
  \A c \in RuleSlots(m.first, m.rule) \union OfKind("rdate", ds) : c <= m.end

\* A row, its overrides and its dates go together.
Sound(m, os, ds) ==
  /\ m.state = "none" \/ m.rule = Nothing => os = {} /\ ds = {}
  /\ m.state = "live" /\ m.rule # Nothing => Covered(m, ds)
  /\ \A o \in os : o.live <=> m.state = "live"

AllSound == \A s \in Sid : Sound(masters[s], OverridesOf(s, overrides), DatesOf(s, dates))

\* A request's target and dates are still what it has read of them.
Fresh ==
  \A a \in Actor : req[a] # Nothing =>
    /\ masters[req[a].sid].state = "live"
    /\ req[a].target.first = masters[req[a].sid].first
    /\ req[a].target.rule = masters[req[a].sid].rule
    /\ req[a].read => req[a].dates = DatesOf(req[a].sid, dates)

SoloInv == TypesInv /\ UidInv /\ Fresh /\ AllSound

\* What a request finds when it commits, said of the row rather than of the request.
LEMMA Current ==
  ASSUME SoloInv, NEW a \in Actor, NEW s \in Sid, req[a].sid = s, Committing(a, req[a])
  PROVE  /\ masters[s].state = "live" /\ GoodRow(masters[s])
         /\ req[a].target.first = masters[s].first /\ req[a].target.rule = masters[s].rule
         /\ masters[s].first \in Slot /\ GoodRule(masters[s].rule) /\ masters[s].end \in Nat
         /\ masters[s].seq \in Nat
         /\ NeedsDates(req[a]) => req[a].dates = DatesOf(s, dates)
         /\ Sound(masters[s], OverridesOf(s, overrides), DatesOf(s, dates))
         /\ DOMAIN masters[s] = {"state", "first", "rule", "end", "seq"}
<1>1. req[a] # Nothing /\ (NeedsDates(req[a]) => req[a].read)
  BY DEF Committing
<1>2. GoodRow(masters[s])
  BY DEF SoloInv, TypesInv
<1>3. masters[s].first \in Slot /\ GoodRule(masters[s].rule) /\ masters[s].end \in Nat
      /\ masters[s].seq \in Nat /\ DOMAIN masters[s] = {"state", "first", "rule", "end", "seq"}
  BY <1>2 DEF GoodRow, Master
<1> QED BY <1>1, <1>2, <1>3 DEF SoloInv, Fresh, AllSound

\* A request that has read its target as it is cuts the series as it is.
LEMMA CutsTheRow ==
  ASSUME NEW r, NEW m, r.target.first = m.first, r.target.rule = m.rule, NEW c
  PROVE  /\ Before(r.target, c) = Before(m, c)
         /\ BoundedRule(r.target, c) = BoundedRule(m, c)
         /\ CutRefused(r.target, c) = CutRefused(m, c)
         /\ \A rule : RemainderRule(r.target, rule, c) = RemainderRule(m, rule, c)
<1>1. \A x : Before(r.target, x) = Before(m, x)
  BY DEF Before
<1> QED BY <1>1 DEF BoundedRule, CutRefused, RemainderRule

\* An edit of the whole series.
EffectWhole(r, s) ==
  LET n == masters'[s] IN
  /\ n.state = "live" /\ n.first = r.first /\ n.rule = r.rule
  /\ n.rule # Nothing => Covered(n, DatesOf(s, dates'))
  /\ \/ OverridesOf(s, overrides') = {} /\ DatesOf(s, dates') = {}
     \/ /\ OverridesOf(s, overrides') = OverridesOf(s, overrides)
        /\ DatesOf(s, dates') = DatesOf(s, dates)
        /\ r.rule = masters[s].rule /\ r.first = masters[s].first
  /\ r.rule = masters[s].rule /\ r.first = masters[s].first =>
       /\ OverridesOf(s, overrides') = OverridesOf(s, overrides)
       /\ DatesOf(s, dates') = DatesOf(s, dates)
  /\ Ics(s)' # Ics(s) => n.seq > masters[s].seq
  /\ \A x \in Sid \ {s} : Unmoved(x)

LEMMA WholeDoes ==
  ASSUME SoloInv, NEW a \in Actor, NEW s \in Sid, req[a].sid = s, UpdateWholeEvent(a)
  PROVE  EffectWhole(req[a], s)
<1> DEFINE r == req[a]
           changed == r.rule # r.target.rule \/ r.first # r.target.first
           dropped == changed /\ r.target.rule # Nothing
           rdates == IF dropped THEN {} ELSE OfKind("rdate", r.dates)
           end == SeriesEnd(r.first, r.rule, rdates)
           bumps == r.rule # masters[s].rule \/ r.first # masters[s].first
           m == [masters[s] EXCEPT !.first = r.first, !.rule = r.rule, !.end = end]
           n == masters'[s]
           os == OverridesOf(s, overrides)
           ds == DatesOf(s, dates)
<1>1. /\ Committing(a, req[a]) /\ UpdatesWhole(r)
      /\ masters' = [masters EXCEPT ![s] = IF bumps THEN Bumped(m) ELSE m]
      /\ overrides' = IF dropped THEN {o \in overrides : o.parent # s} ELSE overrides
      /\ dates' = IF dropped THEN {d \in dates : d.sid # s} ELSE dates
  BY DEF UpdateWholeEvent
<1>2. \A x \in Sid \ {s} : Unmoved(x)
  BY <1>1 DEF Unmoved, DatesOf, SoloInv, TypesInv
<1>3. bumps = changed
  BY <1>1, Current
<1>4. rdates \in SUBSET Slot /\ r.first \in Slot /\ GoodRule(r.rule)
  BY <1>1, Committed, DatesAreSlots DEF SoloInv
<1>5. r.rule # Nothing => \A c \in RuleSlots(r.first, r.rule) \union rdates : c <= end
  BY <1>4, SeriesEndCovers
<1> HIDE DEF end
<1>6. /\ m.state = "live" /\ m.first = r.first /\ m.rule = r.rule /\ m.end = end
      /\ m.seq = masters[s].seq /\ DOMAIN m = {"state", "first", "rule", "end", "seq"}
  BY <1>1, Current
<1> HIDE DEF m
<1>7. /\ n.state = "live" /\ n.first = r.first /\ n.rule = r.rule /\ n.end = end
      /\ n.seq = IF bumps THEN masters[s].seq + 1 ELSE masters[s].seq
  BY <1>1, <1>6 DEF Bumped, SoloInv, TypesInv
<1>8. CASE dropped
  <2>1. OverridesOf(s, overrides') = {} /\ DatesOf(s, dates') = {}
    BY <1>1, <1>8 DEF OverridesOf, DatesOf
  <2>2. Covered(n, DatesOf(s, dates')) \/ n.rule = Nothing
    BY <1>5, <1>7, <2>1 DEF Covered, OfKind
  <2>3. n.seq > masters[s].seq
    BY <1>1, <1>3, <1>7, <1>8, Current
  <2>4. ~(r.rule = masters[s].rule /\ r.first = masters[s].first)
    BY <1>3, <1>8
  <2> QED BY <1>2, <1>7, <2>1, <2>2, <2>3, <2>4 DEF EffectWhole
<1>9. CASE ~dropped
  <2>1. OverridesOf(s, overrides') = os /\ DatesOf(s, dates') = ds
    BY <1>1, <1>9 DEF OverridesOf, DatesOf
  <2>2. CASE r.target.rule = Nothing
    <3>1. os = {} /\ ds = {}
      BY <1>1, <2>2, Current DEF Sound
    <3>2. Covered(n, DatesOf(s, dates')) \/ n.rule = Nothing
      BY <1>5, <1>7, <2>1, <3>1 DEF Covered, OfKind
    <3>3. Ics(s)' # Ics(s) => bumps
      BY <1>1, <1>7, <2>1, Current DEF Ics, OverridesOf
    <3>4. Ics(s)' # Ics(s) => n.seq > masters[s].seq
      BY <1>1, <1>7, <3>3, Current
    <3> QED BY <1>2, <1>7, <2>1, <3>1, <3>2, <3>4 DEF EffectWhole
  <2>3. CASE r.target.rule # Nothing
    <3>1. ~changed
      BY <1>9, <2>3
    <3>2. ~Deletes(r)
      BY <1>1 DEF UpdatesWhole, Deletes
    <3>3. r.dates = ds
      BY <1>1, <2>3, <3>2, Current DEF NeedsDates, UpdatesWhole
    <3>4. Covered(n, DatesOf(s, dates')) \/ n.rule = Nothing
      BY <1>5, <1>7, <1>9, <2>1, <3>3 DEF Covered
    <3>5. Ics(s)' = Ics(s)
      BY <1>1, <1>7, <2>1, <3>1, Current DEF Ics, OverridesOf
    <3> QED BY <1>1, <1>2, <1>7, <2>1, <3>1, <3>4, <3>5, Current DEF EffectWhole
  <2> QED BY <2>2, <2>3
<1> QED BY <1>8, <1>9

\* The columns that say what a series shows are as they were.
SameRow(n, m) ==
  n.state = m.state /\ n.first = m.first /\ n.rule = m.rule /\ n.end = m.end

LEMMA BumpedIsSameRow ==
  ASSUME SoloInv, NEW s \in Sid, masters' = [masters EXCEPT ![s] = Bumped(masters[s])]
  PROVE  SameRow(masters'[s], masters[s])
BY DEF SoloInv, TypesInv, GoodRow, Master, Bumped, SameRow

\* An edit of one occurrence.
EffectThis(r, s) ==
  /\ SameRow(masters'[s], masters[s]) /\ masters[s].rule # Nothing
  /\ IsOccurrence(masters[s], r.slot, DatesOf(s, dates))
  /\ DatesOf(s, dates') = DatesOf(s, dates)
  /\ SlotsOf(OverridesOf(s, overrides')) = SlotsOf(OverridesOf(s, overrides)) \union {r.slot}
  /\ \A o \in OverridesOf(s, overrides') : o.live

LEMMA ThisDoes ==
  ASSUME SoloInv, NEW a \in Actor, NEW s \in Sid, req[a].sid = s, UpdateOccurrence(a)
  PROVE  EffectThis(req[a], s)
<1> DEFINE r == req[a]
           found == {o \in overrides : o.uid = s /\ o.slot = r.slot}
           row == [parent |-> s, uid |-> s, slot |-> r.slot, live |-> TRUE]
<1>1. /\ Committing(a, req[a]) /\ r.op = "this"
      /\ masters' = [masters EXCEPT ![s] = Bumped(masters[s])]
      /\ overrides' = IF found = {} THEN overrides \union {row}
                      ELSE (overrides \ found) \union {[o EXCEPT !.live = TRUE] : o \in found}
      /\ dates' = dates
  BY DEF UpdateOccurrence
<1>2. r.target.rule # Nothing /\ r.read
      /\ IsOccurrence(r.target, r.slot, r.dates)
  BY <1>1 DEF Committing, Refused, RefusedUnread, NeedsDates, Deletes
<1>3. masters[s].rule # Nothing /\ IsOccurrence(masters[s], r.slot, DatesOf(s, dates))
  <2>1. r.dates = DatesOf(s, dates)
    BY <1>1, <1>2, Current DEF NeedsDates, Deletes
  <2> QED BY <1>1, <1>2, <2>1, Current DEF IsOccurrence
<1>4. /\ \A o \in overrides : DOMAIN o = {"parent", "uid", "slot", "live"} /\ o.uid = o.parent
      /\ \A o \in OverridesOf(s, overrides) : o.live
  BY <1>1, Current DEF SoloInv, UidInv, OverridesShaped, OverridesCarryTheirUid, Sound
<1>5. /\ SlotsOf(OverridesOf(s, overrides')) = SlotsOf(OverridesOf(s, overrides)) \union {r.slot}
      /\ \A o \in OverridesOf(s, overrides') : o.live
  <2>1. CASE found = {}
    <3>1. OverridesOf(s, overrides') = OverridesOf(s, overrides) \union {row}
      BY <1>1, <2>1 DEF OverridesOf
    <3>2. row.slot = r.slot /\ row.live
      OBVIOUS
    <3> DEFINE os == OverridesOf(s, overrides)
               os2 == OverridesOf(s, overrides')
    <3>3. os2 = os \union {row} /\ \A o \in os : o.live
      BY <1>4, <3>1
    <3> HIDE DEF row, os, os2
    <3>4. SlotsOf(os2) = SlotsOf(os) \union {r.slot}
      BY <3>2, <3>3 DEF SlotsOf
    <3>5. \A o \in os2 : o.live
      BY <3>2, <3>3
    <3> QED BY <3>4, <3>5 DEF os, os2
  <2>2. CASE found # {}
    <3>0. \A o \in Override : o.live => [o EXCEPT !.live = TRUE] = o
      BY DEF Override
    <3>1. \A o \in found : o \in overrides /\ o.parent = s /\ o.slot = r.slot
      BY <1>4
    <3>2. \A o \in found : o \in Override /\ o.live
      BY <1>4, <3>1 DEF OverridesOf, SoloInv, TypesInv
    <3>3. \A o \in found : [o EXCEPT !.live = TRUE] = o
      BY <3>0, <3>2
    <3> HIDE DEF found
    <3>4. overrides' = overrides
      <4>1. {[o EXCEPT !.live = TRUE] : o \in found} = found
        BY <3>3
      <4> QED BY <1>1, <2>2, <3>1, <4>1
    <3>5. r.slot \in SlotsOf(OverridesOf(s, overrides))
      <4>1. PICK o \in found : TRUE
        BY <2>2
      <4> QED BY <3>1, <4>1 DEF SlotsOf, OverridesOf
    <3>6. SlotsOf(OverridesOf(s, overrides)) = SlotsOf(OverridesOf(s, overrides)) \union {r.slot}
      BY <3>5
    <3> QED BY <1>4, <3>4, <3>6
  <2> QED BY <2>1, <2>2
<1> QED BY <1>1, <1>3, <1>5, BumpedIsSameRow DEF EffectThis

\* A skipped occurrence.
EffectSkip(r, s) ==
  /\ SameRow(masters'[s], masters[s]) /\ masters[s].rule # Nothing
  /\ DatesOf(s, dates') =
       DatesOf(s, dates) \union {[sid |-> s, kind |-> "exdate", slot |-> r.slot]}
  /\ OverridesOf(s, overrides') = {o \in OverridesOf(s, overrides) : o.slot # r.slot}

LEMMA SkipDoes ==
  ASSUME SoloInv, NEW a \in Actor, NEW s \in Sid, req[a].sid = s, SkipOccurrence(a)
  PROVE  EffectSkip(req[a], s)
<1> DEFINE r == req[a]
<1>1. /\ Committing(a, req[a]) /\ r.op = "skip"
      /\ masters' = [masters EXCEPT ![s] = Bumped(masters[s])]
      /\ overrides' = {o \in overrides : ~(o.parent = s /\ o.slot = r.slot)}
      /\ dates' = dates \union {[sid |-> s, kind |-> "exdate", slot |-> r.slot]}
  BY DEF SkipOccurrence
<1>2. masters[s].rule # Nothing
  BY <1>1, Current DEF Committing, Refused, RefusedUnread
<1>3. DatesOf(s, dates') =
        DatesOf(s, dates) \union {[sid |-> s, kind |-> "exdate", slot |-> r.slot]}
  BY <1>1 DEF DatesOf
<1>4. OverridesOf(s, overrides') = {o \in OverridesOf(s, overrides) : o.slot # r.slot}
  BY <1>1 DEF OverridesOf
<1> QED BY <1>1, <1>2, <1>3, <1>4, BumpedIsSameRow DEF EffectSkip

\* A deletion.
EffectDelete(s) ==
  /\ masters'[s].state = "deleted" /\ masters'[s].rule = masters[s].rule
  /\ masters'[s].first = masters[s].first
  /\ DatesOf(s, dates') = DatesOf(s, dates)
  /\ masters[s].rule = Nothing => OverridesOf(s, overrides') = {}
  /\ \A o \in OverridesOf(s, overrides') : ~o.live

LEMMA DeleteDoes ==
  ASSUME SoloInv, NEW a \in Actor, NEW s \in Sid, req[a].sid = s, SoftDeleteEvent(a)
  PROVE  EffectDelete(s)
<1> DEFINE r == req[a]
           m == [masters[s] EXCEPT !.state = "deleted"]
<1>1. /\ Committing(a, req[a]) /\ masters' = [masters EXCEPT ![s] = Bumped(m)]
      /\ overrides' = {Ended(o, r) : o \in overrides}
      /\ dates' = dates
  BY DEF SoftDeleteEvent, Ended
<1>2. /\ m.state = "deleted" /\ m.rule = masters[s].rule /\ m.first = masters[s].first
      /\ DOMAIN m = {"state", "first", "rule", "end", "seq"}
  BY <1>1, Current
<1> HIDE DEF m
<1>3. /\ masters'[s].state = "deleted" /\ masters'[s].rule = masters[s].rule
      /\ masters'[s].first = masters[s].first
  BY <1>1, <1>2 DEF Bumped, SoloInv, TypesInv
<1>4. \A o \in overrides :
        /\ Ended(o, r).parent = o.parent
        /\ o.parent = s /\ masters[s].rule # Nothing => ~Ended(o, r).live
  BY <1>1, Current DEF Ended, SoloInv, UidInv, OverridesShaped
<1>5. \A p \in OverridesOf(s, overrides') :
        \E o \in OverridesOf(s, overrides) : p = Ended(o, r)
  BY <1>1, <1>4 DEF OverridesOf
<1>6. masters[s].rule = Nothing => OverridesOf(s, overrides) = {}
  BY <1>1, Current DEF Sound
<1>7. /\ masters[s].rule = Nothing => OverridesOf(s, overrides') = {}
      /\ \A o \in OverridesOf(s, overrides') : ~o.live
  BY <1>4, <1>5, <1>6 DEF OverridesOf
<1> QED BY <1>1, <1>3, <1>7 DEF EffectDelete

\* An added or a skipped date.
EffectDate(r, s) ==
  LET n == masters'[s] IN
  /\ n.state = "live" /\ n.first = masters[s].first /\ n.rule = masters[s].rule
  /\ masters[s].rule # Nothing /\ Covered(n, DatesOf(s, dates'))
  /\ DatesOf(s, dates') = DatesOf(s, dates) \union {[sid |-> s, kind |-> r.op, slot |-> r.slot]}
  /\ OverridesOf(s, overrides') = OverridesOf(s, overrides)

LEMMA DateDoes ==
  ASSUME SoloInv, NEW a \in Actor, NEW s \in Sid, req[a].sid = s, SetRecurrenceDate(a)
  PROVE  EffectDate(req[a], s)
<1> DEFINE r == req[a]
           rule == masters[s].rule
           rdates == OfKind("rdate", DatesOf(s, dates'))
           end == SeriesEnd(masters[s].first, rule, rdates)
           m == [masters[s] EXCEPT !.rule = rule, !.end = end]
           n == masters'[s]
<1>0. Committing(a, req[a]) /\ r.op \in {"exdate", "rdate"}
  BY DEF SetRecurrenceDate
<1>1. /\ dates' = dates \union {[sid |-> s, kind |-> r.op, slot |-> r.slot]}
      /\ masters' = [masters EXCEPT
           ![s] = IF r.op = "exdate" THEN Bumped(masters[s]) ELSE Bumped(m)]
      /\ overrides' = overrides
  BY <1>0, Current DEF SetRecurrenceDate
<1>2. rule # Nothing
  BY <1>0, Current DEF Committing, Refused, RefusedUnread
<1>3. DatesOf(s, dates') = DatesOf(s, dates) \union {[sid |-> s, kind |-> r.op, slot |-> r.slot]}
  BY <1>1 DEF DatesOf
<1>4. OverridesOf(s, overrides') = OverridesOf(s, overrides)
  BY <1>1
<1>5. n.state = "live" /\ n.first = masters[s].first /\ n.rule = rule
      /\ n.end = IF r.op = "exdate" THEN masters[s].end ELSE end
  <2> HIDE DEF end
  <2>1. /\ m.state = "live" /\ m.first = masters[s].first /\ m.rule = rule /\ m.end = end
        /\ DOMAIN m = {"state", "first", "rule", "end", "seq"}
    BY <1>0, Current
  <2> HIDE DEF m
  <2> QED BY <1>0, <1>1, <2>1, Current DEF Bumped, SoloInv, TypesInv
<1>6. CASE r.op = "exdate"
  <2>1. Covered(masters[s], DatesOf(s, dates))
    BY <1>0, <1>2, Current DEF Sound
  <2>2. rdates = OfKind("rdate", DatesOf(s, dates))
    BY <1>3, <1>6 DEF OfKind
  <2>3. Covered(n, DatesOf(s, dates'))
    BY <1>5, <1>6, <2>1, <2>2 DEF Covered
  <2> QED BY <1>2, <1>3, <1>4, <1>5, <2>3 DEF EffectDate
<1>7. CASE r.op # "exdate"
  <2>1. rdates \in SUBSET Slot
    <3>1. dates' \in SUBSET Date
      BY <1>0, TypesDate DEF SoloInv, TypesInv
    <3> QED BY <3>1, DatesAreSlots DEF DatesOf
  <2>2. \A c \in RuleSlots(masters[s].first, rule) \union rdates : c <= end
    <3> HIDE DEF rdates
    <3> QED BY <1>0, <1>2, <2>1, Current, SeriesEndCovers
  <2>3. Covered(n, DatesOf(s, dates'))
    BY <1>5, <1>7, <2>2 DEF Covered
  <2> QED BY <1>2, <1>3, <1>4, <1>5, <2>3 DEF EffectDate
<1> QED BY <1>6, <1>7

\* What a cut leaves of the series it cuts.
EffectCut(r, s) ==
  LET n == masters'[s] IN
  /\ masters[s].rule # Nothing /\ ~CutRefused(masters[s], r.slot)
  /\ Before(masters[s], r.slot) # 0
  /\ n.state = "live" /\ n.first = masters[s].first
  /\ n.rule = BoundedRule(masters[s], r.slot) /\ n.rule # Nothing
  /\ Covered(n, DatesOf(s, dates'))
  /\ OverridesOf(s, overrides') = {o \in OverridesOf(s, overrides) : ~(o.slot >= r.slot)}
  /\ DatesOf(s, dates') = {d \in DatesOf(s, dates) : ~(d.slot >= r.slot)}

\* What a split hands to the new series.
EffectTail(r, s, new) ==
  LET n == masters'[new] IN
  /\ new # s /\ masters[new].state = "none"
  /\ OverridesOf(new, overrides) = {} /\ DatesOf(new, dates) = {}
  /\ n.state = "live" /\ n.first = r.first
  /\ n.rule = RemainderRule(masters[s], r.rule, r.slot) /\ n.rule # Nothing
  /\ Covered(n, DatesOf(new, dates'))
  /\ SlotsOf(OverridesOf(new, overrides')) =
       {c \in SlotsOf(OverridesOf(s, overrides)) : c >= r.slot}
  /\ \A o \in OverridesOf(new, overrides') : o.live
  /\ \A d \in DatesOf(new, dates') : d.slot >= r.slot
  /\ \A k \in {"exdate", "rdate"} :
       OfKind(k, DatesOf(new, dates')) = {c \in OfKind(k, DatesOf(s, dates)) : c >= r.slot}

\* The first half of a split or a cut covers the dates before it.
LEMMA FirstHalfIsCovered ==
  ASSUME SoloInv, NEW a \in Actor, NEW s \in Sid, req[a].sid = s, Committing(a, req[a]),
         req[a].op \in {"split", "truncate"}, ~WholeCut(req[a])
  PROVE  LET r == req[a]
             n == Bumped(FirstHalf(r)) IN
         /\ masters[s].rule # Nothing /\ ~CutRefused(masters[s], r.slot)
         /\ Before(masters[s], r.slot) # 0
         /\ n.state = "live" /\ n.first = masters[s].first
         /\ n.rule = BoundedRule(masters[s], r.slot) /\ n.rule # Nothing
         /\ Covered(n, {d \in DatesOf(s, dates) : ~(d.slot >= r.slot)})
<1> DEFINE r == req[a]
           h == FirstHalf(r)
           ds == {d \in DatesOf(s, dates) : ~(d.slot >= r.slot)}
<1>1. r.target.rule # Nothing /\ ~CutRefused(r.target, r.slot)
  BY DEF Committing, Refused, RefusedUnread
<1>2. /\ masters[s].rule # Nothing /\ ~CutRefused(masters[s], r.slot)
      /\ Before(masters[s], r.slot) # 0
      /\ FirstRule(r) = BoundedRule(masters[s], r.slot)
  BY <1>1, Current, CutsTheRow DEF WholeCut, FirstRule
<1>3. r.dates = DatesOf(s, dates)
  BY <1>1, Current DEF NeedsDates, Deletes
<1>4. r.slot \in Slot /\ masters[s].first \in Slot /\ GoodRule(masters[s].rule)
      /\ DatesOf(s, dates) \in SUBSET Date
  BY Committed, Current DEF SoloInv, TypesInv, DatesOf
<1>5. GoodRule(FirstRule(r)) /\ FirstRule(r) # Nothing
  BY <1>2, <1>4, CutRulesAreGood
<1>6. EarlierDates(r) \in SUBSET Slot
  BY <1>3, <1>4, SomeDatesAreSlots DEF EarlierDates
<1>7. \A c \in RuleSlots(masters[s].first, FirstRule(r)) \union EarlierDates(r) :
        c <= SeriesEnd(masters[s].first, FirstRule(r), EarlierDates(r))
  BY <1>4, <1>5, <1>6, SeriesEndCovers
<1>8. OfKind("rdate", ds) \subseteq EarlierDates(r)
  <2>1. \A d \in Date : d.slot \in Int
    BY ConstantsAssumption DEF Date, Slot
  <2>2. r.slot \in Int
    BY <1>4, ConstantsAssumption DEF Slot
  <2> QED BY <1>3, <1>4, <2>1, <2>2 DEF EarlierDates, OfKind
<1>9. /\ h.state = "live" /\ h.first = masters[s].first /\ h.rule = FirstRule(r)
      /\ h.end = SeriesEnd(masters[s].first, FirstRule(r), EarlierDates(r))
      /\ DOMAIN h = {"state", "first", "rule", "end", "seq"}
  BY Current, SMTT(30) DEF FirstHalf
<1> HIDE DEF h, ds
<1>10. /\ Bumped(h).state = "live" /\ Bumped(h).first = masters[s].first
       /\ Bumped(h).rule = FirstRule(r)
       /\ Bumped(h).end = SeriesEnd(masters[s].first, FirstRule(r), EarlierDates(r))
  BY <1>9 DEF Bumped
<1>11. Covered(Bumped(h), ds)
  BY <1>7, <1>8, <1>10 DEF Covered
<1> QED BY <1>2, <1>5, <1>10, <1>11 DEF h, ds

LEMMA TruncateDoes ==
  ASSUME SoloInv, NEW a \in Actor, NEW s \in Sid, req[a].sid = s, TruncateSeries(a)
  PROVE  EffectCut(req[a], s)
<1> DEFINE r == req[a]
           half == [masters[s] EXCEPT !.rule = FirstRule(r),
                      !.end = SeriesEnd(r.target.first, FirstRule(r), EarlierDates(r))]
<1>1. /\ Committing(a, req[a]) /\ r.op = "truncate" /\ ~WholeCut(r)
      /\ masters' = [masters EXCEPT ![s] = Bumped(half)]
      /\ overrides' = {o \in overrides : ~(o.parent = s /\ o.slot >= r.slot)}
      /\ dates' = {d \in dates : ~(d.sid = s /\ d.slot >= r.slot)}
  BY DEF TruncateSeries, FirstRule, EarlierDates
<1>2. half = FirstHalf(r)
  BY DEF FirstHalf
<1> HIDE DEF half
<1>3. masters'[s] = Bumped(FirstHalf(r))
  BY <1>1, <1>2 DEF SoloInv, TypesInv
<1>4. /\ OverridesOf(s, overrides') = {o \in OverridesOf(s, overrides) : ~(o.slot >= r.slot)}
      /\ DatesOf(s, dates') = {d \in DatesOf(s, dates) : ~(d.slot >= r.slot)}
  BY <1>1 DEF OverridesOf, DatesOf
<1> QED BY <1>1, <1>3, <1>4, FirstHalfIsCovered DEF EffectCut

LEMMA SplitDoes ==
  ASSUME SoloInv, NEW a \in Actor, NEW s \in Sid, req[a].sid = s, SplitSeries(a)
  PROVE  /\ EffectCut(req[a], s)
         /\ \E new \in Sid :
              /\ EffectTail(req[a], s, new)
              /\ \A x \in Sid \ {s, new} : Unmoved(x)
<1> DEFINE r == req[a]
<1>1. PICK new \in Sid : Splits(r, new)
  BY SplitWrites DEF SoloInv
<1>2. Committing(a, req[a]) /\ r.op = "split" /\ ~WholeCut(r)
  BY SplitWrites DEF SoloInv
<1>3. /\ r.slot \in Slot /\ r.first \in Slot /\ r.slot \in Int
      /\ DatesOf(s, dates) \in SUBSET Date /\ dates \in SUBSET Date
      /\ overrides \in SUBSET Override
  BY <1>2, Committed, ConstantsAssumption DEF SoloInv, TypesInv, DatesOf, Slot
<1>4. /\ new # s /\ masters[new].state = "none"
      /\ OverridesOf(new, overrides) = {} /\ DatesOf(new, dates) = {}
  <2>1. new # s /\ masters[new].state = "none"
    BY <1>1 DEF Splits, Free
  <2> QED BY <2>1 DEF SoloInv, AllSound, Sound
<1>5. /\ OverridesOf(s, overrides') = {o \in OverridesOf(s, overrides) : ~(o.slot >= r.slot)}
      /\ OverridesOf(new, overrides') =
           {Handed(o, r, new) : o \in {x \in OverridesOf(s, overrides) : x.slot >= r.slot}}
  <2>1. \A o \in overrides :
          /\ Handed(o, r, new).parent = s <=> o.parent = s /\ ~(o.slot >= r.slot)
          /\ Handed(o, r, new).parent = s => Handed(o, r, new) = o
          /\ Handed(o, r, new).parent = new <=> o.parent = s /\ o.slot >= r.slot
    BY <1>3, <1>4 DEF Handed, OverridesOf, Override
  <2>2. overrides' = {Handed(o, r, new) : o \in overrides}
    BY <1>1 DEF Splits
  <2> QED BY <2>1, <2>2 DEF OverridesOf
<1>6. /\ DatesOf(s, dates') = {d \in DatesOf(s, dates) : ~(d.slot >= r.slot)}
      /\ DatesOf(new, dates') =
           {Passed(d, r, new) : d \in {x \in DatesOf(s, dates) : x.slot >= r.slot}}
  <2>1. \A d \in dates :
          /\ Passed(d, r, new).sid = s <=> d.sid = s /\ ~(d.slot >= r.slot)
          /\ Passed(d, r, new).sid = s => Passed(d, r, new) = d
          /\ Passed(d, r, new).sid = new <=> d.sid = s /\ d.slot >= r.slot
    BY <1>3, <1>4 DEF Passed, DatesOf, Date
  <2>2. dates' = {Passed(d, r, new) : d \in dates}
    BY <1>1 DEF Splits
  <2> QED BY <2>1, <2>2 DEF DatesOf
<1>7. EffectCut(r, s)
  <2>1. masters'[s] = Bumped(FirstHalf(r))
    BY <1>1 DEF Splits
  <2>2. r.op \in {"split", "truncate"}
    BY <1>2
  <2> HIDE DEF r
  <2> QED BY <1>2, <1>5, <1>6, <2>1, <2>2, FirstHalfIsCovered DEF EffectCut, r
<1>8. /\ SlotsOf(OverridesOf(new, overrides')) =
           {c \in SlotsOf(OverridesOf(s, overrides)) : c >= r.slot}
      /\ \A o \in OverridesOf(new, overrides') : o.live
  <2>1. \A o \in OverridesOf(s, overrides) :
          Handed(o, r, new).slot = o.slot /\ Handed(o, r, new).live = o.live /\ o.live
    <3>1. \A o \in OverridesOf(s, overrides) : o.live
      BY <1>2, Current DEF Sound
    <3>2. \A o \in Override : Handed(o, r, new).slot = o.slot /\ Handed(o, r, new).live = o.live
      BY DEF Handed, Override
    <3> QED BY <1>3, <3>1, <3>2 DEF OverridesOf
  <2> QED BY <1>5, <2>1 DEF SlotsOf
<1>9. \A k \in {"exdate", "rdate"} :
        OfKind(k, DatesOf(new, dates')) = {c \in OfKind(k, DatesOf(s, dates)) : c >= r.slot}
  <2>1. \A d \in DatesOf(s, dates) :
          Passed(d, r, new).slot = d.slot /\ Passed(d, r, new).kind = d.kind
    <3>1. \A d \in Date : Passed(d, r, new).slot = d.slot /\ Passed(d, r, new).kind = d.kind
      BY DEF Passed, Date
    <3> QED BY <1>3, <3>1
  <2> QED BY <1>6, <2>1 DEF OfKind
<1>10. \A d \in DatesOf(new, dates') : d.slot >= r.slot
  BY <1>3, <1>6 DEF Passed, Date
<1>11. r.target.rule # Nothing /\ r.rule # Nothing /\ r.dates = DatesOf(s, dates)
  BY <1>2, Current DEF Committing, Refused, RefusedUnread, NeedsDates, Deletes
<1>12. /\ GoodRule(SecondRule(r)) /\ SecondRule(r) # Nothing
       /\ SecondRule(r) = RemainderRule(masters[s], r.rule, r.slot)
  <2>1. GoodRule(r.rule)
    BY <1>2, Committed DEF SoloInv
  <2>2. SecondRule(r) = RemainderRule(masters[s], r.rule, r.slot)
    BY <1>2, Current, CutsTheRow DEF SecondRule
  <2>3. masters[s].first \in Slot /\ GoodRule(masters[s].rule)
    BY <1>2, Current
  <2> QED BY <1>3, <1>7, <1>11, <2>1, <2>2, <2>3, CutRulesAreGood DEF EffectCut
<1>13. LaterDates(r) = OfKind("rdate", DatesOf(new, dates')) /\ LaterDates(r) \in SUBSET Slot
  <2>1. OfKind("rdate", DatesOf(s, dates)) \in SUBSET Slot
    BY <1>3, DatesAreSlots
  <2>2. \A c \in OfKind("rdate", DatesOf(s, dates)) : c \in Int
    BY <2>1, ConstantsAssumption DEF Slot
  <2>3. LaterDates(r) = {c \in OfKind("rdate", DatesOf(s, dates)) : c >= r.slot}
    BY <1>3, <1>11, <2>2 DEF LaterDates, EarlierDates
  <2> QED BY <1>9, <2>1, <2>3
<1>14. LET n == masters'[new] IN
       /\ n.state = "live" /\ n.first = r.first /\ n.rule = SecondRule(r)
       /\ n.end = SeriesEnd(r.first, SecondRule(r), LaterDates(r))
  BY <1>1 DEF Splits, SecondHalf, NewMaster
<1>15. Covered(masters'[new], DatesOf(new, dates'))
  BY <1>3, <1>12, <1>13, <1>14, SeriesEndCovers DEF Covered
<1>16. EffectTail(r, s, new)
  BY <1>4, <1>8, <1>9, <1>10, <1>12, <1>14, <1>15 DEF EffectTail
<1>17. ASSUME NEW x \in Sid \ {s, new} PROVE Unmoved(x)
  <2>1. CASE masters[x].state # "none"
    BY <2>1, SplitSparesOthers DEF SoloInv
  <2>2. CASE masters[x].state = "none"
    <3>1. OverridesOf(x, overrides) = {} /\ DatesOf(x, dates) = {}
      BY <2>2 DEF SoloInv, AllSound, Sound
    <3>2. \A o \in overrides : Handed(o, r, new).parent # x
      BY <1>3, <3>1 DEF Handed, OverridesOf, Override
    <3>3. \A d \in dates : Passed(d, r, new).sid # x
      BY <1>3, <3>1 DEF Passed, DatesOf, Date
    <3>4. {o \in overrides' : o.parent = x} = {} /\ DatesOf(x, dates') = {}
      BY <1>1, <3>2, <3>3 DEF Splits, DatesOf
    <3>5. masters'[x] = masters[x]
      BY <1>1 DEF Splits
    <3> QED BY <3>1, <3>4, <3>5 DEF Unmoved, OverridesOf
  <2> QED BY <2>1, <2>2
<1> QED BY <1>7, <1>16, <1>17

-------------------------------------------------------------------------------
(* One request at a time: the invariant.                                    *)

LEMMA UnmovedIsSound ==
  ASSUME SoloInv, NEW x \in Sid, Unmoved(x)
  PROVE  Sound(masters'[x], OverridesOf(x, overrides'), DatesOf(x, dates'))
BY DEF Unmoved, SoloInv, AllSound, OverridesOf

\* A commit leaves no request under way.
LEMMA NoneLeft ==
  ASSUME Alone, SoloInv, NEW a \in Actor, Committing(a, req[a])
  PROVE  Fresh'
<1>1. \A b \in Actor : req'[b] = Nothing
  BY Committed DEF Alone, SoloInv
<1> QED BY <1>1 DEF Fresh

\* A write to the series s, that leaves it sound and the others alone.
LEMMA OneSeriesWritten ==
  ASSUME SoloInv, NEW s \in Sid, \A x \in Sid \ {s} : Unmoved(x),
         Sound(masters'[s], OverridesOf(s, overrides'), DatesOf(s, dates'))
  PROVE  AllSound'
BY UnmovedIsSound DEF AllSound

LEMMA SoloWhole ==
  ASSUME SoloInv, NEW a \in Actor, NEW s \in Sid, req[a].sid = s, UpdateWholeEvent(a)
  PROVE  AllSound'
<1>1. EffectWhole(req[a], s)
  BY WholeDoes
<1>2. Sound(masters[s], OverridesOf(s, overrides), DatesOf(s, dates)) /\ masters[s].state = "live"
  BY Current DEF UpdateWholeEvent
<1>3. Sound(masters'[s], OverridesOf(s, overrides'), DatesOf(s, dates'))
  BY <1>1, <1>2 DEF EffectWhole, Sound
<1> QED BY <1>1, <1>3, OneSeriesWritten DEF EffectWhole

LEMMA SoloScoped ==
  ASSUME SoloInv, NEW a \in Actor, NEW s \in Sid, req[a].sid = s,
         \/ UpdateOccurrence(a) \/ SoftDeleteEvent(a)
         \/ SkipOccurrence(a) \/ TruncateSeries(a) \/ SetRecurrenceDate(a)
  PROVE  AllSound'
<1>1. \A x \in Sid \ {s} : Unmoved(x)
  BY OthersUnmoved DEF SoloInv
<1>2. Committing(a, req[a])
  BY DEF UpdateOccurrence, SoftDeleteEvent, SkipOccurrence, TruncateSeries, SetRecurrenceDate
<1>3. Sound(masters[s], OverridesOf(s, overrides), DatesOf(s, dates)) /\ masters[s].state = "live"
  BY <1>2, Current
<1>4. Sound(masters'[s], OverridesOf(s, overrides'), DatesOf(s, dates'))
  <2>1. CASE UpdateOccurrence(a)
    BY <1>3, <2>1, ThisDoes DEF EffectThis, SameRow, Sound, Covered
  <2>2. CASE SoftDeleteEvent(a)
    BY <1>3, <2>2, DeleteDoes DEF EffectDelete, Sound
  <2>3. CASE SkipOccurrence(a)
    <3>1. EffectSkip(req[a], s)
      BY <2>3, SkipDoes
    <3>2. OfKind("rdate", DatesOf(s, dates')) = OfKind("rdate", DatesOf(s, dates))
      BY <3>1 DEF EffectSkip, OfKind
    <3> QED BY <1>3, <3>1, <3>2 DEF EffectSkip, SameRow, Sound, Covered
  <2>4. CASE TruncateSeries(a)
    BY <1>3, <2>4, TruncateDoes DEF EffectCut, Sound
  <2>5. CASE SetRecurrenceDate(a)
    BY <1>3, <2>5, DateDoes DEF EffectDate, Sound
  <2> QED BY <2>1, <2>2, <2>3, <2>4, <2>5
<1> QED BY <1>1, <1>4, OneSeriesWritten

LEMMA SoloSplit ==
  ASSUME SoloInv, NEW a \in Actor, NEW s \in Sid, req[a].sid = s, SplitSeries(a)
  PROVE  AllSound'
<1>1. PICK new \in Sid : EffectTail(req[a], s, new) /\ \A x \in Sid \ {s, new} : Unmoved(x)
  BY SplitDoes
<1>2. EffectCut(req[a], s)
  BY SplitDoes
<1>3. Sound(masters[s], OverridesOf(s, overrides), DatesOf(s, dates)) /\ masters[s].state = "live"
  BY SplitWrites, Current DEF SoloInv
<1>4. Sound(masters'[s], OverridesOf(s, overrides'), DatesOf(s, dates'))
  BY <1>2, <1>3 DEF EffectCut, Sound
<1>5. Sound(masters'[new], OverridesOf(new, overrides'), DatesOf(new, dates'))
  BY <1>1 DEF EffectTail, Sound
<1> QED BY <1>1, <1>4, <1>5, UnmovedIsSound DEF AllSound

\* A new event is sound, and is not what a request is about.
LEMMA SoloCreate ==
  ASSUME SoloInv, CreateEvent
  PROVE  \E s \in Sid :
           /\ masters[s].state = "none" /\ masters'[s].state = "live"
           /\ did' = [op |-> "all", sid |-> s, slot |-> did'.slot]
           /\ OverridesOf(s, overrides') = {} /\ DatesOf(s, dates') = {}
           /\ Sound(masters'[s], OverridesOf(s, overrides'), DatesOf(s, dates'))
           /\ \A x \in Sid \ {s} : Unmoved(x)
<1>1. PICK s \in Free, first \in Starts, rule \in Rules :
        /\ masters' = [masters EXCEPT ![s] = NewMaster(first, rule, SeriesEnd(first, rule, {}))]
        /\ did' = [op |-> "all", sid |-> s, slot |-> first]
  BY DEF CreateEvent
<1> DEFINE n == NewMaster(first, rule, SeriesEnd(first, rule, {}))
<1>2. s \in Sid /\ masters[s].state = "none"
  BY DEF Free
<1>3. UNCHANGED <<overrides, dates>>
  BY DEF CreateEvent
<1>4. OverridesOf(s, overrides') = {} /\ DatesOf(s, dates') = {}
  BY <1>2, <1>3 DEF SoloInv, AllSound, Sound
<1>5. masters'[s] = n
  BY <1>1, <1>2 DEF SoloInv, TypesInv
<1>6. first \in Slot /\ GoodRule(rule)
  BY ConstantsAssumption, RulesAreGood
<1>7. /\ n.state = "live" /\ n.rule = rule /\ n.first = first
      /\ n.end = SeriesEnd(first, rule, {})
  BY DEF NewMaster
<1>8. rule # Nothing => Covered(n, {})
  BY <1>6, <1>7, SeriesEndCovers DEF Covered, OfKind
<1>9. Sound(masters'[s], OverridesOf(s, overrides'), DatesOf(s, dates'))
  BY <1>4, <1>5, <1>7, <1>8 DEF Sound
<1>10. \A x \in Sid \ {s} : Unmoved(x)
  BY <1>1, <1>3 DEF Unmoved, SoloInv, TypesInv
<1>11. did' = [op |-> "all", sid |-> s, slot |-> did'.slot]
  BY <1>1
<1> QED BY <1>2, <1>4, <1>5, <1>7, <1>9, <1>10, <1>11

LEMMA SoloStep == ASSUME Alone PROVE SoloInv /\ [Next]_vars => SoloInv'
<1> SUFFICES ASSUME Alone, SoloInv, [Next]_vars PROVE SoloInv'
  OBVIOUS
<1>1. TypesInv' /\ UidInv'
  BY TypesStep, UidStep DEF SoloInv
<1>2. Fresh' /\ AllSound'
  <2>1. CASE CreateEvent
    <3>1. PICK s \in Sid :
            /\ masters[s].state = "none"
            /\ Sound(masters'[s], OverridesOf(s, overrides'), DatesOf(s, dates'))
            /\ \A x \in Sid \ {s} : Unmoved(x)
      BY <2>1, SoloCreate
    <3>2. AllSound'
      BY <3>1, OneSeriesWritten
    <3>3. UNCHANGED <<req, dates>>
      BY <2>1 DEF CreateEvent
    <3>4. ASSUME NEW b \in Actor, req[b] # Nothing
          PROVE  masters'[req[b].sid] = masters[req[b].sid]
      <4>1. req[b].sid \in Sid /\ req[b].sid # s
        BY <3>1, <3>4 DEF SoloInv, Fresh, UidInv, RequestsShaped
      <4> QED BY <3>1, <4>1 DEF Unmoved
    <3>5. Fresh'
      BY <3>3, <3>4 DEF SoloInv, Fresh
    <3> QED BY <3>2, <3>5
  <2>2. ASSUME NEW a \in Actor, Ask(a) PROVE Fresh' /\ AllSound'
    <3>0. PICK s \in Sid : \E r \in InputsFor(s) :
            masters[s].state = "live" /\ req' = [req EXCEPT ![a] = r]
      BY <2>2 DEF Ask
    <3>1. PICK r \in InputsFor(s) : masters[s].state = "live" /\ req' = [req EXCEPT ![a] = r]
      BY <3>0
    <3>2. /\ r.sid = s /\ ~r.read
          /\ r.target.first = masters[s].first /\ r.target.rule = masters[s].rule
      BY <3>1, InputsAreGood DEF SoloInv
    <3>3. UNCHANGED <<masters, overrides, dates>>
      BY <2>2 DEF Ask
    <3>4. \A b \in Actor : req'[b] = IF b = a THEN r ELSE req[b]
      BY <3>1 DEF SoloInv, TypesInv
    <3> QED BY <3>1, <3>2, <3>3, <3>4 DEF SoloInv, Fresh, AllSound
  <2>3. ASSUME NEW a \in Actor, Refuse(a) PROVE Fresh' /\ AllSound'
    <3>1. UNCHANGED <<masters, overrides, dates>>
      BY <2>3 DEF Refuse
    <3>2. \A b \in Actor : req'[b] = Nothing \/ req'[b] = req[b]
      BY <2>3 DEF Refuse, SoloInv, TypesInv
    <3> QED BY <3>1, <3>2 DEF SoloInv, Fresh, AllSound
  <2>4. ASSUME NEW a \in Actor, ReadDates(a) PROVE Fresh' /\ AllSound'
    <3> DEFINE q == [req[a] EXCEPT !.read = TRUE, !.dates = DatesOf(req[a].sid, dates)]
    <3>1. req' = [req EXCEPT ![a] = q] /\ req[a] # Nothing
          /\ UNCHANGED <<masters, overrides, dates>>
      BY <2>4 DEF ReadDates
    <3>2. /\ q.sid = req[a].sid /\ q.target = req[a].target
          /\ q.dates = DatesOf(q.sid, dates)
      BY <3>1 DEF SoloInv, UidInv, RequestsShaped
    <3> HIDE DEF q
    <3>3. \A b \in Actor : req'[b] = IF b = a THEN q ELSE req[b]
      BY <3>1 DEF SoloInv, TypesInv
    <3> QED BY <3>1, <3>2, <3>3 DEF SoloInv, Fresh, AllSound
  <2>5. ASSUME NEW a \in Actor,
               \/ UpdateWholeEvent(a) \/ UpdateOccurrence(a) \/ SplitSeries(a)
               \/ SoftDeleteEvent(a) \/ SkipOccurrence(a) \/ TruncateSeries(a)
               \/ SetRecurrenceDate(a)
        PROVE  Fresh' /\ AllSound'
    <3>1. Committing(a, req[a])
      BY <2>5, ZenonT(30)
      DEF UpdateWholeEvent, UpdateOccurrence, SplitSeries, SoftDeleteEvent, SkipOccurrence,
          TruncateSeries, SetRecurrenceDate
    <3>2. req[a].sid \in Sid
      BY <3>1, Committed DEF SoloInv
    <3> QED BY <2>5, <3>1, <3>2, NoneLeft, SoloWhole, SoloScoped, SoloSplit
  <2>6. CASE UNCHANGED vars
    BY <2>6 DEF vars, SoloInv, Fresh, AllSound
  <2> QED BY <2>1, <2>2, <2>3, <2>4, <2>5, <2>6 DEF Next
<1> QED BY <1>1, <1>2 DEF SoloInv

LEMMA SoloStart == Init => SoloInv
<1> SUFFICES ASSUME Init PROVE SoloInv
  OBVIOUS
<1>1. TypesInv /\ UidInv
  BY TypesStart, UidStart
<1>2. req = [a \in Actor |-> Nothing] /\ overrides = {} /\ dates = {}
  BY DEF Init
<1>3. PICK s \in Sid, first \in Starts, rule \in Rules :
        masters = [x \in Sid |-> IF x = s THEN NewMaster(first, rule, SeriesEnd(first, rule, {}))
                                 ELSE NoMaster]
  BY DEF Init
<1>4. first \in Slot /\ GoodRule(rule)
  BY ConstantsAssumption, RulesAreGood
<1>5. rule # Nothing => Covered(NewMaster(first, rule, SeriesEnd(first, rule, {})), {})
  BY <1>4, SeriesEndCovers DEF Covered, OfKind, NewMaster
<1>6. NoMaster.state = "none"
  BY DEF NoMaster, NewMaster
<1>7. ASSUME NEW x \in Sid
      PROVE  Sound(masters[x], OverridesOf(x, overrides), DatesOf(x, dates))
  <2>1. OverridesOf(x, overrides) = {} /\ DatesOf(x, dates) = {}
    BY <1>2 DEF OverridesOf, DatesOf
  <2>2. CASE x = s
    <3>1. masters[x] = NewMaster(first, rule, SeriesEnd(first, rule, {}))
      BY <1>3, <2>2
    <3>2. masters[x].rule = rule
      BY <3>1 DEF NewMaster
    <3> QED BY <1>5, <2>1, <3>1, <3>2 DEF Sound
  <2>3. CASE x # s
    BY <1>3, <1>6, <2>1, <2>3 DEF Sound
  <2> QED BY <2>2, <2>3
<1>8. Fresh /\ AllSound
  BY <1>2, <1>7 DEF Fresh, AllSound
<1> QED BY <1>1, <1>8 DEF SoloInv

LEMMA SoloAlways == ASSUME Alone PROVE Spec => []SoloInv
<1>1. SoloInv /\ [Next]_vars => SoloInv'
  BY SoloStep
<1> QED BY <1>1, SoloStart, PTL DEF Spec

\* Writes that do not race: no occurrence of a live series lies past its
\* series_end_at, however series are edited, split, cut and added to.  (Two
\* that race break it: a whole edit that read the dates before one was added.)
THEOREM SeriesEndsHold == ASSUME Alone PROVE Spec => []EndCovers
<1>1. SoloInv => EndCovers
  BY DEF SoloInv, AllSound, Sound, Covered, EndCovers, EndCoversOf, Generated
<1> QED BY <1>1, SoloAlways, PTL

\* Writes that do not race: an override is live exactly when its series is.
\* (Two that race break it: an edit of one occurrence, and a deletion.)
THEOREM OverridesLiveAndDie == ASSUME Alone PROVE Spec => []OverridesFollowTheirMaster
<1>1. SoloInv => OverridesFollowTheirMaster
  <2> SUFFICES ASSUME SoloInv, NEW o \in overrides
               PROVE  o.live <=> masters[o.parent].state = "live"
    BY DEF OverridesFollowTheirMaster
  <2>1. o.parent \in Sid
    BY DEF SoloInv, UidInv, OverridesShaped
  <2> QED BY <2>1 DEF SoloInv, AllSound, Sound, OverridesOf
<1> QED BY <1>1, SoloAlways, PTL

LEMMA SequenceStep ==
  SoloInv /\ [Next]_vars =>
    [\A s \in Sid :
       masters[s].state # "none" /\ Ics(s)' # Ics(s) => masters'[s].seq > masters[s].seq]_vars
<1> SUFFICES ASSUME SoloInv, [Next]_vars, ~(UNCHANGED vars), NEW s \in Sid,
                    masters[s].state # "none", Ics(s)' # Ics(s)
             PROVE  masters'[s].seq > masters[s].seq
  OBVIOUS
<1>1. CASE ~(\E a \in Actor : UpdateWholeEvent(a))
  BY <1>1, ScopedStep DEF SoloInv
<1>2. ASSUME NEW a \in Actor, UpdateWholeEvent(a) PROVE masters'[s].seq > masters[s].seq
  <2>1. Committing(a, req[a])
    BY <1>2 DEF UpdateWholeEvent
  <2>2. PICK t \in Sid : t = req[a].sid
    BY <2>1, Committed DEF SoloInv
  <2>3. EffectWhole(req[a], t)
    BY <1>2, <2>2, WholeDoes
  <2>4. ~Unmoved(s)
    BY UnmovedIsUnchanged
  <2>5. t = s
    BY <2>3, <2>4 DEF EffectWhole
  <2> QED BY <2>3, <2>5 DEF EffectWhole
<1> QED BY <1>1, <1>2

\* Writes that do not race: each that changes what the .ics of a series says
\* raises its SEQUENCE, the edits of the whole series among them, though the
\* change a guest would see is compared with another row than the one they drop
\* the dates for.
THEOREM SequenceAlwaysRises == ASSUME Alone PROVE Spec => SequenceRises
BY SoloAlways, SequenceStep, PTL DEF Spec, SequenceRises

-------------------------------------------------------------------------------
(* How many occurrences lie before a cut.                                   *)

LEMMA BeforeIsExact ==
  ASSUME NEW m, NEW c \in Slot, m.first \in Slot, GoodRule(m.rule), m.rule # Nothing,
         m.rule.kind = "count", m.first <= c
  PROVE  LET k == (c - m.first + 1) \div 2 IN
         Before(m, c) = IF k <= m.rule.at THEN k ELSE m.rule.at
<1> DEFINE first == m.first
           at == m.rule.at
           k == (c - first + 1) \div 2
           n == IF k <= at THEN k ELSE at
           S == {s \in RuleSlots(m.first, m.rule) : s < c}
           f == [i \in 1 .. n |-> first + 2 * (i - 1)]
<1>1. Horizon \in Nat /\ first \in 0 .. Horizon /\ c \in 0 .. Horizon /\ first <= c /\ at \in Nat
  BY ConstantsAssumption DEF Slot, GoodRule, Rule
<1>2. S = {s \in 0 .. Horizon : /\ s >= first /\ (s - first) % 2 = 0
                                /\ (s - first) \div 2 < at /\ s < c}
  BY DEF RuleSlots, Slot, Stride
<1> HIDE DEF first, at, S
<1>3. k \in Nat /\ 2 * k <= c - first + 1 /\ c - first <= 2 * k
  BY <1>1
<1> HIDE DEF k
<1>4. n \in Nat /\ n <= k /\ n <= at /\ (n = k \/ n = at)
  BY <1>1, <1>3
<1> HIDE DEF n
<1>5. ASSUME NEW i \in 1 .. n PROVE first + 2 * (i - 1) \in S
  <2>1. i \in Nat /\ i <= n /\ i >= 1
    BY <1>4
  <2> DEFINE s == first + 2 * (i - 1)
  <2>2. s \in Int /\ s - first = 2 * (i - 1)
    BY <1>1, <2>1
  <2>3. s >= first /\ s < c
    BY <1>1, <1>3, <1>4, <2>1
  <2>4. (s - first) % 2 = 0 /\ (s - first) \div 2 = i - 1
    BY <2>1, <2>2
  <2> HIDE DEF s
  <2>5. s \in 0 .. Horizon /\ (s - first) \div 2 < at
    BY <1>1, <1>4, <2>1, <2>2, <2>3, <2>4
  <2> QED BY <1>2, <2>3, <2>4, <2>5 DEF s
<1>6. f \in [1 .. n -> S]
  BY <1>5
<1>7. \A i, j \in 1 .. n : f[i] = f[j] => i = j
  BY <1>1, <1>4
<1>8. ASSUME NEW s \in S PROVE \E i \in 1 .. n : f[i] = s
  <2> DEFINE i == (s - first) \div 2 + 1
  <2>1. s \in 0 .. Horizon /\ s >= first /\ (s - first) % 2 = 0 /\ (s - first) \div 2 < at /\ s < c
    BY <1>2
  <2>2. s - first = 2 * (i - 1) /\ i \in Int /\ i >= 1
    BY <1>1, <2>1
  <2>3. i <= at
    BY <1>1, <2>1, <2>2
  <2>4. i <= k
    BY <1>1, <1>3, <2>1, <2>2
  <2> HIDE DEF i
  <2>5. i \in 1 .. n
    BY <1>4, <2>2, <2>3, <2>4
  <2>6. first + 2 * (i - 1) = s
    BY <1>1, <2>1, <2>2
  <2> QED BY <2>5, <2>6
<1> HIDE DEF f
<1>9. f \in Bijection(1 .. n, S)
  BY <1>6, <1>7, <1>8 DEF Bijection, Injection, Surjection, IsInjective
<1>10. ExistsBijection(1 .. n, S)
  BY <1>9 DEF ExistsBijection
<1>11. Cardinality(S) = n
  BY <1>4, <1>10, FS_CountingElements
<1> QED BY <1>11 DEF Before, S, n, k, first, at

\* The rule a cut leaves generates the occurrences before the cut, and the rule
\* it hands on, if it starts at an occurrence, the others.
LEMMA CutsInTwo ==
  ASSUME NEW m, NEW c \in Slot, m.first \in Slot, GoodRule(m.rule), m.rule # Nothing,
         Before(m, c) # 0, ~CutRefused(m, c)
  PROVE  /\ m.first < c
         /\ RuleSlots(m.first, BoundedRule(m, c)) = {s \in RuleSlots(m.first, m.rule) : s < c}
         /\ c \in RuleSlots(m.first, m.rule) =>
              RuleSlots(c, RemainderRule(m, m.rule, c)) =
                {s \in RuleSlots(m.first, m.rule) : s >= c}
<1> DEFINE first == m.first
           kind == m.rule.kind
           at == m.rule.at
           b == Before(m, c)
           bounded == BoundedRule(m, c)
           second == RemainderRule(m, m.rule, c)
<1>1. /\ Horizon \in Nat /\ first \in 0 .. Horizon /\ c \in 0 .. Horizon /\ at \in Nat
      /\ kind \in {"open", "until", "count"}
  BY ConstantsAssumption DEF Slot, GoodRule, Rule
<1>2. first < c
  <2>1. PICK s \in RuleSlots(m.first, m.rule) : s < c
    BY BeforeIsNatural
  <2>2. s \in 0 .. Horizon /\ s >= first
    BY <2>1 DEF RuleSlots, Slot
  <2> QED BY <1>1, <2>1, <2>2
<1>3. b \in Nat
  BY BeforeIsNatural
<1>4. \A n \in Nat, x \in {"until", "count"} : [kind |-> x, at |-> n] # Nothing
  BY ConstantsAssumption
<1>5. CASE kind # "count"
  <2>1. /\ bounded = [kind |-> "until", at |-> c - 1] /\ bounded # Nothing
        /\ second = m.rule
    <3>1. c - 1 \in Nat
      BY <1>1, <1>2
    <3> QED BY <1>4, <1>5, <3>1 DEF BoundedRule, RemainderRule
  <2>2. kind = "until" => c <= at
    BY <1>1 DEF CutRefused
  <2>3. RuleSlots(m.first, bounded) = {s \in RuleSlots(m.first, m.rule) : s < c}
    <3>1. \A s \in 0 .. Horizon : s <= c - 1 <=> s < c
      BY <1>1
    <3>2. RuleSlots(m.first, bounded) =
            {s \in Slot : s >= m.first /\ (s - m.first) % Stride = 0 /\ s <= c - 1}
      BY <2>1 DEF RuleSlots
    <3>3. RuleSlots(m.first, m.rule) =
            {s \in Slot : /\ s >= m.first /\ (s - m.first) % Stride = 0
                          /\ kind = "until" => s <= at}
      BY <1>5 DEF RuleSlots
    <3>4. kind = "until" => \A s \in 0 .. Horizon : s < c => s <= at
      BY <1>1, <2>2
    <3> QED BY <3>1, <3>2, <3>3, <3>4 DEF Slot
  <2>4. c \in RuleSlots(m.first, m.rule) =>
          RuleSlots(c, second) = {s \in RuleSlots(m.first, m.rule) : s >= c}
    <3> SUFFICES ASSUME c \in RuleSlots(m.first, m.rule)
                 PROVE  RuleSlots(c, second) = {s \in RuleSlots(m.first, m.rule) : s >= c}
      OBVIOUS
    <3>1. (c - first) % 2 = 0
      BY DEF RuleSlots, Stride
    <3>2. \A s \in 0 .. Horizon :
            s >= c => s >= first /\ ((s - c) % 2 = 0 <=> (s - first) % 2 = 0)
      BY <1>1, <1>2, <3>1
    <3>3. RuleSlots(c, second) =
            {s \in Slot : s >= c /\ (s - c) % 2 = 0 /\ (kind = "until" => s <= at)}
      BY <1>5, <2>1 DEF RuleSlots, Stride
    <3>4. RuleSlots(m.first, m.rule) =
            {s \in Slot : s >= first /\ (s - first) % 2 = 0 /\ (kind = "until" => s <= at)}
      BY <1>5 DEF RuleSlots, Stride
    <3> QED BY <3>2, <3>3, <3>4 DEF Slot
  <2> QED BY <1>2, <2>3, <2>4
<1>6. CASE kind = "count"
  <2> DEFINE k == (c - first + 1) \div 2
  <2>1. b = IF k <= at THEN k ELSE at
    BY <1>1, <1>2, <1>6, BeforeIsExact
  <2>2. b < at
    BY <1>1, <1>3, <1>6 DEF CutRefused
  <2>3. b = k
    BY <1>1, <2>1, <2>2
  <2>4. 2 * k <= c - first + 1 /\ c - first <= 2 * k /\ k \in Nat
    BY <1>1, <1>2
  <2>5. /\ bounded = [kind |-> "count", at |-> b] /\ bounded # Nothing
        /\ second = [kind |-> "count", at |-> at - b] /\ second # Nothing
    <3>1. at - b \in Nat
      BY <1>1, <1>3, <2>2
    <3>2. m.rule = [kind |-> "count", at |-> at]
      BY <1>6 DEF GoodRule, Rule
    <3> QED BY <1>3, <1>4, <1>6, <3>1, <3>2 DEF BoundedRule, RemainderRule
  <2> HIDE DEF k, b
  <2>6. RuleSlots(m.first, m.rule) =
          {s \in Slot : s >= first /\ (s - first) % 2 = 0 /\ (s - first) \div 2 < at}
    BY <1>6 DEF RuleSlots, Stride
  <2>7. RuleSlots(m.first, bounded) = {s \in RuleSlots(m.first, m.rule) : s < c}
    <3>1. RuleSlots(m.first, bounded) =
            {s \in Slot : s >= first /\ (s - first) % 2 = 0 /\ (s - first) \div 2 < b}
      BY <2>5 DEF RuleSlots, Stride
    <3>2. \A s \in 0 .. Horizon : s >= first /\ (s - first) % 2 = 0 =>
            ((s - first) \div 2 < b <=> (s - first) \div 2 < at /\ s < c)
      BY <1>1, <1>2, <1>3, <2>2, <2>3, <2>4
    <3> QED BY <2>6, <3>1, <3>2 DEF Slot
  <2>8. c \in RuleSlots(m.first, m.rule) =>
          RuleSlots(c, second) = {s \in RuleSlots(m.first, m.rule) : s >= c}
    <3> SUFFICES ASSUME c \in RuleSlots(m.first, m.rule)
                 PROVE  RuleSlots(c, second) = {s \in RuleSlots(m.first, m.rule) : s >= c}
      OBVIOUS
    <3>1. (c - first) % 2 = 0
      BY DEF RuleSlots, Stride
    <3>2. c - first = 2 * b
      BY <1>1, <1>2, <2>3, <2>4, <3>1
    <3>3. \A s \in 0 .. Horizon : s >= c =>
            /\ s >= first
            /\ (s - c) % 2 = 0 <=> (s - first) % 2 = 0
            /\ (s - c) % 2 = 0 => ((s - c) \div 2 < at - b <=> (s - first) \div 2 < at)
      BY <1>1, <1>2, <1>3, <2>2, <3>2
    <3>4. RuleSlots(c, second) =
            {s \in Slot : s >= c /\ (s - c) % 2 = 0 /\ (s - c) \div 2 < at - b}
      BY <2>5 DEF RuleSlots, Stride
    <3> QED BY <2>6, <3>3, <3>4 DEF Slot
  <2> QED BY <1>2, <2>7, <2>8
<1> QED BY <1>5, <1>6

-------------------------------------------------------------------------------
(* One request at a time: an edited occurrence stays an occurrence.         *)

\* A request names what InputsFor lets it name.
NamedAsAllowed ==
  \A a \in Actor : req[a] # Nothing =>
    /\ req[a].op \in Ops
    /\ ~EarlyDates => req[a].slot >= req[a].target.first
    /\ req[a].op = "split" /\ ~MovedSplits =>
         /\ req[a].first = req[a].slot /\ req[a].rule = req[a].target.rule
         /\ req[a].slot \in RuleSlots(req[a].target.first, req[a].target.rule)

LEMMA NamedStart == Init => NamedAsAllowed
BY DEF Init, NamedAsAllowed

LEMMA NamedStep == SoloInv /\ NamedAsAllowed /\ [Next]_vars => NamedAsAllowed'
<1> SUFFICES ASSUME SoloInv, NamedAsAllowed, [Next]_vars PROVE NamedAsAllowed'
  OBVIOUS
<1>1. ASSUME NEW a \in Actor, Ask(a) PROVE NamedAsAllowed'
  <2>1. PICK s \in Sid : \E r \in InputsFor(s) : r.op \in Ops /\ req' = [req EXCEPT ![a] = r]
    BY <1>1 DEF Ask
  <2>2. PICK r \in InputsFor(s) : r.op \in Ops /\ req' = [req EXCEPT ![a] = r]
    BY <2>1
  <2> DEFINE m == masters[s]
             named == {c \in Slot : EarlyDates \/ c >= m.first}
             Allowed(q) ==
               /\ ~EarlyDates => q.slot >= q.target.first
               /\ q.op = "split" /\ ~MovedSplits =>
                    /\ q.first = q.slot /\ q.rule = q.target.rule
                    /\ q.slot \in RuleSlots(q.target.first, q.target.rule)
  <2>3. m.first \in Slot /\ \A c \in RuleSlots(m.first, m.rule) : c \in Slot /\ c >= m.first
    <3>1. GoodRow(m)
      BY DEF SoloInv, TypesInv
    <3>2. m.first \in Slot /\ m.first >= m.first
      BY <3>1, ConstantsAssumption DEF GoodRow, Master, Slot
    <3> HIDE DEF m
    <3> QED BY <3>2 DEF RuleSlots
  <2>4. m.first >= m.first
    BY <2>3, ConstantsAssumption DEF Slot
  <2>5. Allowed(r)
    <3>1. CASE r \in {Asked(op, s, c, m.first, m.rule) :
                        op \in {"this", "skip", "truncate", "exdate", "rdate"}, c \in named}
      BY <3>1 DEF Asked
    <3>2. CASE r = Asked("delete", s, m.first, m.first, m.rule)
      BY <2>4, <3>2 DEF Asked
    <3>3. CASE r \in {Asked("all", s, m.first, first, rule) : first \in Starts, rule \in Rules}
      BY <2>4, <3>3 DEF Asked
    <3>4. CASE r \in {Asked("split", s, c, c, m.rule) : c \in RuleSlots(m.first, m.rule)}
      BY <2>3, <3>4 DEF Asked
    <3>5. CASE r \in {Asked("split", s, c, first, rule) :
                        c \in named, first \in {first \in Starts : MovedSplits}, rule \in Rules}
      BY <3>5 DEF Asked
    <3> QED BY <3>1, <3>2, <3>3, <3>4, <3>5 DEF InputsFor
  <2>6. \A b \in Actor : req'[b] = IF b = a THEN r ELSE req[b]
    BY <2>2 DEF SoloInv, TypesInv
  <2> QED BY <2>2, <2>5, <2>6 DEF NamedAsAllowed
<1>2. ASSUME NEW a \in Actor, ReadDates(a) PROVE NamedAsAllowed'
  <2> DEFINE q == [req[a] EXCEPT !.read = TRUE, !.dates = DatesOf(req[a].sid, dates)]
  <2>1. req' = [req EXCEPT ![a] = q] /\ req[a] # Nothing
    BY <1>2 DEF ReadDates
  <2>2. /\ q.op = req[a].op /\ q.slot = req[a].slot /\ q.first = req[a].first
        /\ q.rule = req[a].rule /\ q.target = req[a].target
    BY <2>1 DEF SoloInv, UidInv, RequestsShaped
  <2> HIDE DEF q
  <2>3. \A b \in Actor : req'[b] = IF b = a THEN q ELSE req[b]
    BY <2>1 DEF SoloInv, TypesInv
  <2> QED BY <2>1, <2>2, <2>3 DEF NamedAsAllowed
<1>3. ASSUME NEW a \in Actor, Committing(a, req[a]) \/ Refuse(a) PROVE NamedAsAllowed'
  <2>1. \A b \in Actor : req'[b] = Nothing \/ req'[b] = req[b]
    BY <1>3 DEF Committing, Refuse, SoloInv, TypesInv
  <2> QED BY <2>1 DEF NamedAsAllowed
<1>4. CASE UNCHANGED req
  BY <1>4 DEF NamedAsAllowed
<1>5. \/ UNCHANGED req
      \/ \E a \in Actor : Ask(a) \/ ReadDates(a) \/ Committing(a, req[a]) \/ Refuse(a)
  <2>1. CASE CreateEvent \/ UNCHANGED vars
    BY <2>1 DEF CreateEvent, vars
  <2>2. ASSUME NEW a \in Actor,
               \/ UpdateWholeEvent(a) \/ UpdateOccurrence(a) \/ SplitSeries(a)
               \/ SoftDeleteEvent(a) \/ SkipOccurrence(a) \/ TruncateSeries(a)
               \/ SetRecurrenceDate(a)
        PROVE  Committing(a, req[a])
    BY <2>2, ZenonT(30)
    DEF UpdateWholeEvent, UpdateOccurrence, SplitSeries, SoftDeleteEvent, SkipOccurrence,
        TruncateSeries, SetRecurrenceDate
  <2> QED BY <2>1, <2>2 DEF Next
<1> QED BY <1>1, <1>2, <1>3, <1>4, <1>5

\* The live overrides of a row are occurrences of it.
Real(m, os, ds) ==
  \A o \in os : o.live => m.rule # Nothing /\ IsOccurrence(m, o.slot, ds)

AllReal == \A s \in Sid : Real(masters[s], OverridesOf(s, overrides), DatesOf(s, dates))

GridInv == SoloInv /\ NamedAsAllowed /\ AllReal

LEMMA UnmovedIsReal ==
  ASSUME GridInv, NEW x \in Sid, Unmoved(x)
  PROVE  Real(masters'[x], OverridesOf(x, overrides'), DatesOf(x, dates'))
BY DEF Unmoved, GridInv, AllReal, OverridesOf

\* Slots are numbers, those of overrides and dates among them.
LEMMA SlotsAreNumbers ==
  ASSUME SoloInv, NEW s
  PROVE  /\ \A c \in Slot : c \in Int
         /\ \A o \in OverridesOf(s, overrides) : o.slot \in Slot
         /\ \A d \in DatesOf(s, dates) : d.slot \in Slot
         /\ SlotsOf(OverridesOf(s, overrides)) \subseteq Slot
         /\ \A k : OfKind(k, DatesOf(s, dates)) \subseteq Slot
<1>1. \A c \in Slot : c \in Int
  BY ConstantsAssumption DEF Slot
<1>2. \A o \in overrides : o.slot \in Slot
  BY DEF SoloInv, TypesInv, Override
<1>3. \A d \in dates : d.slot \in Slot
  BY DEF SoloInv, TypesInv, Date
<1> QED BY <1>1, <1>2, <1>3 DEF OverridesOf, DatesOf, SlotsOf, OfKind

\* The dates of a kind, one more being in.
LEMMA DateAdded ==
  ASSUME NEW ds, NEW d, NEW ds2, ds2 = ds \union {d}
  PROVE  \A j : OfKind(j, ds2) = IF j = d.kind THEN OfKind(j, ds) \union {d.slot} ELSE OfKind(j, ds)
BY DEF OfKind

\* The dates before a cut, by kind.
LEMMA DatesBeforeCut ==
  ASSUME SoloInv, NEW s, NEW c \in Slot, NEW k
  PROVE  OfKind(k, {d \in DatesOf(s, dates) : ~(d.slot >= c)}) =
           {x \in OfKind(k, DatesOf(s, dates)) : x < c}
<1>1. \A d \in DatesOf(s, dates) : ~(d.slot >= c) <=> d.slot < c
  BY SlotsAreNumbers
<1> QED BY <1>1 DEF OfKind

LEMMA RealScoped ==
  ASSUME GridInv, "exdate" \notin Ops, NEW a \in Actor, NEW s \in Sid, req[a].sid = s,
         \/ UpdateOccurrence(a) \/ SoftDeleteEvent(a)
         \/ SkipOccurrence(a) \/ SetRecurrenceDate(a)
  PROVE  Real(masters'[s], OverridesOf(s, overrides'), DatesOf(s, dates'))
<1> DEFINE r == req[a]
<1>1. Committing(a, req[a])
  BY DEF UpdateOccurrence, SoftDeleteEvent, SkipOccurrence, SetRecurrenceDate
<1>2. /\ SoloInv /\ Real(masters[s], OverridesOf(s, overrides), DatesOf(s, dates))
      /\ masters[s].state = "live"
      /\ \A o \in OverridesOf(s, overrides) : o.live
  BY <1>1, Current DEF GridInv, AllReal, Sound
<1>3. CASE UpdateOccurrence(a)
  <2>1. EffectThis(r, s)
    BY <1>2, <1>3, ThisDoes
  <2>2. \A c \in SlotsOf(OverridesOf(s, overrides)) : IsOccurrence(masters[s], c, DatesOf(s, dates))
    BY <1>2 DEF SlotsOf, Real
  <2>3. \A o \in OverridesOf(s, overrides') : IsOccurrence(masters[s], o.slot, DatesOf(s, dates))
    BY <2>1, <2>2 DEF EffectThis, SlotsOf
  <2> QED BY <2>1, <2>3 DEF EffectThis, SameRow, Real, IsOccurrence
<1>4. CASE SoftDeleteEvent(a)
  BY <1>2, <1>4, DeleteDoes DEF EffectDelete, Real
<1>5. CASE SkipOccurrence(a)
  <2>1. EffectSkip(r, s)
    BY <1>2, <1>5, SkipDoes
  <2>2. /\ OfKind("rdate", DatesOf(s, dates')) = OfKind("rdate", DatesOf(s, dates))
        /\ OfKind("exdate", DatesOf(s, dates')) =
             OfKind("exdate", DatesOf(s, dates)) \union {r.slot}
    <3> DEFINE ds == DatesOf(s, dates)
               ds2 == DatesOf(s, dates')
               c == r.slot
               d == [sid |-> s, kind |-> "exdate", slot |-> c]
    <3>0. d.kind = "exdate" /\ d.slot = c
      OBVIOUS
    <3>1. ds2 = ds \union {d}
      BY <2>1 DEF EffectSkip
    <3> HIDE DEF ds, ds2, c, d
    <3>2. /\ OfKind("rdate", ds2) = OfKind("rdate", ds)
          /\ OfKind("exdate", ds2) = OfKind("exdate", ds) \union {c}
      BY <3>0, <3>1, DateAdded
    <3> QED BY <3>2 DEF ds, ds2, c
  <2> QED BY <1>2, <2>1, <2>2 DEF EffectSkip, SameRow, Real, IsOccurrence
<1>6. CASE SetRecurrenceDate(a)
  <2>1. EffectDate(r, s)
    BY <1>2, <1>6, DateDoes
  <2>2. r.op = "rdate"
    BY <1>1, <1>6 DEF SetRecurrenceDate, GridInv, NamedAsAllowed, Committing
  <2>3. /\ OfKind("exdate", DatesOf(s, dates')) = OfKind("exdate", DatesOf(s, dates))
        /\ OfKind("rdate", DatesOf(s, dates)) \subseteq OfKind("rdate", DatesOf(s, dates'))
    <3> DEFINE ds == DatesOf(s, dates)
               ds2 == DatesOf(s, dates')
               c == r.slot
               d == [sid |-> s, kind |-> "rdate", slot |-> c]
    <3>0. d.kind = "rdate" /\ d.slot = c
      OBVIOUS
    <3>1. ds2 = ds \union {d}
      BY <2>1, <2>2 DEF EffectDate
    <3> HIDE DEF ds, ds2, c, d
    <3>2. /\ OfKind("exdate", ds2) = OfKind("exdate", ds)
          /\ OfKind("rdate", ds2) = OfKind("rdate", ds) \union {c}
      BY <3>0, <3>1, DateAdded
    <3> QED BY <3>2 DEF ds, ds2
  <2> QED BY <1>2, <2>1, <2>3 DEF EffectDate, Real, IsOccurrence
<1> QED BY <1>3, <1>4, <1>5, <1>6

LEMMA RealCut ==
  ASSUME GridInv, NEW a \in Actor, NEW s \in Sid, req[a].sid = s, Committing(a, req[a]),
         EffectCut(req[a], s)
  PROVE  Real(masters'[s], OverridesOf(s, overrides'), DatesOf(s, dates'))
<1> DEFINE r == req[a]
           m == masters[s]
           n == masters'[s]
<1>1. SoloInv /\ Real(m, OverridesOf(s, overrides), DatesOf(s, dates))
  BY DEF GridInv, AllReal
<1>2. r.slot \in Slot /\ m.first \in Slot /\ GoodRule(m.rule)
  BY <1>1, Committed, Current DEF SoloInv
<1>3. RuleSlots(n.first, n.rule) = {x \in RuleSlots(m.first, m.rule) : x < r.slot}
  BY <1>2, CutsInTwo DEF EffectCut
<1>4. \A k : OfKind(k, DatesOf(s, dates')) = {x \in OfKind(k, DatesOf(s, dates)) : x < r.slot}
  BY <1>1, <1>2, DatesBeforeCut DEF EffectCut
<1>5. \A o \in OverridesOf(s, overrides') : o \in OverridesOf(s, overrides) /\ o.slot < r.slot
  BY <1>1, <1>2, SlotsAreNumbers DEF EffectCut
<1>6. n.rule # Nothing
  BY DEF EffectCut
<1> QED BY <1>1, <1>3, <1>4, <1>5, <1>6 DEF Real, IsOccurrence

\* A split the user changed nothing in: its first occurrence is the one cut at.
LEMMA RealTail ==
  ASSUME GridInv, ~MovedSplits, NEW a \in Actor, NEW s \in Sid, req[a].sid = s,
         Committing(a, req[a]), req[a].op = "split", EffectCut(req[a], s),
         NEW new \in Sid, EffectTail(req[a], s, new)
  PROVE  /\ Real(masters'[new], OverridesOf(new, overrides'), DatesOf(new, dates'))
         /\ masters'[new].first = req[a].slot
         /\ req[a].slot \in RuleSlots(masters[s].first, masters[s].rule)
         /\ RuleSlots(masters'[new].first, masters'[new].rule) =
              {x \in RuleSlots(masters[s].first, masters[s].rule) : x >= req[a].slot}
<1> DEFINE r == req[a]
           m == masters[s]
           n == masters'[new]
<1>1. /\ SoloInv /\ Real(m, OverridesOf(s, overrides), DatesOf(s, dates))
      /\ \A o \in OverridesOf(s, overrides) : o.live
  BY Current DEF GridInv, AllReal, Sound
<1>2. r.slot \in Slot /\ m.first \in Slot /\ GoodRule(m.rule)
  BY <1>1, Committed, Current DEF SoloInv
<1>3. /\ r.first = r.slot /\ r.rule = m.rule /\ r.slot \in RuleSlots(m.first, m.rule)
  BY <1>1, Current DEF GridInv, NamedAsAllowed, Committing
<1>4. n.first = r.slot /\ n.rule = RemainderRule(m, m.rule, r.slot) /\ n.rule # Nothing
  BY <1>3 DEF EffectTail
<1>5. RuleSlots(n.first, n.rule) = {x \in RuleSlots(m.first, m.rule) : x >= r.slot}
  BY <1>2, <1>3, <1>4, CutsInTwo DEF EffectCut
<1>6. \A c \in SlotsOf(OverridesOf(s, overrides)) : IsOccurrence(m, c, DatesOf(s, dates))
  BY <1>1 DEF SlotsOf, Real
<1>7. \A o \in OverridesOf(new, overrides') :
        o.slot >= r.slot /\ IsOccurrence(m, o.slot, DatesOf(s, dates))
  BY <1>6 DEF EffectTail, SlotsOf
<1>8. \A k \in {"exdate", "rdate"} :
        OfKind(k, DatesOf(new, dates')) = {c \in OfKind(k, DatesOf(s, dates)) : c >= r.slot}
  BY DEF EffectTail
<1>9. Real(n, OverridesOf(new, overrides'), DatesOf(new, dates'))
  BY <1>4, <1>5, <1>7, <1>8 DEF Real, IsOccurrence
<1> QED BY <1>3, <1>4, <1>5, <1>9

LEMMA GridStep ==
  ASSUME Alone, ~MovedSplits, "exdate" \notin Ops
  PROVE  GridInv /\ [Next]_vars => GridInv'
<1> SUFFICES ASSUME GridInv, [Next]_vars PROVE GridInv'
  OBVIOUS
<1>1. SoloInv /\ NamedAsAllowed /\ SoloInv' /\ NamedAsAllowed'
  BY SoloStep, NamedStep DEF GridInv
<1>2. AllReal'
  <2>1. CASE CreateEvent
    <3>1. PICK s \in Sid : OverridesOf(s, overrides') = {} /\ \A x \in Sid \ {s} : Unmoved(x)
      BY <1>1, <2>1, SoloCreate
    <3>2. Real(masters'[s], OverridesOf(s, overrides'), DatesOf(s, dates'))
      BY <3>1 DEF Real
    <3> QED BY <3>1, <3>2, UnmovedIsReal DEF AllReal
  <2>2. CASE UNCHANGED <<masters, overrides, dates>>
    BY <2>2 DEF GridInv, AllReal
  <2>3. ASSUME NEW a \in Actor, NEW s \in Sid, req[a].sid = s,
               \/ UpdateOccurrence(a) \/ SoftDeleteEvent(a)
               \/ SkipOccurrence(a) \/ SetRecurrenceDate(a) \/ TruncateSeries(a)
        PROVE  AllReal'
    <3>1. \A x \in Sid \ {s} : Unmoved(x)
      BY <1>1, <2>3, OthersUnmoved DEF SoloInv
    <3>2. Real(masters'[s], OverridesOf(s, overrides'), DatesOf(s, dates'))
      <4>1. CASE TruncateSeries(a)
        <5>1. Committing(a, req[a])
          BY <4>1 DEF TruncateSeries
        <5>2. EffectCut(req[a], s)
          BY <1>1, <2>3, <4>1, TruncateDoes
        <5> QED BY <2>3, <5>1, <5>2, RealCut
      <4> QED BY <2>3, <4>1, RealScoped
    <3> QED BY <3>1, <3>2, UnmovedIsReal DEF AllReal
  <2>4. ASSUME NEW a \in Actor, NEW s \in Sid, req[a].sid = s, SplitSeries(a) PROVE AllReal'
    <3>1. EffectCut(req[a], s) /\ Committing(a, req[a]) /\ req[a].op = "split"
      BY <1>1, <2>4, SplitDoes, SplitWrites DEF SoloInv
    <3>2. PICK new \in Sid : EffectTail(req[a], s, new) /\ \A x \in Sid \ {s, new} : Unmoved(x)
      BY <1>1, <2>4, SplitDoes
    <3>3. Real(masters'[s], OverridesOf(s, overrides'), DatesOf(s, dates'))
      BY <2>4, <3>1, RealCut
    <3>4. Real(masters'[new], OverridesOf(new, overrides'), DatesOf(new, dates'))
      BY <2>4, <3>1, <3>2, RealTail
    <3> QED BY <3>2, <3>3, <3>4, UnmovedIsReal DEF AllReal
  <2>5. ASSUME NEW a \in Actor, NEW s \in Sid, req[a].sid = s, UpdateWholeEvent(a) PROVE AllReal'
    <3>1. EffectWhole(req[a], s)
      BY <1>1, <2>5, WholeDoes
    <3>2. Real(masters[s], OverridesOf(s, overrides), DatesOf(s, dates))
      BY DEF GridInv, AllReal
    <3>3. Real(masters'[s], OverridesOf(s, overrides'), DatesOf(s, dates'))
      BY <3>1, <3>2 DEF EffectWhole, Real, IsOccurrence
    <3>4. \A x \in Sid \ {s} : Unmoved(x)
      BY <3>1 DEF EffectWhole
    <3> QED BY <3>3, <3>4, UnmovedIsReal DEF AllReal
  <2>6. ASSUME NEW a \in Actor,
               \/ UpdateWholeEvent(a) \/ UpdateOccurrence(a) \/ SplitSeries(a)
               \/ SoftDeleteEvent(a) \/ SkipOccurrence(a) \/ TruncateSeries(a)
               \/ SetRecurrenceDate(a)
        PROVE  AllReal'
    <3>1. Committing(a, req[a])
      BY <2>6, ZenonT(30)
      DEF UpdateWholeEvent, UpdateOccurrence, SplitSeries, SoftDeleteEvent, SkipOccurrence,
          TruncateSeries, SetRecurrenceDate
    <3>2. req[a].sid \in Sid
      BY <1>1, <3>1, Committed DEF SoloInv
    <3> QED BY <2>3, <2>4, <2>5, <2>6, <3>2
  <2>7. ASSUME NEW a \in Actor, Ask(a) \/ Refuse(a) \/ ReadDates(a)
        PROVE  UNCHANGED <<masters, overrides, dates>>
    BY <2>7 DEF Ask, Refuse, ReadDates
  <2>8. UNCHANGED vars => UNCHANGED <<masters, overrides, dates>>
    BY DEF vars
  <2> QED BY <2>1, <2>2, <2>6, <2>7, <2>8 DEF Next
<1> QED BY <1>1, <1>2 DEF GridInv

LEMMA GridStart == Init => GridInv
<1> SUFFICES ASSUME Init PROVE GridInv
  OBVIOUS
<1>1. AllReal
  BY DEF Init, AllReal, Real, OverridesOf
<1> QED BY <1>1, SoloStart, NamedStart DEF GridInv

LEMMA GridAlways ==
  ASSUME Alone, ~MovedSplits, "exdate" \notin Ops
  PROVE  Spec => []GridInv
<1>1. GridInv /\ [Next]_vars => GridInv'
  BY GridStep
<1> QED BY <1>1, GridStart, PTL DEF Spec

\* Writes that do not race, of users whose splits change neither the time nor
\* the rule and who skip an occurrence on the grid rather than by naming its
\* date: an edited occurrence stays one that its series generates or adds, and
\* has not skipped.  Each half of a split counts the occurrences it is left.
THEOREM EditedIsAnOccurrence ==
  ASSUME Alone, ~MovedSplits, "exdate" \notin Ops
  PROVE  Spec => []NoPhantom
<1>1. GridInv => NoPhantom
  <2> SUFFICES ASSUME GridInv, NEW o \in overrides, o.live
               PROVE  /\ masters[o.parent].rule # Nothing
                      /\ IsOccurrence(masters[o.parent], o.slot, DatesOf(o.parent, dates))
    BY DEF NoPhantom
  <2>1. o.parent \in Sid
    BY DEF GridInv, SoloInv, UidInv, OverridesShaped
  <2> QED BY <2>1 DEF GridInv, AllReal, Real, OverridesOf
<1> QED BY <1>1, GridAlways, PTL

-------------------------------------------------------------------------------
(* One request at a time: what the grid shows.                              *)

\* No date comes before the start of its series.
AllLate == \A s \in Sid : \A d \in DatesOf(s, dates) : d.slot >= masters[s].first

LateInv == GridInv /\ AllLate

\* The slots a row, its overrides and its dates put on the grid.
PlainOf(m, os, ds) ==
  IF m.state # "live" THEN {}
  ELSE IF m.rule = Nothing THEN {m.first}
  ELSE ((RuleSlots(m.first, m.rule) \union OfKind("rdate", ds)) \ OfKind("exdate", ds))
         \ SlotsOf(os)
MovedOf(m, os) == IF m.state = "live" THEN SlotsOf(os) ELSE {}
SkippedOf(m, ds) == IF m.state = "live" THEN OfKind("exdate", ds) ELSE {}

\* Neither the window of the range query nor the overrides of another life of the
\* series leave anything out.
View ==
  \A s \in Sid :
    /\ Virtual(s) = PlainOf(masters[s], OverridesOf(s, overrides), DatesOf(s, dates))
    /\ Edited(s) = MovedOf(masters[s], OverridesOf(s, overrides))
    /\ Skipped(s) = SkippedOf(masters[s], DatesOf(s, dates))
    /\ Virtual(s) \in SUBSET Slot

LEMMA ViewHolds == LateInv => View
<1> SUFFICES ASSUME LateInv, NEW s \in Sid
             PROVE  /\ Virtual(s) = PlainOf(masters[s], OverridesOf(s, overrides), DatesOf(s, dates))
                    /\ Edited(s) = MovedOf(masters[s], OverridesOf(s, overrides))
                    /\ Skipped(s) = SkippedOf(masters[s], DatesOf(s, dates))
                    /\ Virtual(s) \in SUBSET Slot
  BY DEF View
<1> DEFINE m == masters[s]
           os == OverridesOf(s, overrides)
           ds == DatesOf(s, dates)
<1>1. SoloInv /\ Sound(m, os, ds) /\ \A d \in ds : d.slot >= m.first
  BY DEF LateInv, GridInv, SoloInv, AllSound, AllLate
<1>2. m.first \in Slot /\ \A k : OfKind(k, ds) \subseteq Slot
  BY <1>1, SlotsAreNumbers DEF SoloInv, TypesInv, GoodRow, Master
<1>3. \A k : \A c \in OfKind(k, ds) : c >= m.first
  BY <1>1 DEF OfKind
<1>4. Overridden(s) = SlotsOf(os)
  BY DEF Overridden, SlotsOf, OverridesOf
<1>5. Edited(s) = MovedOf(m, os)
  <2>1. Edited(s) = {o.slot : o \in {x \in os : x.live}}
    BY DEF Edited, OverridesOf
  <2> HIDE DEF m, os, ds
  <2>2. CASE m.state = "live"
    <3>1. {x \in os : x.live} = os
      BY <1>1, <2>2 DEF Sound
    <3> QED BY <2>1, <2>2, <3>1 DEF MovedOf, SlotsOf
  <2>3. CASE m.state # "live"
    <3>1. {x \in os : x.live} = {}
      BY <1>1, <2>3 DEF Sound
    <3> QED BY <2>1, <2>3, <3>1 DEF MovedOf
  <2> QED BY <2>2, <2>3
<1>6. Skipped(s) = SkippedOf(m, ds)
  BY <1>3 DEF Skipped, SkippedOf
<1>7. Virtual(s) = PlainOf(m, os, ds)
  <2>1. CASE m.state # "live" \/ m.rule = Nothing
    BY <2>1 DEF Virtual, PlainOf
  <2>2. CASE m.state = "live" /\ m.rule # Nothing
    <3>1. \A c \in RuleSlots(m.first, m.rule) \union OfKind("rdate", ds) :
            m.first <= c /\ c <= m.end
      <4>1. \A c \in RuleSlots(m.first, m.rule) : c >= m.first /\ c \in Slot
        BY <2>2 DEF RuleSlots
      <4>2. \A c \in Slot : c \in Int
        BY ConstantsAssumption DEF Slot
      <4> QED BY <1>1, <1>2, <1>3, <2>2, <4>1, <4>2 DEF Sound, Covered
    <3>2. Generated(s) = RuleSlots(m.first, m.rule) \union OfKind("rdate", ds)
      BY DEF Generated
    <3> QED BY <1>4, <2>2, <3>1, <3>2 DEF Virtual, PlainOf
  <2> QED BY <2>1, <2>2
<1>8. PlainOf(m, os, ds) \in SUBSET Slot
  <2>1. m.rule # Nothing => RuleSlots(m.first, m.rule) \subseteq Slot
    BY DEF RuleSlots
  <2> QED BY <1>2, <2>1 DEF PlainOf
<1> QED BY <1>5, <1>6, <1>7, <1>8

LEMMA LateStep ==
  ASSUME Alone, ~MovedSplits, ~EarlyDates, "exdate" \notin Ops
  PROVE  LateInv /\ [Next]_vars => LateInv'
<1> SUFFICES ASSUME LateInv, [Next]_vars PROVE LateInv'
  OBVIOUS
<1>1. GridInv /\ GridInv' /\ SoloInv
  BY GridStep DEF LateInv, GridInv
<1> DEFINE Late(s) == \A d \in DatesOf(s, dates') : d.slot >= masters'[s].first
<1>2. ASSUME NEW x \in Sid, Unmoved(x) PROVE Late(x)
  BY <1>2 DEF Unmoved, LateInv, AllLate
<1>3. \A s \in Sid : Late(s)
  <2>1. CASE CreateEvent
    <3>1. PICK s \in Sid : DatesOf(s, dates') = {} /\ \A x \in Sid \ {s} : Unmoved(x)
      BY <1>1, <2>1, SoloCreate
    <3> QED BY <1>2, <3>1
  <2>2. CASE UNCHANGED <<masters, dates>>
    BY <2>2 DEF LateInv, AllLate
  <2>3. ASSUME NEW a \in Actor, NEW s \in Sid, req[a].sid = s,
               \/ UpdateOccurrence(a) \/ SoftDeleteEvent(a)
               \/ SkipOccurrence(a) \/ SetRecurrenceDate(a) \/ TruncateSeries(a)
        PROVE  \A x \in Sid : Late(x)
    <3>1. \A x \in Sid \ {s} : Unmoved(x)
      BY <1>1, <2>3, OthersUnmoved DEF SoloInv
    <3>2. Committing(a, req[a])
      BY <2>3
      DEF UpdateOccurrence, SoftDeleteEvent, SkipOccurrence, SetRecurrenceDate, TruncateSeries
    <3>3. req[a].slot >= masters[s].first
      BY <1>1, <2>3, <3>2, Current DEF GridInv, NamedAsAllowed, Committing
    <3>4. \A d \in DatesOf(s, dates) : d.slot >= masters[s].first
      BY DEF LateInv, AllLate
    <3>5. Late(s)
      <4>1. CASE UpdateOccurrence(a)
        BY <1>1, <2>3, <3>4, <4>1, ThisDoes DEF EffectThis, SameRow
      <4>2. CASE SoftDeleteEvent(a)
        BY <1>1, <2>3, <3>4, <4>2, DeleteDoes DEF EffectDelete
      <4>3. CASE SkipOccurrence(a)
        BY <1>1, <2>3, <3>3, <3>4, <4>3, SkipDoes DEF EffectSkip, SameRow
      <4>4. CASE SetRecurrenceDate(a)
        BY <1>1, <2>3, <3>3, <3>4, <4>4, DateDoes DEF EffectDate
      <4>5. CASE TruncateSeries(a)
        BY <1>1, <2>3, <3>4, <4>5, TruncateDoes DEF EffectCut
      <4> QED BY <2>3, <4>1, <4>2, <4>3, <4>4, <4>5
    <3> QED BY <1>2, <3>1, <3>5
  <2>4. ASSUME NEW a \in Actor, NEW s \in Sid, req[a].sid = s, SplitSeries(a)
        PROVE  \A x \in Sid : Late(x)
    <3>1. EffectCut(req[a], s) /\ Committing(a, req[a]) /\ req[a].op = "split"
      BY <1>1, <2>4, SplitDoes, SplitWrites DEF SoloInv
    <3>2. PICK new \in Sid : EffectTail(req[a], s, new) /\ \A x \in Sid \ {s, new} : Unmoved(x)
      BY <1>1, <2>4, SplitDoes
    <3>3. Late(s)
      BY <3>1 DEF EffectCut, LateInv, AllLate
    <3>4. masters'[new].first = req[a].slot
      BY <1>1, <2>4, <3>1, <3>2, RealTail
    <3>5. Late(new)
      BY <3>2, <3>4 DEF EffectTail
    <3> QED BY <1>2, <3>2, <3>3, <3>5
  <2>5. ASSUME NEW a \in Actor, NEW s \in Sid, req[a].sid = s, UpdateWholeEvent(a)
        PROVE  \A x \in Sid : Late(x)
    <3>1. EffectWhole(req[a], s)
      BY <1>1, <2>5, WholeDoes
    <3>2. \A d \in DatesOf(s, dates) : d.slot >= masters[s].first
      BY DEF LateInv, AllLate
    <3>3. Late(s)
      BY <3>1, <3>2 DEF EffectWhole
    <3>4. \A x \in Sid \ {s} : Unmoved(x)
      BY <3>1 DEF EffectWhole
    <3> QED BY <1>2, <3>3, <3>4
  <2>6. ASSUME NEW a \in Actor,
               \/ UpdateWholeEvent(a) \/ UpdateOccurrence(a) \/ SplitSeries(a)
               \/ SoftDeleteEvent(a) \/ SkipOccurrence(a) \/ TruncateSeries(a)
               \/ SetRecurrenceDate(a)
        PROVE  \A x \in Sid : Late(x)
    <3>1. Committing(a, req[a])
      BY <2>6, ZenonT(30)
      DEF UpdateWholeEvent, UpdateOccurrence, SplitSeries, SoftDeleteEvent, SkipOccurrence,
          TruncateSeries, SetRecurrenceDate
    <3>2. req[a].sid \in Sid
      BY <1>1, <3>1, Committed DEF SoloInv
    <3> HIDE DEF Late
    <3> QED BY <2>3, <2>4, <2>5, <2>6, <3>2
  <2>7. ASSUME NEW a \in Actor, Ask(a) \/ Refuse(a) \/ ReadDates(a)
        PROVE  UNCHANGED <<masters, dates>>
    BY <2>7 DEF Ask, Refuse, ReadDates
  <2>8. UNCHANGED vars => UNCHANGED <<masters, dates>>
    BY DEF vars
  <2> HIDE DEF Late
  <2> QED BY <2>1, <2>2, <2>6, <2>7, <2>8 DEF Next
<1> QED BY <1>1, <1>3 DEF LateInv, AllLate

-------------------------------------------------------------------------------
(* One request at a time: each write does what its scope says.              *)

\* What s shows is as it was.
SameShown(s) ==
  Virtual(s)' = Virtual(s) /\ Edited(s)' = Edited(s) /\ Skipped(s)' = Skipped(s)

LEMMA UnmovedShowsTheSame ==
  ASSUME View, View', NEW s \in Sid, Unmoved(s)
  PROVE  SameShown(s)
BY DEF View, Unmoved, OverridesOf, SameShown

LEMMA ShowsTheSame ==
  ASSUME \A s \in Sid : SameShown(s)
  PROVE  Intent!Same
BY DEF Intent!Same, SameShown

LEMMA ShowsOne ==
  ASSUME NEW s \in Sid, NEW p, NEW m, NEW k,
         Virtual(s)' = p, Edited(s)' = m, Skipped(s)' = k,
         \A x \in Sid \ {s} : SameShown(x)
  PROVE  Intent!Shows(s, p, m, k)
BY DEF Intent!Shows, SameShown

\* What was just done is known to the grid.
LEMMA DidIsKnown ==
  ASSUME SoloInv, NEW a \in Actor, NEW s \in Sid, req[a].sid = s, Committing(a, req[a])
  PROVE  /\ did' # Nothing /\ did'.op = req[a].op /\ did'.sid = s
         /\ did'.slot = req[a].slot
<1>1. did' = [op |-> req[a].op, sid |-> s, slot |-> req[a].slot]
  BY DEF Committing
<1>2. req[a].op \in Scopes /\ req[a].slot \in Slot
  <2>1. GoodRequest(req[a])
    BY Committed DEF SoloInv
  <2> QED BY <2>1 DEF GoodRequest, Requests
<1>3. did' \in [op : Scopes, sid : Sid, slot : Slot]
  BY <1>1, <1>2
<1> QED BY <1>1, <1>3, ConstantsAssumption

\* A cut with nothing before it that is not refused is a cut at the start.
LEMMA CutAtStart ==
  ASSUME NEW m, NEW c \in Slot, m.first \in Slot, GoodRule(m.rule), m.rule # Nothing,
         c >= m.first, Before(m, c) = 0, ~CutRefused(m, c)
  PROVE  c = m.first
<1>1. Horizon \in Nat /\ m.first \in 0 .. Horizon /\ c \in 0 .. Horizon
  BY ConstantsAssumption DEF Slot
<1>2. m.rule.at \in Nat /\ (m.rule.kind = "count" => m.rule.at > 0)
  BY DEF GoodRule, Rule
<1>3. m.rule.kind = "until" => m.first <= m.rule.at
  BY <1>1, <1>2 DEF CutRefused
<1>4. m.first \in RuleSlots(m.first, m.rule)
  <2>1. m.first \in Slot /\ m.first >= m.first /\ (m.first - m.first) % 2 = 0
        /\ (m.first - m.first) \div 2 = 0
    BY <1>1 DEF Slot
  <2> QED BY <1>2, <1>3, <2>1 DEF RuleSlots, Stride
<1>5. ~(m.first < c)
  BY <1>4, BeforeIsNatural
<1> QED BY <1>1, <1>5

\* Nothing a series shows comes before its start.
LEMMA NothingBeforeStart ==
  ASSUME LateInv, NEW s \in Sid, masters[s].state = "live", masters[s].rule # Nothing,
         NEW c, c = masters[s].first
  PROVE  /\ Intent!Below(Virtual(s), c) = {} /\ Intent!Below(Edited(s), c) = {}
         /\ Intent!Below(Skipped(s), c) = {}
<1> DEFINE m == masters[s]
           ds == DatesOf(s, dates)
           os == OverridesOf(s, overrides)
<1>1. SoloInv /\ \A d \in ds : d.slot >= m.first
  BY DEF LateInv, GridInv, AllLate
<1>2. c \in Int /\ \A x \in Slot : x \in Int
  BY <1>1, ConstantsAssumption DEF SoloInv, TypesInv, GoodRow, Master, Slot
<1>3. \A k : \A x \in OfKind(k, ds) : x \in Int /\ x >= c
  BY <1>1, <1>2, SlotsAreNumbers DEF OfKind
<1>4. \A x \in RuleSlots(m.first, m.rule) : x \in Int /\ x >= c
  BY <1>2 DEF RuleSlots
<1>5. \A x \in SlotsOf(os) : x \in Int /\ x >= c
  <2>1. \A o \in os : o.live /\ IsOccurrence(m, o.slot, ds)
    BY <1>1 DEF LateInv, GridInv, SoloInv, AllSound, Sound, AllReal, Real
  <2>2. \A o \in os : o.slot \in OfKind("rdate", ds) \union RuleSlots(m.first, m.rule)
    BY <2>1 DEF IsOccurrence
  <2> QED BY <1>3, <1>4, <2>2 DEF SlotsOf
<1>6. /\ Virtual(s) = PlainOf(m, os, ds) /\ Edited(s) = MovedOf(m, os)
      /\ Skipped(s) = SkippedOf(m, ds)
  BY ViewHolds DEF View
<1>7. /\ \A x \in Virtual(s) : x \in Int /\ x >= c
      /\ \A x \in Edited(s) : x \in Int /\ x >= c
      /\ \A x \in Skipped(s) : x \in Int /\ x >= c
  BY <1>3, <1>4, <1>5, <1>6 DEF PlainOf, MovedOf, SkippedOf
<1> QED BY <1>2, <1>7 DEF Intent!Below

\* The conditions under which each write is shown to do what it says: the
\* invariant, before and after, and what it makes of the grid.
Seen == LateInv /\ View /\ View'

LEMMA OthersShowTheSame ==
  ASSUME Seen, NEW s \in Sid, \A x \in Sid \ {s} : Unmoved(x)
  PROVE  \A x \in Sid \ {s} : SameShown(x)
BY UnmovedShowsTheSame DEF Seen

LEMMA ThisIntends ==
  ASSUME Seen, NEW a \in Actor, NEW s \in Sid, req[a].sid = s, UpdateOccurrence(a)
  PROVE  Intent!Next
<1> DEFINE m == masters[s]
           n == masters'[s]
           os == OverridesOf(s, overrides)
           os2 == OverridesOf(s, overrides')
           ds == DatesOf(s, dates)
           c == req[a].slot
<1>1. SoloInv /\ View /\ View'
  BY DEF Seen, LateInv, GridInv
<1>2. Committing(a, req[a]) /\ req[a].op = "this"
  BY DEF UpdateOccurrence
<1>3. did' # Nothing /\ did'.op = "this" /\ did'.sid = s /\ did'.slot = c
  BY <1>1, <1>2, DidIsKnown
<1>4. EffectThis(req[a], s) /\ m.state = "live"
  BY <1>1, <1>2, ThisDoes, Current
<1>5. c \in Virtual(s) \union Edited(s)
  BY <1>1, <1>4 DEF EffectThis, View, PlainOf, MovedOf, IsOccurrence
<1>6. SlotsOf(os2) = SlotsOf(os) \union {c} /\ DatesOf(s, dates') = ds /\ SameRow(n, m)
      /\ m.rule # Nothing
  BY <1>4 DEF EffectThis
<1>7. PlainOf(n, os2, ds) = PlainOf(m, os, ds) \ {c}
  BY <1>6 DEF PlainOf, SameRow
<1>8. MovedOf(n, os2) = MovedOf(m, os) \union {c} /\ SkippedOf(n, ds) = SkippedOf(m, ds)
  BY <1>4, <1>6 DEF MovedOf, SkippedOf, SameRow
<1>9. /\ Virtual(s)' = Virtual(s) \ {c} /\ Edited(s)' = Edited(s) \union {c}
      /\ Skipped(s)' = Skipped(s)
  BY <1>1, <1>6, <1>7, <1>8 DEF View
<1>10. \A x \in Sid \ {s} : SameShown(x)
  BY <1>1, OthersUnmoved, OthersShowTheSame DEF SoloInv
<1>11. Intent!Shows(s, Virtual(s) \ {c}, Edited(s) \union {c}, Skipped(s))
  BY <1>9, <1>10, ShowsOne
<1>12. Intent!MoveOne(s, c)
  BY <1>3, <1>5, <1>11 DEF Intent!MoveOne
<1> HIDE DEF c
<1> QED BY <1>3, <1>12 DEF Intent!Next, Intent!Write

LEMMA SkipIntends ==
  ASSUME Seen, NEW a \in Actor, NEW s \in Sid, req[a].sid = s, SkipOccurrence(a)
  PROVE  Intent!Next
<1> DEFINE m == masters[s]
           n == masters'[s]
           os == OverridesOf(s, overrides)
           os2 == OverridesOf(s, overrides')
           ds == DatesOf(s, dates)
           ds2 == DatesOf(s, dates')
           c == req[a].slot
           d == [sid |-> s, kind |-> "exdate", slot |-> c]
<1>1. SoloInv /\ View /\ View'
  BY DEF Seen, LateInv, GridInv
<1>2. Committing(a, req[a]) /\ req[a].op = "skip"
  BY DEF SkipOccurrence
<1>3. did' # Nothing /\ did'.op = "skip" /\ did'.sid = s /\ did'.slot = c
  BY <1>1, <1>2, DidIsKnown
<1>4. EffectSkip(req[a], s) /\ m.state = "live"
  BY <1>1, <1>2, SkipDoes, Current
<1>5. /\ ds2 = ds \union {d} /\ SameRow(n, m) /\ m.rule # Nothing
      /\ os2 = {o \in os : o.slot # c}
  BY <1>4 DEF EffectSkip
<1>6. /\ OfKind("rdate", ds2) = OfKind("rdate", ds)
      /\ OfKind("exdate", ds2) = OfKind("exdate", ds) \union {c}
  <2>1. d.kind = "exdate" /\ d.slot = c
    OBVIOUS
  <2>2. ds2 = ds \union {d}
    BY <1>5
  <2> HIDE DEF m, n, os, os2, d, ds, ds2, c
  <2> QED BY <2>1, <2>2, DateAdded
<1>7. SlotsOf(os2) = SlotsOf(os) \ {c}
  <2> HIDE DEF os, os2, c
  <2> QED BY <1>5 DEF SlotsOf
<1>8. PlainOf(n, os2, ds2) = PlainOf(m, os, ds) \ {c}
  <2>1. RuleSlots(n.first, n.rule) = RuleSlots(m.first, m.rule)
    BY <1>5 DEF SameRow
  <2> HIDE DEF m, n, os, os2, ds, ds2, c, d
  <2>2. c \in SlotsOf(os) => c \notin PlainOf(m, os, ds)
    BY <1>4, <1>5 DEF PlainOf, m
  <2> QED BY <1>4, <1>5, <1>6, <1>7, <2>1 DEF PlainOf, SameRow, m
<1>9. MovedOf(n, os2) = MovedOf(m, os) \ {c} /\ SkippedOf(n, ds2) = SkippedOf(m, ds) \union {c}
  BY <1>4, <1>5, <1>6, <1>7 DEF MovedOf, SkippedOf, SameRow
<1>10. /\ Virtual(s)' = Virtual(s) \ {c} /\ Edited(s)' = Edited(s) \ {c}
       /\ Skipped(s)' = Skipped(s) \union {c}
  BY <1>1, <1>8, <1>9 DEF View
<1>11. \A x \in Sid \ {s} : SameShown(x)
  BY <1>1, OthersUnmoved, OthersShowTheSame DEF SoloInv
<1>12. Intent!Shows(s, Virtual(s) \ {c}, Edited(s) \ {c}, Skipped(s) \union {c})
  BY <1>10, <1>11, ShowsOne
<1>13. Intent!SkipOne(s, c)
  BY <1>3, <1>12 DEF Intent!SkipOne
<1> HIDE DEF c
<1> QED BY <1>3, <1>13 DEF Intent!Next, Intent!Write

LEMMA AddIntends ==
  ASSUME Seen, "exdate" \notin Ops, NEW a \in Actor, NEW s \in Sid, req[a].sid = s,
         SetRecurrenceDate(a)
  PROVE  Intent!Next
<1> DEFINE m == masters[s]
           n == masters'[s]
           os == OverridesOf(s, overrides)
           os2 == OverridesOf(s, overrides')
           ds == DatesOf(s, dates)
           ds2 == DatesOf(s, dates')
           c == req[a].slot
           d == [sid |-> s, kind |-> "rdate", slot |-> c]
<1>1. SoloInv /\ View /\ View'
  BY DEF Seen, LateInv, GridInv
<1>2. Committing(a, req[a]) /\ req[a].op = "rdate"
  BY DEF SetRecurrenceDate, Seen, LateInv, GridInv, NamedAsAllowed, Committing
<1>3. did' # Nothing /\ did'.op = "rdate" /\ did'.sid = s /\ did'.slot = c
  BY <1>1, <1>2, DidIsKnown
<1>4. EffectDate(req[a], s) /\ m.state = "live"
  BY <1>1, <1>2, DateDoes, Current
<1>5. /\ ds2 = ds \union {d} /\ n.state = "live" /\ n.first = m.first /\ n.rule = m.rule
      /\ m.rule # Nothing /\ os2 = os
  BY <1>2, <1>4 DEF EffectDate
<1>6. /\ OfKind("exdate", ds2) = OfKind("exdate", ds)
      /\ OfKind("rdate", ds2) = OfKind("rdate", ds) \union {c}
  <2>1. d.kind = "rdate" /\ d.slot = c
    OBVIOUS
  <2>2. ds2 = ds \union {d}
    BY <1>5
  <2> HIDE DEF m, n, os, os2, d, ds, ds2, c
  <2> QED BY <2>1, <2>2, DateAdded
<1>7. PlainOf(n, os2, ds2) =
        (PlainOf(m, os, ds) \union {c}) \ (MovedOf(m, os) \union SkippedOf(m, ds))
  <2>1. RuleSlots(n.first, n.rule) = RuleSlots(m.first, m.rule)
    BY <1>5
  <2> HIDE DEF os, os2, ds, ds2, c, d
  <2> QED BY <1>4, <1>5, <1>6, <2>1 DEF PlainOf, MovedOf, SkippedOf
<1>8. MovedOf(n, os2) = MovedOf(m, os) /\ SkippedOf(n, ds2) = SkippedOf(m, ds)
  BY <1>4, <1>5, <1>6 DEF MovedOf, SkippedOf
<1>9. /\ Virtual(s)' = (Virtual(s) \union {c}) \ (Edited(s) \union Skipped(s))
      /\ Edited(s)' = Edited(s) /\ Skipped(s)' = Skipped(s)
  BY <1>1, <1>7, <1>8 DEF View
<1>10. \A x \in Sid \ {s} : SameShown(x)
  BY <1>1, OthersUnmoved, OthersShowTheSame DEF SoloInv
<1>11. Intent!Shows(s, (Virtual(s) \union {c}) \ (Edited(s) \union Skipped(s)), Edited(s), Skipped(s))
  BY <1>9, <1>10, ShowsOne
<1>12. Intent!AddOne(s, c)
  BY <1>3, <1>11 DEF Intent!AddOne
<1> HIDE DEF c
<1> QED BY <1>3, <1>12 DEF Intent!Next, Intent!Write

\* A cut with no occurrence before it is made at the start of the series, where
\* there is nothing to lose.
LEMMA WholeCutLosesNothing ==
  ASSUME LateInv, ~EarlyDates, NEW a \in Actor, NEW s \in Sid, req[a].sid = s,
         Committing(a, req[a]), req[a].op \in {"split", "truncate"}, WholeCut(req[a])
  PROVE  LET c == req[a].slot IN
         /\ c = masters[s].first /\ masters[s].rule # Nothing
         /\ Intent!Below(Virtual(s), c) = {} /\ Intent!Below(Edited(s), c) = {}
         /\ Intent!Below(Skipped(s), c) = {}
<1> DEFINE m == masters[s]
           c == req[a].slot
<1>1. SoloInv
  BY DEF LateInv, GridInv
<1>2. req[a].target.rule # Nothing /\ ~CutRefused(req[a].target, c)
  BY DEF Committing, Refused, RefusedUnread
<1>3. /\ m.state = "live" /\ m.first \in Slot /\ GoodRule(m.rule) /\ m.rule # Nothing
      /\ req[a].target.first = m.first /\ req[a].target.rule = m.rule
  BY <1>1, <1>2, Current
<1>4. Before(m, c) = 0 /\ ~CutRefused(m, c)
  BY <1>2, <1>3, CutsTheRow DEF WholeCut
<1>5. c \in Slot /\ c >= m.first
  BY <1>1, <1>3, Committed DEF SoloInv, LateInv, GridInv, NamedAsAllowed, Committing
<1>6. c = m.first
  BY <1>3, <1>4, <1>5, CutAtStart
<1> QED BY <1>3, <1>6, NothingBeforeStart

LEMMA DeleteIntends ==
  ASSUME Seen, ~EarlyDates, NEW a \in Actor, NEW s \in Sid, req[a].sid = s,
         SoftDeleteEvent(a)
  PROVE  Intent!Next
<1> DEFINE n == masters'[s]
           c == req[a].slot
<1>1. SoloInv /\ View /\ View' /\ LateInv
  BY DEF Seen, LateInv, GridInv
<1>2. Committing(a, req[a]) /\ Deletes(req[a])
  BY DEF SoftDeleteEvent
<1>3. did' # Nothing /\ did'.op = req[a].op /\ did'.sid = s /\ did'.slot = c
  BY <1>1, <1>2, DidIsKnown
<1>4. n.state = "deleted"
  BY <1>1, DeleteDoes DEF EffectDelete
<1>5. Virtual(s)' = {} /\ Edited(s)' = {} /\ Skipped(s)' = {}
  BY <1>1, <1>4 DEF View, PlainOf, MovedOf, SkippedOf
<1>6. \A x \in Sid \ {s} : SameShown(x)
  BY <1>1, OthersUnmoved, OthersShowTheSame DEF SoloInv
<1>7. Intent!Shows(s, {}, {}, {})
  BY <1>5, <1>6, ShowsOne
<1>8. CASE req[a].op = "delete"
  <2>1. Intent!Delete(s)
    BY <1>3, <1>7, <1>8 DEF Intent!Delete
  <2> HIDE DEF c
  <2> QED BY <1>3, <2>1 DEF Intent!Next, Intent!Write
<1>9. CASE req[a].op = "truncate" /\ WholeCut(req[a])
  <2>1. /\ Intent!Below(Virtual(s), c) = {} /\ Intent!Below(Edited(s), c) = {}
        /\ Intent!Below(Skipped(s), c) = {}
    BY <1>1, <1>2, <1>9, WholeCutLosesNothing
  <2>2. Intent!Truncate(s, c)
    <3> HIDE DEF c
    <3> QED BY <1>3, <1>7, <1>9, <2>1 DEF Intent!Truncate
  <2> HIDE DEF c
  <2> QED BY <1>3, <2>2 DEF Intent!Next, Intent!Write
<1> QED BY <1>2, <1>8, <1>9 DEF Deletes

\* The part of the grid before a cut.
LEMMA CutShows ==
  ASSUME Seen, NEW a \in Actor, NEW s \in Sid, req[a].sid = s, Committing(a, req[a]),
         EffectCut(req[a], s)
  PROVE  LET c == req[a].slot IN
         /\ Virtual(s)' = Intent!Below(Virtual(s), c)
         /\ Edited(s)' = Intent!Below(Edited(s), c)
         /\ Skipped(s)' = Intent!Below(Skipped(s), c)
<1> DEFINE m == masters[s]
           n == masters'[s]
           os == OverridesOf(s, overrides)
           os2 == OverridesOf(s, overrides')
           ds == DatesOf(s, dates)
           ds2 == DatesOf(s, dates')
           c == req[a].slot
<1>1. SoloInv /\ View /\ View'
  BY DEF Seen, LateInv, GridInv
<1>2. c \in Slot /\ m.first \in Slot /\ GoodRule(m.rule) /\ m.state = "live" /\ m.rule # Nothing
  BY <1>1, Committed, Current DEF SoloInv, EffectCut
<1>3. n.state = "live" /\ n.rule # Nothing
  BY DEF EffectCut
<1>4. RuleSlots(n.first, n.rule) = {x \in RuleSlots(m.first, m.rule) : x < c}
  BY <1>2, CutsInTwo DEF EffectCut
<1>5. \A k : OfKind(k, ds2) = {x \in OfKind(k, ds) : x < c}
  BY <1>1, <1>2, DatesBeforeCut DEF EffectCut
<1>6. SlotsOf(os2) = {x \in SlotsOf(os) : x < c}
  <2>1. \A o \in os : ~(o.slot >= c) <=> o.slot < c
    BY <1>1, <1>2, SlotsAreNumbers
  <2>2. os2 = {o \in os : ~(o.slot >= c)}
    BY DEF EffectCut
  <2> HIDE DEF os, os2, c
  <2> QED BY <2>1, <2>2 DEF SlotsOf
<1>7. /\ Virtual(s)' = PlainOf(n, os2, ds2) /\ Virtual(s) = PlainOf(m, os, ds)
      /\ Edited(s)' = MovedOf(n, os2) /\ Edited(s) = MovedOf(m, os)
      /\ Skipped(s)' = SkippedOf(n, ds2) /\ Skipped(s) = SkippedOf(m, ds)
  BY <1>1 DEF View
<1> HIDE DEF m, n, os, os2, ds, ds2, c
<1>8. PlainOf(n, os2, ds2) = Intent!Below(PlainOf(m, os, ds), c)
  BY <1>2, <1>3, <1>4, <1>5, <1>6 DEF PlainOf, Intent!Below
<1>9. MovedOf(n, os2) = Intent!Below(MovedOf(m, os), c)
      /\ SkippedOf(n, ds2) = Intent!Below(SkippedOf(m, ds), c)
  BY <1>2, <1>3, <1>5, <1>6 DEF MovedOf, SkippedOf, Intent!Below
<1> QED BY <1>7, <1>8, <1>9 DEF c

LEMMA TruncateIntends ==
  ASSUME Seen, NEW a \in Actor, NEW s \in Sid, req[a].sid = s, TruncateSeries(a)
  PROVE  Intent!Next
<1> DEFINE c == req[a].slot
<1>1. SoloInv
  BY DEF Seen, LateInv, GridInv
<1>2. Committing(a, req[a]) /\ req[a].op = "truncate"
  BY DEF TruncateSeries
<1>3. did' # Nothing /\ did'.op = "truncate" /\ did'.sid = s /\ did'.slot = c
  BY <1>1, <1>2, DidIsKnown
<1>4. /\ Virtual(s)' = Intent!Below(Virtual(s), c)
      /\ Edited(s)' = Intent!Below(Edited(s), c)
      /\ Skipped(s)' = Intent!Below(Skipped(s), c)
  BY <1>1, <1>2, TruncateDoes, CutShows
<1>5. \A x \in Sid \ {s} : SameShown(x)
  BY <1>1, OthersUnmoved, OthersShowTheSame DEF SoloInv
<1>6. Intent!Shows(s, Intent!Below(Virtual(s), c), Intent!Below(Edited(s), c),
                   Intent!Below(Skipped(s), c))
  BY <1>4, <1>5, ShowsOne
<1> HIDE DEF c
<1>7. Intent!Truncate(s, c)
  BY <1>3, <1>6 DEF Intent!Truncate
<1> QED BY <1>3, <1>7 DEF Intent!Next, Intent!Write

\* The part of the grid a split hands to the new series, which showed nothing.
LEMMA TailShows ==
  ASSUME Seen, ~MovedSplits, NEW a \in Actor, NEW s \in Sid, req[a].sid = s,
         Committing(a, req[a]), req[a].op = "split", EffectCut(req[a], s),
         NEW new \in Sid, EffectTail(req[a], s, new)
  PROVE  LET c == req[a].slot IN
         /\ Virtual(new) = {} /\ Edited(new) = {} /\ Skipped(new) = {}
         /\ Virtual(new)' = Intent!From(Virtual(s), c)
         /\ Edited(new)' = Intent!From(Edited(s), c)
         /\ Skipped(new)' = Intent!From(Skipped(s), c)
<1> DEFINE m == masters[s]
           n == masters'[new]
           os == OverridesOf(s, overrides)
           os2 == OverridesOf(new, overrides')
           ds == DatesOf(s, dates)
           ds2 == DatesOf(new, dates')
           c == req[a].slot
<1>1. SoloInv /\ GridInv /\ View /\ View'
  BY DEF Seen, LateInv, GridInv
<1>2. Virtual(new) = {} /\ Edited(new) = {} /\ Skipped(new) = {}
  BY <1>1 DEF EffectTail, View, PlainOf, MovedOf, SkippedOf
<1>3. m.state = "live" /\ m.rule # Nothing /\ n.state = "live" /\ n.rule # Nothing
  BY <1>1, Current DEF EffectCut, EffectTail
<1>4. RuleSlots(n.first, n.rule) = {x \in RuleSlots(m.first, m.rule) : x >= c}
  BY <1>1, RealTail
<1>5. /\ OfKind("rdate", ds2) = {x \in OfKind("rdate", ds) : x >= c}
      /\ OfKind("exdate", ds2) = {x \in OfKind("exdate", ds) : x >= c}
      /\ SlotsOf(os2) = {x \in SlotsOf(os) : x >= c}
  BY DEF EffectTail
<1>6. /\ Virtual(new)' = PlainOf(n, os2, ds2) /\ Virtual(s) = PlainOf(m, os, ds)
      /\ Edited(new)' = MovedOf(n, os2) /\ Edited(s) = MovedOf(m, os)
      /\ Skipped(new)' = SkippedOf(n, ds2) /\ Skipped(s) = SkippedOf(m, ds)
  BY <1>1 DEF View
<1> HIDE DEF m, n, os, os2, ds, ds2, c
<1>7. PlainOf(n, os2, ds2) = Intent!From(PlainOf(m, os, ds), c)
  BY <1>3, <1>4, <1>5 DEF PlainOf, Intent!From
<1>8. MovedOf(n, os2) = Intent!From(MovedOf(m, os), c)
      /\ SkippedOf(n, ds2) = Intent!From(SkippedOf(m, ds), c)
  BY <1>3, <1>5 DEF MovedOf, SkippedOf, Intent!From
<1> QED BY <1>2, <1>6, <1>7, <1>8 DEF c

\* What a split of one series into two must make of the grid.
LEMMA ShowsTwo ==
  ASSUME NEW s \in Sid, NEW new \in Sid, new # s, NEW c,
         Virtual(new) = {}, Edited(new) = {},
         Virtual(s)' = Intent!Below(Virtual(s), c), Virtual(new)' = Intent!From(Virtual(s), c),
         Edited(s)' = Intent!Below(Edited(s), c), Edited(new)' = Intent!From(Edited(s), c),
         Skipped(s)' = Intent!Below(Skipped(s), c), Skipped(new)' = Intent!From(Skipped(s), c),
         \A x \in Sid \ {s, new} : SameShown(x),
         did'.op = "split"
  PROVE  Intent!Split(s, new, c)
<1> DEFINE plain == [x \in Sid |-> Virtual(x)]
           moved == [x \in Sid |-> Edited(x)]
           skipped == [x \in Sid |-> Skipped(x)]
<1>1. plain' = [plain EXCEPT ![s] = Intent!Below(@, c), ![new] = Intent!From(plain[s], c)]
  BY DEF SameShown
<1>2. moved' = [moved EXCEPT ![s] = Intent!Below(@, c), ![new] = Intent!From(moved[s], c)]
  BY DEF SameShown
<1>3. skipped' = [skipped EXCEPT ![s] = Intent!Below(@, c), ![new] = Intent!From(skipped[s], c)]
  BY DEF SameShown
<1>4. plain[new] = {} /\ moved[new] = {}
  OBVIOUS
<1> QED BY <1>1, <1>2, <1>3, <1>4 DEF Intent!Split

LEMMA SplitIntends ==
  ASSUME Seen, ~MovedSplits, NEW a \in Actor, NEW s \in Sid, req[a].sid = s, SplitSeries(a)
  PROVE  Intent!Next
<1> DEFINE c == req[a].slot
<1>1. SoloInv /\ TypesInv /\ UidInv
  BY DEF Seen, LateInv, GridInv, SoloInv
<1>2. Committing(a, req[a]) /\ req[a].op = "split"
  BY <1>1, SplitWrites
<1>3. did' # Nothing /\ did'.op = "split" /\ did'.sid = s /\ did'.slot = c
  BY <1>1, <1>2, DidIsKnown
<1>4. EffectCut(req[a], s)
  BY <1>1, SplitDoes
<1>5. PICK new \in Sid : EffectTail(req[a], s, new) /\ \A x \in Sid \ {s, new} : Unmoved(x)
  BY <1>1, SplitDoes
<1>6. /\ Virtual(s)' = Intent!Below(Virtual(s), c)
      /\ Edited(s)' = Intent!Below(Edited(s), c)
      /\ Skipped(s)' = Intent!Below(Skipped(s), c)
  BY <1>2, <1>4, CutShows
<1>7. /\ Virtual(new) = {} /\ Edited(new) = {}
      /\ Virtual(new)' = Intent!From(Virtual(s), c)
      /\ Edited(new)' = Intent!From(Edited(s), c)
      /\ Skipped(new)' = Intent!From(Skipped(s), c)
  BY <1>2, <1>4, <1>5, TailShows
<1>8. \A x \in Sid \ {s, new} : SameShown(x)
  BY <1>5, UnmovedShowsTheSame DEF Seen
<1>9. new # s
  BY <1>5 DEF EffectTail
<1> HIDE DEF c
<1>10. Intent!Split(s, new, c)
  BY <1>3, <1>6, <1>7, <1>8, <1>9, ShowsTwo
<1> QED BY <1>3, <1>10 DEF Intent!Next, Intent!Write

\* A write to the whole of a series, or a new one.
LEMMA DefineIntends ==
  ASSUME View', NEW s \in Sid, \A x \in Sid \ {s} : SameShown(x),
         Edited(s)' = {}, Skipped(s)' = {},
         did' # Nothing, did'.op = "all", did'.sid = s
  PROVE  Intent!Next
<1> DEFINE plain == [x \in Sid |-> Virtual(x)]
<1>1. Intent!Shows(s, Virtual(s)', {}, {})
  BY ShowsOne
<1>2. plain' \in [Sid -> SUBSET Slot] /\ plain'[s] = Virtual(s)'
  BY DEF View
<1>3. Intent!Define(s)
  BY <1>1, <1>2 DEF Intent!Define
<1> QED BY <1>3 DEF Intent!Next, Intent!Write

LEMMA WholeIntends ==
  ASSUME Seen, ~MovedSplits, ~EarlyDates, NEW a \in Actor, NEW s \in Sid, req[a].sid = s,
         UpdateWholeEvent(a)
  PROVE  Intent!Next
<1> DEFINE m == masters[s]
           n == masters'[s]
           c == req[a].slot
<1>1. SoloInv /\ View /\ View' /\ LateInv
  BY DEF Seen, LateInv, GridInv
<1>2. Committing(a, req[a]) /\ UpdatesWhole(req[a])
  BY DEF UpdateWholeEvent
<1>3. did' # Nothing /\ did'.op = req[a].op /\ did'.sid = s /\ did'.slot = c
  BY <1>1, <1>2, DidIsKnown
<1>4. EffectWhole(req[a], s) /\ m.state = "live"
  BY <1>1, <1>2, WholeDoes, Current
<1>5. \A x \in Sid \ {s} : SameShown(x)
  BY <1>4, OthersShowTheSame DEF EffectWhole
<1>6. ASSUME req[a].rule = m.rule, req[a].first = m.first PROVE Intent!Same
  <2>1. /\ OverridesOf(s, overrides') = OverridesOf(s, overrides)
        /\ DatesOf(s, dates') = DatesOf(s, dates)
        /\ n.state = "live" /\ n.first = m.first /\ n.rule = m.rule
    BY <1>4, <1>6 DEF EffectWhole
  <2>2. SameShown(s)
    BY <1>1, <1>4, <2>1 DEF View, SameShown, PlainOf, MovedOf, SkippedOf
  <2> QED BY <1>5, <2>2, ShowsTheSame
<1>7. CASE req[a].op = "all"
  <2>1. CASE req[a].rule = m.rule /\ req[a].first = m.first
    <3>1. Intent!Define(s)
      BY <1>3, <1>6, <1>7, <2>1 DEF Intent!Define
    <3> QED BY <1>3, <3>1 DEF Intent!Next, Intent!Write
  <2>2. CASE ~(req[a].rule = m.rule /\ req[a].first = m.first)
    <3>1. OverridesOf(s, overrides') = {} /\ DatesOf(s, dates') = {}
      BY <1>4, <2>2 DEF EffectWhole
    <3>2. Edited(s)' = {} /\ Skipped(s)' = {}
      BY <1>1, <3>1 DEF View, MovedOf, SkippedOf, SlotsOf, OfKind
    <3> QED BY <1>1, <1>3, <1>5, <1>7, <3>2, DefineIntends
  <2> QED BY <2>1, <2>2
<1>8. CASE req[a].op = "split" /\ WholeCut(req[a])
  <2>1. c = m.first /\ Intent!Below(Virtual(s), c) = {}
    BY <1>1, <1>2, <1>8, WholeCutLosesNothing
  <2>2. req[a].rule = m.rule /\ req[a].first = c
    BY <1>1, <1>2, <1>8, Current DEF LateInv, GridInv, NamedAsAllowed, Committing
  <2>3. Intent!Same
    BY <1>6, <2>1, <2>2
  <2> HIDE DEF c
  <2>4. Intent!Split(s, s, c)
    BY <1>3, <1>8, <2>1, <2>3 DEF Intent!Split
  <2> QED BY <1>3, <2>4 DEF Intent!Next, Intent!Write
<1> QED BY <1>2, <1>7, <1>8 DEF UpdatesWhole

LEMMA CreateIntends == ASSUME Seen, CreateEvent PROVE Intent!Next
<1>1. SoloInv /\ View /\ View'
  BY DEF Seen, LateInv, GridInv
<1>2. PICK s \in Sid :
        /\ did' = [op |-> "all", sid |-> s, slot |-> did'.slot]
        /\ OverridesOf(s, overrides') = {} /\ DatesOf(s, dates') = {}
        /\ \A x \in Sid \ {s} : Unmoved(x)
  BY <1>1, SoloCreate
<1>3. did'.slot \in Slot
  BY ConstantsAssumption DEF CreateEvent
<1>4. did' # Nothing /\ did'.op = "all" /\ did'.sid = s
  <2>1. did' \in [op : Scopes, sid : Sid, slot : Slot]
    BY <1>2, <1>3 DEF Scopes
  <2> QED BY <1>2, <2>1, ConstantsAssumption
<1>5. Edited(s)' = {} /\ Skipped(s)' = {}
  BY <1>1, <1>2 DEF View, MovedOf, SkippedOf, SlotsOf, OfKind
<1>6. \A x \in Sid \ {s} : SameShown(x)
  BY <1>2, OthersShowTheSame
<1> QED BY <1>1, <1>4, <1>5, <1>6, DefineIntends

LEMMA EachStepIntends ==
  ASSUME Seen, ~MovedSplits, ~EarlyDates, "exdate" \notin Ops, [Next]_vars
  PROVE  [Intent!Next]_(Intent!vars)
<1>1. SoloInv
  BY DEF Seen, LateInv, GridInv
<1>2. CASE CreateEvent
  BY <1>2, CreateIntends
<1>3. ASSUME NEW a \in Actor, Ask(a) PROVE Intent!Next
  <2>1. did' = Nothing /\ \A x \in Sid : Unmoved(x)
    BY <1>3 DEF Ask, Unmoved
  <2>2. Intent!Same
    BY <2>1, UnmovedShowsTheSame, ShowsTheSame DEF Seen
  <2> QED BY <2>1, <2>2 DEF Intent!Next, Intent!Forget
<1>4. ASSUME UNCHANGED <<masters, overrides, dates, did>> PROVE UNCHANGED Intent!vars
  <2>1. \A x \in Sid : Unmoved(x)
    BY <1>4 DEF Unmoved
  <2>2. Intent!Same
    BY <2>1, UnmovedShowsTheSame, ShowsTheSame DEF Seen
  <2> QED BY <1>4, <2>2 DEF Intent!vars, Intent!Same
<1>5. ASSUME NEW a \in Actor, Refuse(a) \/ ReadDates(a) PROVE UNCHANGED Intent!vars
  BY <1>4, <1>5 DEF Refuse, ReadDates
<1>6. CASE UNCHANGED vars
  BY <1>4, <1>6 DEF vars
<1>7. ASSUME NEW a \in Actor,
             \/ UpdateWholeEvent(a) \/ UpdateOccurrence(a) \/ SplitSeries(a)
             \/ SoftDeleteEvent(a) \/ SkipOccurrence(a) \/ TruncateSeries(a)
             \/ SetRecurrenceDate(a)
      PROVE  Intent!Next
  <2>1. Committing(a, req[a])
    BY <1>7, ZenonT(30)
    DEF UpdateWholeEvent, UpdateOccurrence, SplitSeries, SoftDeleteEvent, SkipOccurrence,
        TruncateSeries, SetRecurrenceDate
  <2>2. req[a].sid \in Sid
    BY <1>1, <2>1, Committed DEF SoloInv
  <2> QED BY <1>7, <2>2, WholeIntends, ThisIntends, SplitIntends, DeleteIntends,
             SkipIntends, TruncateIntends, AddIntends
<1> QED BY <1>2, <1>3, <1>5, <1>6, <1>7 DEF Next

LEMMA LateStart == Init => LateInv
<1> SUFFICES ASSUME Init PROVE LateInv
  OBVIOUS
<1>1. AllLate
  BY DEF Init, AllLate, DatesOf
<1> QED BY <1>1, GridStart DEF LateInv

LEMMA IntentStart == Init => Intent!Init
<1> SUFFICES ASSUME Init PROVE Intent!Init
  OBVIOUS
<1>1. View /\ did = Nothing
  BY LateStart, ViewHolds DEF Init
<1>2. \A s \in Sid : OverridesOf(s, overrides) = {} /\ DatesOf(s, dates) = {}
  BY DEF Init, OverridesOf, DatesOf
<1>3. \A s \in Sid : Edited(s) = {} /\ Skipped(s) = {} /\ Virtual(s) \in SUBSET Slot
  BY <1>1, <1>2 DEF View, MovedOf, SkippedOf, SlotsOf, OfKind
<1> QED BY <1>1, <1>3 DEF Intent!Init

\* Writes that do not race, of users whose splits change neither the time nor
\* the rule and who name occurrences, not dates before a series starts: each
\* write does to the grid what its scope says.  Editing one occurrence moves
\* one, skipping one removes one, a cut removes a tail, a split hands the tail
\* to a new series and loses nothing, a deletion removes all; the range query,
\* the window columns and the override rows together show nothing else.
THEOREM WritesDoWhatTheySay ==
  ASSUME Alone, ~MovedSplits, ~EarlyDates, "exdate" \notin Ops
  PROVE  Spec => DoesWhatItSays
<1>1. LateInv /\ [Next]_vars => LateInv'
  BY LateStep
<1>2. LateInv => View
  BY ViewHolds
<1>3. Seen /\ [Next]_vars => [Intent!Next]_(Intent!vars)
  BY EachStepIntends
<1>4. LateInv /\ View /\ View' <=> Seen
  BY DEF Seen
<1> QED BY <1>1, <1>2, <1>3, <1>4, LateStart, IntentStart, PTL
    DEF Spec, DoesWhatItSays, Intent!Spec
================================================================================
