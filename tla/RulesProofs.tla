---------------------------- MODULE RulesProofs ----------------------------
(***************************************************************************)
(* Proofs about the caching rules, for any rules, templates, sessions and  *)
(* faults.                                                                 *)
(***************************************************************************)
EXTENDS RulesProps, FiniteSetTheorems, SequenceTheorems, WellFoundedInduction, TLAPS

-----------------------------------------------------------------------------
(***************************************************************************)
(* InKeyOrder is defined: a finite set of numbers can be put in order.     *)
(***************************************************************************)
Increasing(ids) == \A j, k \in DOMAIN ids : j < k => ids[j] < ids[k]

LEMMA Least ==
  ASSUME NEW S, S \subseteq Nat, S # {}
  PROVE  \E m \in S : \A i \in S : m <= i
<1>1. PICK m \in S : \A i \in S : <<i, m>> \notin OpToRel(<, Nat)
  BY NatLessThanWellFounded, WFMin
<1>2. \A i \in S : ~(i < m)
  BY <1>1 DEF OpToRel
<1> QED BY <1>2

LEMMA Enumerated ==
  ASSUME NEW S, S \subseteq Nat, IsFiniteSet(S)
  PROVE  \E ids \in [1 .. Cardinality(S) -> S] : Increasing(ids)
<1> DEFINE Sorted(T) == \E ids \in [1 .. Cardinality(T) -> T] : Increasing(ids)
           Bad == {T \in SUBSET S : ~Sorted(T)}
           Sizes == {Cardinality(T) : T \in Bad}
<1> SUFFICES ASSUME ~Sorted(S) PROVE FALSE
  OBVIOUS
<1>1. \A T \in SUBSET S : IsFiniteSet(T) /\ Cardinality(T) \in Nat
  BY FS_Subset, FS_CardinalityType
<1>2. Sizes \subseteq Nat /\ Sizes # {}
  <2>1. S \in Bad
    OBVIOUS
  <2> QED BY <1>1, <2>1
<1>3. PICK T \in Bad : \A U \in Bad : Cardinality(T) <= Cardinality(U)
  <2> HIDE DEF Bad
  <2>1. PICK n \in Sizes : \A k \in Sizes : n <= k
    BY <1>2, Least
  <2> QED BY <2>1
<1>4. T # {}
  <2>1. ASSUME T = {} PROVE FALSE
    <3>1. Cardinality(T) = 0
      BY <2>1, FS_EmptySet
    <3> DEFINE ids == [k \in 1 .. 0 |-> k]
    <3>2. ids \in [1 .. Cardinality(T) -> T] /\ Increasing(ids)
      BY <2>1, <3>1 DEF Increasing
    <3> HIDE DEF ids
    <3> QED BY <3>2
  <2> QED BY <2>1
<1>5. PICK m \in T : \A i \in T : m <= i
  BY <1>4, Least
<1> DEFINE n == Cardinality(T)
           rest == T \ {m}
<1>6. n \in Nat \ {0} /\ Cardinality(rest) = n - 1 /\ rest \subseteq S
  BY <1>1, <1>4, FS_RemoveElement, FS_EmptySet
<1>7. Sorted(rest)
  <2> SUFFICES ASSUME rest \in Bad PROVE FALSE
    BY <1>6
  <2> HIDE DEF Bad, rest
  <2> QED BY <1>3, <1>6
<1>8. PICK tail \in [1 .. n - 1 -> rest] : Increasing(tail)
  BY <1>6, <1>7
<1> DEFINE ids == [k \in 1 .. n |-> IF k = 1 THEN m ELSE tail[k - 1]]
<1>9. ids \in [1 .. n -> T]
  <2> SUFFICES ASSUME NEW k \in 1 .. n PROVE ids[k] \in T
    OBVIOUS
  <2> HIDE DEF n
  <2>1. CASE k = 1
    BY <2>1
  <2>2. CASE k # 1
    <3>1. k - 1 \in 1 .. n - 1
      BY <1>6, <2>2
    <3> QED BY <1>8, <2>2, <3>1
  <2> QED BY <2>1, <2>2
<1>10. Increasing(ids)
  <2> HIDE DEF n
  <2> SUFFICES ASSUME NEW j \in 1 .. n, NEW k \in 1 .. n, j < k PROVE ids[j] < ids[k]
    BY <1>6 DEF Increasing
  <2>1. k - 1 \in 1 .. n - 1 /\ k # 1 /\ tail[k - 1] \in rest /\ ids[k] = tail[k - 1]
    BY <1>6, <1>8
  <2>2. CASE j = 1
    <3>1. tail[k - 1] \in T /\ tail[k - 1] # m /\ tail[k - 1] \in Nat /\ m \in Nat
      BY <2>1
    <3> QED BY <1>5, <2>1, <2>2, <3>1
  <2>3. CASE j # 1
    <3>1. j - 1 \in 1 .. n - 1 /\ ids[j] = tail[j - 1] /\ j - 1 < k - 1
      BY <1>6, <2>3
    <3> QED BY <1>8, <2>1, <3>1 DEF Increasing
  <2> QED BY <2>2, <2>3
<1>11. Sorted(T)
  <2> HIDE DEF ids
  <2> QED BY <1>9, <1>10
<1> QED BY <1>11

\* The query returns rules.
LEMMA EnabledTyped ==
  ASSUME TypeOK
  PROVE  Enabled \in Seq(Entities)
<1> DEFINE On == {i \in Ids : rows[i].enabled}
           ids == InKeyOrder(On)
           rules == [k \in DOMAIN ids |-> [t |-> rows[ids[k]].t, dur |-> rows[ids[k]].dur]]
<1>1. On \subseteq Nat /\ IsFiniteSet(On) /\ Cardinality(On) \in Nat
  BY RulesAssumption, FS_Subset, FS_CardinalityType DEF RulesAssumption
<1>2. \A i \in On : rows[i] \in Rules
  BY DEF TypeOK, Absent
<1>3. ids \in [1 .. Cardinality(On) -> On]
  <2> HIDE DEF On
  <2>1. \E f \in [1 .. Cardinality(On) -> On] : \A j, k \in DOMAIN f : j < k => f[j] < f[k]
    BY <1>1, Enumerated DEF Increasing
  <2> QED BY <2>1 DEF InKeyOrder
<1>4. rules \in Seq(Entities)
  <2> HIDE DEF ids
  <2> DEFINE n == Cardinality(On)
  <2>1. rules = [k \in 1 .. n |-> [t |-> rows[ids[k]].t, dur |-> rows[ids[k]].dur]]
    BY <1>3
  <2>2. \A k \in 1 .. n : [t |-> rows[ids[k]].t, dur |-> rows[ids[k]].dur] \in Entities
    BY <1>2, <1>3 DEF Rules, Entities
  <2>3. rules \in [1 .. n -> Entities]
    BY <2>1, <2>2
  <2> QED BY <1>1, <2>3, SeqDef
<1> QED BY <1>4 DEF Enabled
-----------------------------------------------------------------------------
(***************************************************************************)
(* The invariant.                                                          *)
(***************************************************************************)
\* The live slots are the rules of the last refresh, less those it has still to push.
Live == SubSeq(buf, 1, len)

CopyOK == list = IF job = "push" THEN Live \o fetched ELSE Live

Looks == [pc : {"scan", "held", "done"}, stmt : Stmts, next : Nat, end : Nat, slot : Nat,
          touched : BOOLEAN, moved : BOOLEAN, dur : Durations \cup {Junk, 0},
          seen : Seq(Entities)]

\* A reference into memory that has not moved is to slots that have been written,
\* although they may be live no more.
Written(s) ==
  Looking(s) /\ ~look[s].moved =>
    /\ look[s].end <= Len(buf)
    /\ \A i \in 1 .. look[s].end : buf[i] # Blank

\* The iterator stays within the slots it found; the one that is held is the next.
\* A duration is only taken at the end.
Inside(s) ==
  /\ look[s].next \in 1 .. look[s].end + 1 /\ look[s].dur = 0
  /\ look[s].pc = "held" => look[s].slot = look[s].next /\ look[s].slot <= look[s].end

\* The rules that are passed do not match; the one that is held does.
Passed(s) ==
  /\ \A i \in 1 .. look[s].next - 1 : look[s].stmt \notin Templates[look[s].seen[i].t]
  /\ look[s].pc = "held" => look[s].stmt \in Templates[look[s].seen[look[s].slot].t]

\* A lookup that no refresh has touched sees the Vec as it is.
Undisturbed(s) ==
  ~look[s].touched =>
    /\ Looking(s) => /\ ~look[s].moved
                     /\ look[s].end = len /\ Live = look[s].seen
                     /\ Passed(s)
    /\ look[s].pc = "done" => look[s].dur = FirstMatch(look[s].seen, look[s].stmt)

LookOK(s) ==
  /\ look[s] \in Looks \cup {NoLook}
  /\ Looking(s) => Inside(s) /\ Written(s)
  /\ look[s] # NoLook => Undisturbed(s)

LooksOK ==
  /\ look = [s \in Sessions |-> look[s]]
  /\ \A s \in Sessions : LookOK(s)

RulesInv == TypeOK /\ CopyOK /\ LooksOK
-----------------------------------------------------------------------------
(***************************************************************************)
(* The Vec.                                                                *)
(***************************************************************************)
LEMMA Prefix ==
  ASSUME NEW T, NEW s, NEW n \in Nat, \A i \in 1 .. n : s[i] \in T
  PROVE  /\ SubSeq(s, 1, n) \in Seq(T) /\ Len(SubSeq(s, 1, n)) = n
         /\ \A i \in 1 .. n : SubSeq(s, 1, n)[i] = s[i]
BY SubSeqProperties

\* The live slots are rules, of which the Vec has len.
LEMMA LiveTyped ==
  ASSUME TypeOK
  PROVE  /\ Live \in Seq(Entities) /\ Len(Live) = len
         /\ \A i \in 1 .. len : Live[i] = buf[i]
<1>1. /\ buf \in Seq(Entities \cup {Blank}) /\ len \in 0 .. Len(buf)
      /\ \A i \in 1 .. len : buf[i] # Blank
  BY DEF TypeOK
<1>2. \A i \in 1 .. len : buf[i] \in Entities
  BY <1>1
<1> QED BY <1>1, <1>2, Prefix DEF Live

\* Growing the Vec keeps what is in it.
LEMMA GrownTyped ==
  ASSUME TypeOK
  PROVE  /\ Grown \in Seq(Entities \cup {Blank}) /\ Len(Grown) > Len(buf)
         /\ \A i \in 1 .. Len(buf) : Grown[i] = buf[i]
<1> DEFINE more == IF buf = <<>> THEN MinCap ELSE Len(buf)
           blanks == [i \in 1 .. more |-> Blank]
<1>1. buf \in Seq(Entities \cup {Blank}) /\ Len(buf) \in Nat
  BY DEF TypeOK
<1>2. more \in Nat \ {0}
  BY <1>1, RulesAssumption, EmptySeq DEF RulesAssumption
<1> HIDE DEF more
<1>3. blanks \in [1 .. more -> Entities \cup {Blank}]
  OBVIOUS
<1>4. blanks \in Seq(Entities \cup {Blank}) /\ Len(blanks) = more
  BY <1>2, <1>3, SeqDef
<1>5. Grown = buf \o blanks
  BY DEF Grown, more
<1> HIDE DEF blanks
<1> QED BY <1>1, <1>2, <1>4, <1>5, ConcatProperties

\* What push does to the Vec: one more rule is live, and what was written stays.
LEMMA Pushed ==
  ASSUME TypeOK, Push
  PROVE  /\ buf' \in Seq(Entities \cup {Blank}) /\ len' = len + 1 /\ len' \in 0 .. Len(buf')
         /\ Len(buf) <= Len(buf') /\ \A i \in 1 .. Len(buf) : i # len + 1 => buf'[i] = buf[i]
         /\ buf'[len + 1] = Head(fetched) /\ Head(fetched) \in Entities
<1> DEFINE room == IF len = Len(buf) THEN Grown ELSE buf
<1>1. /\ fetched # <<>> /\ fetched \in Seq(Entities)
      /\ buf \in Seq(Entities \cup {Blank}) /\ len \in 0 .. Len(buf) /\ Len(buf) \in Nat
      /\ buf' = [room EXCEPT ![len + 1] = Head(fetched)] /\ len' = len + 1
  BY DEF Push, TypeOK
<1>2. Head(fetched) \in Entities
  BY <1>1
<1>3. /\ room \in Seq(Entities \cup {Blank}) /\ len + 1 \in 1 .. Len(room)
      /\ Len(buf) <= Len(room) /\ \A i \in 1 .. Len(buf) : room[i] = buf[i]
      /\ Len(room) \in Nat
  BY <1>1, GrownTyped
<1> HIDE DEF room
<1>4. /\ buf' \in Seq(Entities \cup {Blank}) /\ Len(buf') = Len(room)
      /\ \A i \in 1 .. Len(room) : buf'[i] = IF i = len + 1 THEN Head(fetched) ELSE room[i]
  BY <1>1, <1>2, <1>3, ExceptSeq
<1> QED BY <1>1, <1>2, <1>3, <1>4
-----------------------------------------------------------------------------
(***************************************************************************)
(* TypeOK and CopyOK.                                                      *)
(***************************************************************************)
LEMMA EntityNotBlank == \A r \in Entities : r # Blank
BY DEF Entities, Blank

LEMMA PushCopies ==
  ASSUME TypeOK, CopyOK, Push
  PROVE  TypeOK' /\ CopyOK'
<1>1. /\ job = "push" /\ fetched # <<>> /\ fetched' = Tail(fetched)
      /\ UNCHANGED <<rows, edits, proc, job, list>>
      /\ fetched \in Seq(Entities) /\ len \in 0 .. Len(buf) /\ Len(buf) \in Nat
      /\ \A i \in 1 .. len : buf[i] # Blank
  BY DEF Push, TypeOK
<1>2. \A i \in 1 .. len : buf'[i] = buf[i]
  BY <1>1, Pushed
<1>3. \A i \in 1 .. len' : buf'[i] # Blank
  BY <1>1, <1>2, Pushed, EntityNotBlank
<1>4. TypeOK'
  BY <1>1, <1>3, Pushed DEF TypeOK
<1>5. Live' = Append(Live, Head(fetched))
  <2>1. /\ Live \in Seq(Entities) /\ Len(Live) = len
        /\ \A i \in 1 .. len : Live[i] = buf[i]
    BY LiveTyped
  <2>2. /\ Live' \in Seq(Entities) /\ Len(Live') = len'
        /\ \A i \in 1 .. len' : Live'[i] = buf'[i]
    <3> DEFINE b == buf'
               n == len'
    <3>1. n \in Nat /\ \A i \in 1 .. n : b[i] \in Entities
      BY <1>1, <1>3, Pushed
    <3>2. Live' = SubSeq(b, 1, n)
      BY DEF Live
    <3> HIDE DEF b, n
    <3>3. /\ SubSeq(b, 1, n) \in Seq(Entities) /\ Len(SubSeq(b, 1, n)) = n
          /\ \A i \in 1 .. n : SubSeq(b, 1, n)[i] = b[i]
      BY <3>1, Prefix
    <3> QED BY <3>2, <3>3 DEF b, n
  <2>3. /\ Append(Live, Head(fetched)) \in Seq(Entities)
        /\ Len(Append(Live, Head(fetched))) = len + 1
        /\ \A i \in 1 .. len : Append(Live, Head(fetched))[i] = Live[i]
        /\ Append(Live, Head(fetched))[len + 1] = Head(fetched)
    BY <2>1, Pushed, AppendProperties
  <2>4. \A i \in 1 .. Len(Live') : Live'[i] = Append(Live, Head(fetched))[i]
    <3>1. len' = len + 1 /\ buf'[len + 1] = Head(fetched)
      BY Pushed
    <3>2. SUFFICES ASSUME NEW i \in 1 .. len + 1
                   PROVE  Live'[i] = Append(Live, Head(fetched))[i]
      BY <2>2, <3>1
    <3>3. CASE i \in 1 .. len
      BY <1>1, <1>2, <2>1, <2>2, <2>3, <3>1, <3>3
    <3>4. CASE i = len + 1
      BY <2>2, <2>3, <3>1, <3>4
    <3>5. i \in 1 .. len \/ i = len + 1
      BY <2>1
    <3> QED BY <3>3, <3>4, <3>5
  <2> HIDE DEF Live
  <2> QED BY <2>2, <2>3, <2>4, Pushed, SeqEqual
<1>6. CopyOK'
  <2>1. Live \in Seq(Entities)
    BY LiveTyped
  <2>2. Append(Live, Head(fetched)) \o Tail(fetched) = Live \o fetched
    BY <1>1, <2>1
  <2> QED BY <1>1, <1>5, <2>2 DEF CopyOK
<1> QED BY <1>4, <1>6

\* A step that leaves the Vec alone.
LEMMA CopyStays ==
  ASSUME CopyOK, UNCHANGED <<fetched, list, buf, len>>, job' = "push" <=> job = "push"
  PROVE  CopyOK'
BY DEF CopyOK, Live

LEMMA RefreshCopies ==
  ASSUME TypeOK, CopyOK, Refresh
  PROVE  TypeOK' /\ CopyOK'
<1>1. CASE Connect \/ Wake
  BY <1>1, CopyStays DEF Connect, Wake, TypeOK
<1>2. CASE Query
  <2>1. TypeOK'
    BY <1>2, EnabledTyped DEF Query, TypeOK
  <2>2. CopyOK'
    BY <1>2 DEF Query, CopyOK, Live
  <2> QED BY <2>1, <2>2
<1>3. CASE Clear
  <2>1. /\ len' = 0 /\ list' = fetched /\ job' = "push"
        /\ UNCHANGED <<rows, edits, proc, fetched, buf>>
    BY <1>3 DEF Clear, Cleared
  <2>2. TypeOK'
    BY <2>1 DEF TypeOK
  <2>3. Live' = <<>> /\ fetched \in Seq(Entities)
    BY <2>1, SubSeqEmpty DEF Live, TypeOK
  <2>4. <<>> \o fetched = fetched
    BY <2>3, ConcatEmptySeq
  <2> QED BY <2>1, <2>2, <2>3, <2>4 DEF CopyOK
<1>4. CASE Sleep
  <2>1. /\ job = "push" /\ job' = "sleeps" /\ fetched = <<>>
        /\ UNCHANGED <<rows, edits, proc, fetched, list, buf, len>>
    BY <1>4 DEF Sleep
  <2>2. Live \in Seq(Entities) /\ Live \o <<>> = Live
    BY LiveTyped, ConcatEmptySeq
  <2>3. Live' = Live
    BY <2>1 DEF Live
  <2> QED BY <2>1, <2>2, <2>3 DEF TypeOK, CopyOK
<1> QED BY <1>1, <1>2, <1>3, <1>4, PushCopies DEF Refresh

LEMMA NextCopies == TypeOK /\ CopyOK /\ [Next]_vars => TypeOK' /\ CopyOK'
<1> SUFFICES ASSUME TypeOK, CopyOK, [Next]_vars PROVE TypeOK' /\ CopyOK'
  OBVIOUS
<1>1. ASSUME NEW i \in Ids, NEW row \in Rules \cup {Absent}, Edit(i, row)
      PROVE  TypeOK' /\ CopyOK'
  <2>1. rows' = [rows EXCEPT ![i] = row] /\ edits < MaxEdits /\ edits' = edits + 1
        /\ UNCHANGED <<proc, jobState>>
    BY <1>1 DEF Edit
  <2>2. rows' \in [Ids -> Rules \cup {Absent}] /\ edits' \in 0 .. MaxEdits
    BY <1>1, <2>1, RulesAssumption DEF TypeOK, RulesAssumption
  <2> QED BY <2>1, <2>2, CopyStays DEF TypeOK, jobState
<1>2. CASE Admin
  BY <1>1, <1>2 DEF Admin, Create, Update, Delete
<1>3. ASSUME NEW s \in Sessions, Lookup(s)
      PROVE  TypeOK' /\ CopyOK'
  <2>1. UNCHANGED <<rows, edits, jobState>> /\ proc' \in {proc, "fault"}
    BY <1>3 DEF Lookup, Begin, Scan, Unmatched, Take
  <2> QED BY <2>1, CopyStays DEF TypeOK, jobState
<1>4. CASE Dead \/ UNCHANGED vars
  BY <1>4, CopyStays DEF Dead, vars, jobState, TypeOK
<1> QED BY <1>2, <1>3, <1>4, RefreshCopies DEF Next

-----------------------------------------------------------------------------
(***************************************************************************)
(* LooksOK.                                                                *)
(***************************************************************************)
LEMMA FirstIs ==
  ASSUME NEW rules \in Seq(Entities), NEW q, NEW k \in 1 .. Len(rules),
         q \in Templates[rules[k].t],
         \A i \in 1 .. k - 1 : q \notin Templates[rules[i].t]
  PROVE  FirstMatch(rules, q) = rules[k].dur
<1> DEFINE M == Matching(rules, q)
<1>1. k \in M /\ M \subseteq 1 .. Len(rules) /\ \A i \in M : k <= i
  BY DEF Matching
<1>2. (CHOOSE i \in M : \A j \in M : i <= j) = k
  <2> HIDE DEF M
  <2>1. \A i \in M : (\A j \in M : i <= j) => i = k
    BY <1>1
  <2> QED BY <1>1, <2>1
<1> QED BY <1>1, <1>2 DEF FirstMatch

LEMMA NoneIs ==
  ASSUME NEW rules \in Seq(Entities), NEW q,
         \A i \in 1 .. Len(rules) : q \notin Templates[rules[i].t]
  PROVE  FirstMatch(rules, q) = 0
BY DEF FirstMatch, Matching

\* A lookup that goes on as it is, while the Vec does not change.
LEMMA LookStays ==
  ASSUME NEW s \in Sessions, LookOK(s), UNCHANGED <<buf, len>>, look'[s] = look[s]
  PROVE  LookOK(s)'
BY DEF LookOK, Looking, Inside, Written, Undisturbed, Passed, Live

\* A refresh changes the Vec under a lookup, without blanking what is written unless
\* it moves the memory.
LEMMA LookDisturbed ==
  ASSUME LooksOK, NEW s \in Sessions, NEW moves \in BOOLEAN, Disturb(moves),
         Len(buf) \in Nat, Len(buf') \in Nat,
         ~moves => /\ Len(buf) <= Len(buf')
                   /\ \A i \in 1 .. Len(buf) : buf[i] # Blank => buf'[i] # Blank
  PROVE  LookOK(s)'
<1>1. LookOK(s) /\ look[s] \in Looks \cup {NoLook}
  BY DEF LooksOK, LookOK
<1> DEFINE other == [look[s] EXCEPT !.touched = TRUE, !.moved = look[s].moved \/ moves]
<1>2. CASE Looking(s)
  <2>1. look[s] \in Looks
    BY <1>1, <1>2 DEF Looking, NoLook
  <2>2. look'[s] = other
    BY <1>2 DEF Disturb
  <2>3. /\ other \in Looks /\ other.touched = TRUE /\ other.moved = (look[s].moved \/ moves)
        /\ other.pc = look[s].pc /\ other.next = look[s].next /\ other.end = look[s].end
        /\ other.slot = look[s].slot /\ other.dur = look[s].dur
    BY <2>1 DEF Looks
  <2> HIDE DEF other
  <2>4. Inside(s)' /\ Undisturbed(s)'
    BY <1>1, <1>2, <2>2, <2>3 DEF LookOK, Inside, Undisturbed
  <2>5. Written(s)'
    <3> SUFFICES ASSUME ~other.moved
                 PROVE  /\ other.end <= Len(buf')
                        /\ \A i \in 1 .. other.end : buf'[i] # Blank
      BY <2>2 DEF Written
    <3>1. ~moves /\ ~look[s].moved
      BY <2>1, <2>3
    <3>2. look[s].end \in Nat /\ look[s].end <= Len(buf)
          /\ \A i \in 1 .. look[s].end : buf[i] # Blank
      BY <1>1, <1>2, <2>1, <3>1 DEF LookOK, Written, Looks
    <3> QED BY <2>3, <3>1, <3>2
  <2> QED BY <2>2, <2>3, <2>4, <2>5 DEF LookOK
<1>3. CASE ~Looking(s)
  <2>1. look'[s] = look[s]
    BY <1>3 DEF Disturb
  <2> QED BY <1>1, <1>3, <2>1 DEF LookOK, Looking, Undisturbed
<1> QED BY <1>2, <1>3

LEMMA RefreshLooks ==
  ASSUME RulesInv, Refresh
  PROVE  LooksOK'
<1>1. TypeOK /\ LooksOK /\ look = [s \in Sessions |-> look[s]]
  BY DEF RulesInv, LooksOK
<1>2. CASE UNCHANGED <<buf, len, look>>
  BY <1>1, <1>2, LookStays DEF LooksOK
<1>3. Len(buf) \in Nat /\ buf \in Seq(Entities \cup {Blank}) /\ len \in 0 .. Len(buf)
  BY <1>1 DEF TypeOK
<1>4. CASE Clear
  <2> DEFINE moves == FALSE
  <2>1. UNCHANGED buf /\ Len(buf') = Len(buf) /\ Disturb(moves) /\ moves \in BOOLEAN
    BY <1>4 DEF Clear
  <2>2. look' = [s \in Sessions |-> look'[s]]
    BY <2>1 DEF Disturb
  <2>3. ASSUME NEW s \in Sessions PROVE LookOK(s)'
    <3>1. \A i \in 1 .. Len(buf) : buf[i] # Blank => buf'[i] # Blank
      BY <2>1
    <3> HIDE DEF moves
    <3> QED BY <1>1, <1>3, <2>1, <3>1, LookDisturbed
  <2> QED BY <2>2, <2>3 DEF LooksOK
<1>5. CASE Push
  <2> DEFINE moves == len = Len(buf) /\ buf # <<>>
  <2>1. Disturb(moves) /\ moves \in BOOLEAN
    BY <1>5 DEF Push
  <2>2. look' = [s \in Sessions |-> look'[s]]
    BY <2>1 DEF Disturb
  <2>3. /\ Len(buf') \in Nat /\ Len(buf) <= Len(buf')
        /\ \A i \in 1 .. Len(buf) : buf[i] # Blank => buf'[i] # Blank
    <3>1. /\ buf' \in Seq(Entities \cup {Blank}) /\ Len(buf) <= Len(buf')
          /\ \A i \in 1 .. Len(buf) : i # len + 1 => buf'[i] = buf[i]
          /\ buf'[len + 1] # Blank
      BY <1>1, <1>5, Pushed, EntityNotBlank
    <3> QED BY <3>1
  <2> HIDE DEF moves
  <2>4. \A s \in Sessions : LookOK(s)'
    BY <1>1, <1>3, <2>1, <2>3, LookDisturbed
  <2> QED BY <2>2, <2>4 DEF LooksOK
<1> QED BY <1>2, <1>4, <1>5 DEF Refresh, Connect, Query, Sleep, Wake

LEMMA BeginLooks ==
  ASSUME RulesInv, NEW s \in Sessions, NEW q \in Stmts, Begin(s, q)
  PROVE  LookOK(s)'
<1> DEFINE begun == [pc |-> "scan", stmt |-> q, next |-> 1, end |-> len, slot |-> 0,
                     touched |-> job = "push", moved |-> FALSE, dur |-> 0, seen |-> list]
<1>1. /\ TypeOK /\ CopyOK /\ look = [r \in Sessions |-> look[r]]
      /\ look' = [look EXCEPT ![s] = begun] /\ UNCHANGED <<buf, len>>
  BY DEF RulesInv, LooksOK, Begin, jobState
<1>2. look'[s] = begun
  BY <1>1
<1>3. /\ list \in Seq(Entities) /\ len \in Nat /\ len <= Len(buf)
      /\ \A i \in 1 .. len : buf[i] # Blank
  BY <1>1 DEF TypeOK
<1>4. /\ begun \in Looks /\ begun.pc = "scan" /\ begun.next = 1 /\ begun.end = len
      /\ begun.dur = 0 /\ begun.moved = FALSE /\ begun.touched = (job = "push") /\ begun.seen = list
  BY <1>3 DEF Looks
<1> HIDE DEF begun
<1>5. Inside(s)' /\ Written(s)'
  BY <1>1, <1>2, <1>3, <1>4 DEF Inside, Written, Looking
<1>6. Undisturbed(s)'
  <2>1. job # "push" => list = Live
    BY <1>1 DEF CopyOK
  <2>2. Live' = Live
    BY <1>1 DEF Live
  <2>3. Passed(s)'
    BY <1>2, <1>4 DEF Passed
  <2> QED BY <1>1, <1>2, <1>4, <2>1, <2>2, <2>3 DEF Undisturbed, Looking
<1> QED BY <1>2, <1>4, <1>5, <1>6 DEF LookOK

\* While a lookup is undisturbed, the slots before it are the rules it sees.
LEMMA SeenLive ==
  ASSUME RulesInv, NEW s \in Sessions, Looking(s), ~look[s].touched
  PROVE  /\ look[s] \in Looks /\ ~look[s].moved /\ Passed(s)
         /\ look[s].end = len /\ Len(look[s].seen) = len
         /\ look[s].seen \in Seq(Entities)
         /\ \A i \in 1 .. len : buf[i] = look[s].seen[i]
<1>1. LookOK(s) /\ TypeOK
  BY DEF RulesInv, LooksOK
<1>2. look[s] \in Looks
  BY <1>1 DEF LookOK, Looking, NoLook
<1>3. Live = look[s].seen /\ ~look[s].moved /\ Passed(s) /\ look[s].end = len
  BY <1>1 DEF LookOK, Undisturbed, Looking, NoLook
<1> QED BY <1>1, <1>2, <1>3, LiveTyped

LEMMA ScanLooks ==
  ASSUME RulesInv, NEW s \in Sessions, Scan(s)
  PROVE  LookOK(s)'
<1> DEFINE i == look[s].next
           held == [look[s] EXCEPT !.pc = "held", !.slot = look[s].next]
           next == [look[s] EXCEPT !.next = look[s].next + 1]
<1>1. /\ look[s].pc = "scan" /\ i <= look[s].end /\ UNCHANGED <<buf, len>>
      /\ look = [r \in Sessions |-> look[r]] /\ LookOK(s) /\ TypeOK
  BY DEF Scan, RulesInv, LooksOK, jobState
<1>2. look[s] \in Looks /\ Inside(s) /\ Written(s) /\ Looking(s) /\ Undisturbed(s)
  BY <1>1 DEF LookOK, Looking, NoLook
<1>3. i \in Nat /\ i \in 1 .. look[s].end
  BY <1>1, <1>2 DEF Inside, Looks
<1>4. PICK matches \in BOOLEAN :
        \/ /\ Sound(s, i) => matches = (look[s].stmt \in Templates[buf[i].t])
           /\ look'[s] = IF matches THEN held ELSE next
        \/ look' = look
  BY <1>1, <1>2 DEF Scan, Looks
<1>5. Live' = Live
  BY <1>1 DEF Live
<1>6. ~look[s].touched =>
        /\ Sound(s, i) /\ buf[i] = look[s].seen[i] /\ Live = look[s].seen
        /\ ~look[s].moved /\ look[s].end = len /\ Passed(s)
  BY <1>2, <1>3, SeenLive DEF Sound, Undisturbed
<1>7. CASE look'[s] = held /\ (Sound(s, i) => look[s].stmt \in Templates[buf[i].t])
  <2>1. /\ held \in Looks /\ held.pc = "held" /\ held.slot = i /\ held.next = i
        /\ held.end = look[s].end /\ held.moved = look[s].moved /\ held.stmt = look[s].stmt
        /\ held.touched = look[s].touched /\ held.seen = look[s].seen
        /\ held.dur = look[s].dur
    BY <1>2, <1>3 DEF Looks
  <2> HIDE DEF held
  <2>2. Inside(s)' /\ Written(s)'
    BY <1>1, <1>2, <1>3, <1>7, <2>1 DEF Inside, Written, Looking
  <2>3. Undisturbed(s)'
    BY <1>1, <1>5, <1>6, <1>7, <2>1 DEF Undisturbed, Passed, Looking
  <2> QED BY <1>7, <2>1, <2>2, <2>3 DEF LookOK
<1>8. CASE look'[s] = next /\ (Sound(s, i) => look[s].stmt \notin Templates[buf[i].t])
  <2>1. /\ next \in Looks /\ next.pc = "scan" /\ next.next = i + 1
        /\ next.end = look[s].end /\ next.moved = look[s].moved /\ next.stmt = look[s].stmt
        /\ next.touched = look[s].touched /\ next.seen = look[s].seen
        /\ next.dur = look[s].dur
    BY <1>1, <1>2, <1>3 DEF Looks
  <2> HIDE DEF next
  <2>2. Inside(s)' /\ Written(s)'
    BY <1>1, <1>2, <1>3, <1>8, <2>1 DEF Inside, Written, Looking, Looks
  <2>3. ~look[s].touched =>
          \A j \in 1 .. (i + 1) - 1 : look[s].stmt \notin Templates[look[s].seen[j].t]
    <3> SUFFICES ASSUME ~look[s].touched, NEW j \in 1 .. i
                 PROVE  look[s].stmt \notin Templates[look[s].seen[j].t]
      BY <1>3
    <3>1. CASE j = i
      BY <1>6, <1>8, <3>1
    <3>2. CASE j # i
      BY <1>3, <1>6, <3>2 DEF Passed
    <3> QED BY <3>1, <3>2
  <2>4. Undisturbed(s)'
    BY <1>1, <1>5, <1>6, <1>8, <2>1, <2>3 DEF Undisturbed, Passed, Looking
  <2> QED BY <1>8, <2>1, <2>2, <2>4 DEF LookOK
<1>9. CASE look' = look
  BY <1>1, <1>9, LookStays
<1> HIDE DEF held, next, i
<1>10. (look[s].stmt \in Templates[buf[i].t]) \in BOOLEAN
  OBVIOUS
<1> QED BY <1>4, <1>7, <1>8, <1>9, <1>10

LEMMA UnmatchedLooks ==
  ASSUME RulesInv, NEW s \in Sessions, Unmatched(s)
  PROVE  LookOK(s)'
<1> DEFINE done == [look[s] EXCEPT !.pc = "done"]
<1>1. /\ look[s].pc = "scan" /\ look[s].next > look[s].end
      /\ look = [r \in Sessions |-> look[r]] /\ LookOK(s)
      /\ look' = [look EXCEPT ![s].pc = "done"]
  BY DEF Unmatched, RulesInv, LooksOK
<1>2. look[s] \in Looks /\ Inside(s) /\ Looking(s)
  BY <1>1 DEF LookOK, Looking, NoLook
<1>3. /\ look'[s] = done /\ done \in Looks /\ done.pc = "done" /\ done.seen = look[s].seen
      /\ done.touched = look[s].touched /\ done.stmt = look[s].stmt /\ done.dur = look[s].dur
  BY <1>1, <1>2 DEF Looks
<1> HIDE DEF done
<1>4. ASSUME ~look[s].touched PROVE look[s].dur = FirstMatch(look[s].seen, look[s].stmt)
  <2>1. /\ look[s].seen \in Seq(Entities) /\ Len(look[s].seen) = look[s].end /\ Passed(s)
        /\ look[s].next = look[s].end + 1
    BY <1>1, <1>2, <1>4, SeenLive DEF Inside, Looks
  <2>2. \A i \in 1 .. Len(look[s].seen) : look[s].stmt \notin Templates[look[s].seen[i].t]
    BY <1>2, <2>1 DEF Passed, Looks
  <2> QED BY <1>2, <2>1, <2>2, NoneIs DEF Inside
<1>5. Undisturbed(s)'
  BY <1>3, <1>4 DEF Undisturbed, Looking
<1> QED BY <1>3, <1>5 DEF LookOK, Looking

LEMMA TakeLooks ==
  ASSUME RulesInv, NEW s \in Sessions, Take(s)
  PROVE  LookOK(s)'
<1>1. /\ look[s].pc = "held" /\ UNCHANGED <<buf, len>>
      /\ look = [r \in Sessions |-> look[r]] /\ LookOK(s) /\ TypeOK
  BY DEF Take, RulesInv, LooksOK, jobState
<1>2. look[s] \in Looks /\ Inside(s) /\ Written(s) /\ Looking(s) /\ Undisturbed(s)
  BY <1>1 DEF LookOK, Looking, NoLook
<1>3. look[s].slot \in 1 .. look[s].end /\ look[s].slot = look[s].next
  BY <1>1, <1>2 DEF Inside, Looks
<1>4. ASSUME NEW d \in IF look[s].moved THEN Durations \cup {Junk}
                        ELSE {buf[look[s].slot].dur},
             look' = [look EXCEPT ![s].pc = "done", ![s].dur = d]
      PROVE  LookOK(s)'
  <2> DEFINE done == [look[s] EXCEPT !.pc = "done", !.dur = d]
  <2>1. d \in Durations \cup {Junk, 0}
    <3>1. CASE look[s].moved
      BY <1>2, <1>4, <3>1 DEF Looks
    <3>2. CASE ~look[s].moved
      <4>1. buf[look[s].slot] \in Entities
        BY <1>1, <1>2, <1>3, <3>2 DEF Written, TypeOK, Looks
      <4> QED BY <1>4, <3>2, <4>1 DEF Entities
    <3> QED BY <3>1, <3>2
  <2>2. /\ look'[s] = done /\ done \in Looks /\ done.pc = "done" /\ done.dur = d
        /\ done.seen = look[s].seen /\ done.touched = look[s].touched
        /\ done.stmt = look[s].stmt
    BY <1>1, <1>2, <1>4, <2>1 DEF Looks
  <2> HIDE DEF done
  <2>3. ASSUME ~look[s].touched PROVE d = FirstMatch(look[s].seen, look[s].stmt)
    <3>1. /\ ~look[s].moved /\ Passed(s) /\ look[s].end = len /\ Len(look[s].seen) = len
          /\ look[s].seen \in Seq(Entities)
          /\ \A i \in 1 .. len : buf[i] = look[s].seen[i]
      BY <1>2, <2>3, SeenLive
    <3>2. d = look[s].seen[look[s].slot].dur
      BY <1>3, <1>4, <3>1
    <3>3. FirstMatch(look[s].seen, look[s].stmt) = look[s].seen[look[s].slot].dur
      <4>1. /\ look[s].slot \in 1 .. Len(look[s].seen)
            /\ look[s].stmt \in Templates[look[s].seen[look[s].slot].t]
            /\ \A i \in 1 .. look[s].slot - 1 :
                 look[s].stmt \notin Templates[look[s].seen[i].t]
        BY <1>1, <1>3, <3>1 DEF Passed
      <4> DEFINE rules == look[s].seen
                 q == look[s].stmt
                 k == look[s].slot
      <4>2. rules \in Seq(Entities) /\ k \in 1 .. Len(rules)
        BY <3>1, <4>1
      <4>3. /\ q \in Templates[rules[k].t]
            /\ \A i \in 1 .. k - 1 : q \notin Templates[rules[i].t]
        BY <4>1
      <4> HIDE DEF rules, q, k
      <4>4. FirstMatch(rules, q) = rules[k].dur
        BY <4>2, <4>3, FirstIs
      <4> QED BY <4>4 DEF rules, q, k
    <3> QED BY <3>2, <3>3
  <2>4. Undisturbed(s)'
    BY <2>2, <2>3 DEF Undisturbed, Looking
  <2> QED BY <2>2, <2>4 DEF LookOK, Looking
<1>5. CASE look' = [look EXCEPT ![s] = NoLook]
  BY <1>1, <1>5 DEF LookOK, Looking, NoLook
<1>6. CASE look' = look
  BY <1>1, <1>6, LookStays
<1> QED BY <1>4, <1>5, <1>6 DEF Take

LEMMA NextLooks == RulesInv /\ [Next]_vars => LooksOK'
<1> SUFFICES ASSUME RulesInv, [Next]_vars PROVE LooksOK'
  OBVIOUS
<1>1. LooksOK /\ look = [s \in Sessions |-> look[s]]
  BY DEF RulesInv, LooksOK
<1>2. CASE UNCHANGED <<buf, len, look>>
  BY <1>1, <1>2, LookStays DEF LooksOK
<1>3. CASE Admin \/ Dead \/ UNCHANGED vars
  BY <1>2, <1>3 DEF Admin, Create, Update, Delete, Edit, Dead, vars, jobState
<1>4. ASSUME NEW s \in Sessions, Lookup(s)
      PROVE  LooksOK'
  <2>1. UNCHANGED <<buf, len>>
    BY <1>4 DEF Lookup, Begin, Scan, Unmatched, Take, jobState
  <2>2. LookOK(s)'
    BY <1>4, BeginLooks, ScanLooks, UnmatchedLooks, TakeLooks DEF Lookup
  <2>3. \A r \in Sessions \ {s} : look'[r] = look[r]
    BY <1>1, <1>4 DEF Lookup, Begin, Scan, Unmatched, Take
  <2>4. \A r \in Sessions \ {s} : LookOK(r)'
    BY <1>1, <2>1, <2>3, LookStays DEF LooksOK
  <2>5. look' = [r \in Sessions |-> look'[r]]
    BY <1>1, <1>4 DEF Lookup, Begin, Scan, Unmatched, Take
  <2> QED BY <2>2, <2>4, <2>5 DEF LooksOK
<1> QED BY <1>3, <1>4, RefreshLooks DEF Next

LEMMA NextRules == RulesInv /\ [Next]_vars => RulesInv'
BY NextCopies, NextLooks DEF RulesInv

LEMMA InitRules == Init => RulesInv
<1> SUFFICES ASSUME Init PROVE RulesInv
  OBVIOUS
<1>1. TypeOK
  BY RulesAssumption, EmptySeq DEF Init, TypeOK, RulesAssumption
<1>2. CopyOK
  BY SubSeqEmpty DEF Init, CopyOK, Live
<1>3. LooksOK
  BY DEF Init, LooksOK, LookOK, Looking, NoLook
<1> QED BY <1>1, <1>2, <1>3 DEF RulesInv

\* Whatever is edited, fails or is looked up, every variable keeps its type, and the
\* slots of the Vec that are live have been written (meta.rs:16-23).
THEOREM RulesTypes == Spec => []TypeOK
<1>1. RulesInv => TypeOK /\ CopyOK
  BY DEF RulesInv
<1> QED BY <1>1, InitRules, NextCopies, PTL DEF Spec

\* A lookup that no refresh has touched has before it exactly the rules of the last
\* refresh, for any rules and any number of lookups, and takes the duration of the first
\* of them that matches: what it finds wrong, or faults on, is always the doing of a
\* refresh that overlaps it (meta.rs:16-23, serve/mod.rs:294-328).
THEOREM FirstRuleFound == Spec => []LookupSeesOneRefresh
<1>1. RulesInv => LookupSeesOneRefresh
  <2>1. RulesInv => \A s \in Sessions : Looking(s) /\ ~look[s].touched
                      => look[s].end = len /\ SubSeq(buf, 1, len) = look[s].seen
    BY DEF RulesInv, LooksOK, LookOK, Undisturbed, Looking, NoLook, Live
  <2>2. RulesInv => \A s \in Sessions : look[s].pc = "done" /\ ~look[s].touched
                      => look[s].dur = FirstMatch(look[s].seen, look[s].stmt)
    BY DEF RulesInv, LooksOK, LookOK, Undisturbed, NoLook
  <2> QED BY <2>1, <2>2 DEF LookupSeesOneRefresh
<1> QED BY <1>1, InitRules, NextRules, PTL DEF Spec
=============================================================================
