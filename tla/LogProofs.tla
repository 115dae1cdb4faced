------------------------------ MODULE LogProofs ------------------------------
(***************************************************************************)
(* Whatever answers to writes, cascades and the pages of other logs come   *)
(* in between, every operation behind a cursor follows the confirmed state *)
(* that it meets, no page is refused, and a client that read every log and *)
(* has nothing of its own shows the server's rows.  The invariant relates  *)
(* each log to the revisions of its entities, each shadow to the entries   *)
(* before the cursor, and a fetched page to the log that it continues.     *)
(*                                                                         *)
(* The engine encodes an operation once: whatever interrupts it between    *)
(* preparing, storing the payload, sending, finishing and discarding the   *)
(* payload, and whichever transport goes on.                               *)
(*                                                                         *)
(* And no step but one of the application takes an edit away: the lemmas   *)
(* of EditProofs about answers and retries serve here too, and a page is   *)
(* followed operation by operation.                                        *)
(***************************************************************************)
EXTENDS ModelLogs, EditProofs, SequenceTheorems

-----------------------------------------------------------------------------
(* Sequences.                                                              *)

(* FlattenSeq is a recursive function; Flat says what it satisfies. *)
Flat(s, L, g) == g = [i \in 1..L |-> IF i = 1 THEN s[i] ELSE g[i - 1] \o s[i]]

FlatOf(s, L) == CHOOSE g : Flat(s, L, g)

LEMMA FlatExists ==
  ASSUME NEW s, NEW L \in Nat
  PROVE  \E g : Flat(s, L, g)
<1> DEFINE S == {m \in Nat : \E g : Flat(s, m, g)}
<1>1. 0 \in S
  <2> DEFINE g == [i \in 1..0 |-> s[i]]
  <2>1. Flat(s, 0, g)
    BY DEF Flat
  <2> QED
    BY <2>1
<1>2. ASSUME NEW m \in Nat, m \in S
      PROVE  m + 1 \in S
  <2>1. PICK g : Flat(s, m, g)
    BY <1>2
  <2> DEFINE h == [i \in 1..m + 1 |-> IF i = m + 1 THEN IF i = 1 THEN s[i] ELSE g[m] \o s[i] ELSE g[i]]
  <2>2. \A i \in 1..m : g[i] = IF i = 1 THEN s[i] ELSE g[i - 1] \o s[i]
    BY <2>1 DEF Flat
  <2>3. ASSUME NEW i \in 1..m + 1
        PROVE  h[i] = IF i = 1 THEN s[i] ELSE h[i - 1] \o s[i]
    <3>1. CASE i = m + 1
      <4>1. i # 1 => i - 1 = m /\ m \in 1..m + 1 /\ m # m + 1
        BY <3>1
      <4> QED
        BY <3>1, <4>1
    <3>2. CASE i # m + 1
      <4>1. i \in 1..m /\ (i # 1 => i - 1 \in 1..m /\ i - 1 \in 1..m + 1 /\ i - 1 # m + 1)
        BY <3>2
      <4>2. h[i] = g[i] /\ (i # 1 => h[i - 1] = g[i - 1])
        BY <3>2, <4>1
      <4> HIDE DEF h
      <4> QED
        BY <2>2, <4>1, <4>2
    <3> QED
      BY <3>1, <3>2
  <2>4. h = [i \in 1..m + 1 |-> h[i]]
    OBVIOUS
  <2> HIDE DEF h
  <2>5. Flat(s, m + 1, h)
    BY <2>3, <2>4 DEF Flat
  <2> QED
    BY <2>5
<1> HIDE DEF S
<1>3. L \in S
  BY <1>1, <1>2, Induction
<1> QED
  BY <1>3 DEF S

LEMMA FlatForms ==
  ASSUME NEW s, NEW L \in Nat, NEW i \in 1..L
  PROVE  FlatOf(s, L)[i] = IF i = 1 THEN s[i] ELSE FlatOf(s, L)[i - 1] \o s[i]
<1>1. Flat(s, L, FlatOf(s, L))
  BY FlatExists DEF FlatOf
<1> QED
  BY <1>1 DEF Flat

LEMMA FlatSame ==
  ASSUME NEW s, NEW L \in Nat, NEW t, NEW M \in Nat, L <= M, \A n \in 1..L : s[n] = t[n]
  PROVE  \A n \in 1..L : FlatOf(s, L)[n] = FlatOf(t, M)[n]
<1> DEFINE S == {m \in Nat : m + 1 \in 1..L => FlatOf(s, L)[m + 1] = FlatOf(t, M)[m + 1]}
<1>1. 0 \in S
  <2>1. 1 \in 1..L => FlatOf(s, L)[1] = s[1] /\ FlatOf(t, M)[1] = t[1]
    BY FlatForms
  <2> QED
    BY <2>1
<1>2. ASSUME NEW m \in Nat, m \in S
      PROVE  m + 1 \in S
  <2> SUFFICES ASSUME (m + 1) + 1 \in 1..L
               PROVE  FlatOf(s, L)[(m + 1) + 1] = FlatOf(t, M)[(m + 1) + 1]
    OBVIOUS
  <2>1. PICK n : n = (m + 1) + 1
    OBVIOUS
  <2>2. n \in 1..L /\ n \in 1..M /\ n # 1 /\ m + 1 \in 1..L /\ n - 1 = m + 1
    BY <2>1
  <2>3. FlatOf(s, L)[m + 1] = FlatOf(t, M)[m + 1]
    BY <1>2, <2>2
  <2>4. /\ FlatOf(s, L)[n] = FlatOf(s, L)[m + 1] \o s[n]
        /\ FlatOf(t, M)[n] = FlatOf(t, M)[m + 1] \o t[n]
    <3>1. FlatOf(s, L)[n] = FlatOf(s, L)[n - 1] \o s[n]
      BY <2>2, FlatForms
    <3>2. FlatOf(t, M)[n] = FlatOf(t, M)[n - 1] \o t[n]
      BY <2>2, FlatForms
    <3> QED
      BY <2>2, <3>1, <3>2
  <2> QED
    BY <2>1, <2>2, <2>3, <2>4
<1> HIDE DEF S
<1>3. Nat \subseteq S
  BY <1>1, <1>2, Induction
<1> SUFFICES ASSUME NEW n \in 1..L
             PROVE  FlatOf(s, L)[n] = FlatOf(t, M)[n]
  OBVIOUS
<1>4. n - 1 \in S
  BY <1>3
<1> QED
  BY <1>4 DEF S

LEMMA FlattenForms ==
  ASSUME NEW s, NEW L \in Nat, Len(s) = L
  PROVE  FlattenSeq(s) = IF L = 0 THEN s ELSE FlatOf(s, L)[L]
BY DEF FlattenSeq, FlatOf, Flat

(* The last step of a concatenation. *)
LEMMA FlatMore ==
  ASSUME NEW s, NEW L \in Nat, L # 0, NEW t, \A n \in 1..L : t[n] = s[n]
  PROVE  FlatOf(t, L + 1)[L + 1] = FlatOf(s, L)[L] \o t[L + 1]
<1>1. PICK k : k = L + 1
  OBVIOUS
<1>2. k \in Nat /\ L <= k /\ L \in 1..L /\ k \in 1..k /\ k # 1 /\ k - 1 = L
  BY <1>1
<1>3. FlatOf(s, L)[L] = FlatOf(t, k)[L]
  <2>1. \A n \in 1..L : s[n] = t[n]
    OBVIOUS
  <2>2. \A n \in 1..L : FlatOf(s, L)[n] = FlatOf(t, k)[n]
    BY <1>2, <2>1, FlatSame
  <2> QED
    BY <1>2, <2>2
<1>4. FlatOf(t, k)[k] = FlatOf(t, k)[k - 1] \o t[k]
  BY <1>2, FlatForms
<1> QED
  BY <1>1, <1>2, <1>3, <1>4

(* One sequence more. *)
LEMMA FlattenMore ==
  ASSUME NEW s, NEW L \in Nat, s = [n \in 1..L |-> s[n]],
         NEW t, t = [n \in 1..L + 1 |-> t[n]], \A n \in 1..L : t[n] = s[n],
         NEW T, t[L + 1] \in Seq(T)
  PROVE  FlattenSeq(t) = FlattenSeq(s) \o t[L + 1]
<1>1. Len(s) = L /\ Len(t) = L + 1
  OBVIOUS
<1>2. FlattenSeq(t) = FlatOf(t, L + 1)[L + 1]
  BY <1>1, FlattenForms
<1>3. CASE L = 0
  <2>1. FlattenSeq(s) = s
    BY <1>1, <1>3, FlattenForms
  <2>2. s \in Seq(T) /\ Len(s) = 0
    <3>1. s \in [1..0 -> T]
      BY <1>3
    <3> QED
      BY <1>1, <1>3, <3>1
  <2>3. s = <<>>
    BY <2>2, EmptySeq
  <2>4. FlattenSeq(t) = t[1]
    BY <1>2, <1>3, FlatForms
  <2>5. t[1] \in Seq(T) => <<>> \o t[1] = t[1]
    BY ConcatEmptySeq
  <2> QED
    BY <1>3, <2>1, <2>3, <2>4, <2>5
<1>4. CASE L # 0
  <2>1. FlattenSeq(s) = FlatOf(s, L)[L]
    BY <1>1, <1>4, FlattenForms
  <2>2. FlatOf(t, L + 1)[L + 1] = FlatOf(s, L)[L] \o t[L + 1]
    BY <1>4, FlatMore, Zenon
  <2> QED
    BY <1>2, <2>1, <2>2, Zenon
<1> QED
  BY <1>3, <1>4

(* Two sequences, one after the other. *)
LEMMA ConcatForms ==
  ASSUME NEW s, NEW L \in Nat, s = [x \in 1..L |-> s[x]],
         NEW t, NEW m \in Nat, t = [x \in 1..m |-> t[x]]
  PROVE  s \o t = [x \in 1..L + m |-> IF x <= L THEN s[x] ELSE t[x - L]]
<1> DEFINE T == {s[x] : x \in 1..L} \cup {t[x] : x \in 1..m}
           u == [x \in 1..L + m |-> IF x <= L THEN s[x] ELSE t[x - L]]
<1>1. s \in Seq(T) /\ Len(s) = L
  <2>1. \A x \in 1..L : s[x] \in T
    OBVIOUS
  <2> HIDE DEF T
  <2>2. s \in [1..L -> T]
    BY <2>1
  <2> QED
    BY <2>2
<1>2. t \in Seq(T) /\ Len(t) = m
  <2>1. \A x \in 1..m : t[x] \in T
    OBVIOUS
  <2> HIDE DEF T
  <2>2. t \in [1..m -> T]
    BY <2>1
  <2> QED
    BY <2>2
<1> HIDE DEF T
<1>3. /\ s \o t \in Seq(T) /\ Len(s \o t) = L + m
      /\ \A x \in 1..L + m : (s \o t)[x] = IF x <= L THEN s[x] ELSE t[x - L]
  BY <1>1, <1>2, ConcatProperties
<1>4. s \o t = [x \in 1..L + m |-> (s \o t)[x]]
  BY <1>3
<1> QED
  BY <1>3, <1>4

-----------------------------------------------------------------------------
(* The logs.                                                               *)

(* A log has an entry for every group of its entities, each behind those   *)
(* of the entity's earlier groups.                                         *)
Ordered(f, log) ==
  /\ Len(log) \in Nat /\ log = [x \in 1..Len(log) |-> log[x]]
  /\ \A x \in 1..Len(log) : \E i \in OwnIds(f) : \E n \in GroupsOf(i) :
       /\ log[x] = EntryOf(i, n)
       /\ \A m \in GroupsOf(i) : m < n => \E y \in 1..x - 1 : log[y] = EntryOf(i, m)
  /\ \A i \in OwnIds(f) : \A n \in GroupsOf(i) : \E x \in 1..Len(log) : log[x] = EntryOf(i, n)

LogsOrdered == \A f \in Feeds : Ordered(f, Log(f))

Extends(longer, log) ==
  /\ Len(longer) >= Len(log)
  /\ \A x \in 1..Len(log) : longer[x] = log[x]

LEMMA OwnForms ==
  /\ \A f \in Feeds : OwnIds(f) \subseteq Ids /\ IsFiniteSet(OwnIds(f))
  /\ \A i \in Ids : \E f \in Feeds : i \in OwnIds(f)
  /\ Models[1] \in Feeds /\ Models[2] \in Feeds
<1>1. \A f \in Feeds : OwnIds(f) \subseteq Ids
  BY LogAssumption DEF OwnIds, Ids
<1>2. \A i \in Ids : \E f \in Feeds : i \in OwnIds(f)
  BY LogAssumption DEF OwnIds, Ids
<1>3. \A f \in Feeds : IsFiniteSet(OwnIds(f))
  BY <1>1, LogAssumption, FS_Subset
<1> QED
  BY <1>1, <1>2, <1>3, LogAssumption DEF Models

LEMMA EntryForms ==
  ASSUME NEW i, NEW n
  PROVE  EntryOf(i, n).id = i /\ EntryOf(i, n).rev = journal[n][i].rev
BY DEF EntryOf, LogEntry

(* A group at the end of the journal. *)
Committed(g) ==
  /\ g \in Groups
  /\ journal' = Append(journal, g)

LEMMA CommittedGroups ==
  ASSUME Typed, NEW g, Committed(g)
  PROVE  /\ Sequence \in Nat /\ Sequence' = Sequence + 1
         /\ \A n \in 1..Sequence : journal'[n] = journal[n]
         /\ journal'[Sequence + 1] = g
         /\ DOMAIN g \subseteq Ids
         /\ \A i : /\ GroupsOf(i)' = GroupsOf(i) \cup IF i \in DOMAIN g THEN {Sequence + 1} ELSE {}
                   /\ GroupsOf(i) \subseteq 1..Sequence
<1>1. journal \in Seq(Groups) /\ journal' = Append(journal, g) /\ g \in Groups
  BY DEF Typed, Committed
<1>2. /\ Len(journal) \in Nat /\ Len(journal') = Len(journal) + 1
      /\ \A n \in 1..Len(journal) : journal'[n] = journal[n]
      /\ journal'[Len(journal) + 1] = g
  BY <1>1
<1>3. DOMAIN g \subseteq Ids
  BY <1>1, GroupTyped DEF IsGroup
<1>4. ASSUME NEW i
      PROVE  /\ GroupsOf(i)' = GroupsOf(i) \cup IF i \in DOMAIN g THEN {Sequence + 1} ELSE {}
             /\ GroupsOf(i) \subseteq 1..Sequence
  <2>1. GroupsOf(i)' = {n \in 1..Len(journal) + 1 : i \in DOMAIN journal'[n]}
    BY <1>2 DEF GroupsOf, Sequence
  <2>2. GroupsOf(i) = {n \in 1..Len(journal) : i \in DOMAIN journal[n]}
    BY DEF GroupsOf, Sequence
  <2> QED
    BY <1>2, <2>1, <2>2 DEF Sequence
<1> QED
  BY <1>2, <1>3, <1>4 DEF Sequence

(* Entries stay what they are. *)
LEMMA EntryStays ==
  ASSUME Typed, NEW g, Committed(g), NEW i, NEW n \in GroupsOf(i)
  PROVE  EntryOf(i, n)' = EntryOf(i, n)
<1>1. n \in 1..Sequence /\ Sequence \in Nat /\ journal'[n] = journal[n]
  BY CommittedGroups
<1>2. {m \in GroupsOf(i) : m < n}' = {m \in GroupsOf(i) : m < n}
  BY <1>1, CommittedGroups
<1>3. \A m \in {k \in GroupsOf(i) : k < n} : journal'[m][i] = journal[m][i]
  BY CommittedGroups
<1>4. Before(i, n)' = Before(i, n)
  <2> DEFINE past == {m \in GroupsOf(i) : m < n}
             Latest(S) == CHOOSE m \in S : \A k \in S : k <= m
  <2>1. Before(i, n) = IF past = {} THEN Absent ELSE journal[Latest(past)][i]
    BY DEF Before
  <2>2. Before(i, n)' = IF past' = {} THEN Absent ELSE journal'[Latest(past')][i]
    BY DEF Before
  <2>3. past # {} => Latest(past) \in past
    <3> SUFFICES ASSUME past # {}
                 PROVE  \E m \in past : \A k \in past : k <= m
      OBVIOUS
    <3>1. past \in SUBSET (0..Sequence)
      BY CommittedGroups
    <3> HIDE DEF past
    <3> QED
      BY <1>1, <3>1, LastOf
  <2>4. past' = past
    BY <1>2
  <2>5. past # {} => journal'[Latest(past)][i] = journal[Latest(past)][i]
    BY <1>3, <2>3
  <2> HIDE DEF Latest, past
  <2>6. Latest(past') = Latest(past)
    BY <2>4
  <2> QED
    BY <2>1, <2>2, <2>4, <2>5, <2>6
<1> QED
  BY <1>1, <1>4 DEF EntryOf

LEMMA EntriesStay ==
  ASSUME Typed, NEW g, Committed(g), NEW f \in Feeds, NEW n \in 1..Sequence
  PROVE  Entries(f, n)' = Entries(f, n)
<1>1. Appended(f, n)' = Appended(f, n)
  BY CommittedGroups DEF Appended
<1>2. PICK ids : ids = SetToSeq(Appended(f, n))
  OBVIOUS
<1>3. /\ Entries(f, n) = [x \in DOMAIN ids |-> EntryOf(ids[x], n)]
      /\ Entries(f, n)' = [x \in DOMAIN ids |-> EntryOf(ids[x], n)']
  BY <1>1, <1>2 DEF Entries
<1>4. \A x \in DOMAIN ids : n \in GroupsOf(ids[x])
  <2>1. Appended(f, n) \subseteq OwnIds(f)
    BY DEF Appended
  <2>2. IsFiniteSet(Appended(f, n))
    BY <2>1, OwnForms, FS_Subset
  <2>3. \E m \in Nat : ids \in [1..m -> Appended(f, n)]
    BY <1>2, <2>2, SetToSeqForms
  <2>4. \A x \in DOMAIN ids : ids[x] \in Appended(f, n)
    BY <2>3
  <2> QED
    BY <2>4 DEF Appended, GroupsOf
<1>5. ASSUME NEW x \in DOMAIN ids
      PROVE  EntryOf(ids[x], n)' = EntryOf(ids[x], n)
  BY <1>4, EntryStays
<1> QED
  BY <1>3, <1>5

(* e holds the entries of group N in the log of f, one for each entity. *)
EntrySeq(f, N, e) ==
  \E m \in Nat :
    /\ e = [x \in 1..m |-> e[x]]
    /\ \A x \in 1..m : \E i \in OwnIds(f) : N \in GroupsOf(i) /\ e[x] = EntryOf(i, N)
    /\ \A i \in OwnIds(f) : N \in GroupsOf(i) => \E x \in 1..m : e[x] = EntryOf(i, N)

LEMMA EntriesForms ==
  ASSUME Typed, NEW g, Committed(g), NEW f \in Feeds, NEW N, N = Sequence + 1,
         NEW e, e = Entries(f, N)'
  PROVE  EntrySeq(f, N, e)'
<1>1. PICK S : S = Appended(f, N)'
  OBVIOUS
<1>2. S = {i \in OwnIds(f) : N \in GroupsOf(i)'}
  <2>1. Appended(f, N)' = {i \in OwnIds(f) : i \in DOMAIN journal'[N]}
    BY DEF Appended
  <2>2. N \in 1..Sequence'
    BY CommittedGroups
  <2>3. \A i : N \in GroupsOf(i)' <=> i \in DOMAIN journal'[N]
    BY <2>2 DEF GroupsOf
  <2> QED
    BY <1>1, <2>1, <2>3
<1>3. IsFiniteSet(S)
  BY <1>2, OwnForms, FS_Subset
<1>4. PICK ids : ids = SetToSeq(S)
  OBVIOUS
<1>5. PICK h : h = [i \in S |-> EntryOf(i, N)']
  OBVIOUS
<1>7. PICK m \in Nat : ids \in [1..m -> S] /\ \A i \in S : \E x \in 1..m : ids[x] = i
  BY <1>3, <1>4, SetToSeqForms
<1>8. \A x \in 1..m : ids[x] \in S /\ e[x] = h[ids[x]]
  <2>1. Entries(f, N)' = [x \in DOMAIN ids |-> EntryOf(ids[x], N)']
    BY <1>1, <1>4 DEF Entries
  <2> QED
    BY <1>5, <1>7, <2>1
<1>9. e = [x \in 1..m |-> e[x]]
  <2>1. Entries(f, N)' = [x \in DOMAIN ids |-> EntryOf(ids[x], N)']
    BY <1>1, <1>4 DEF Entries
  <2> QED
    BY <1>7, <2>1
<1>10. \A i \in S : N \in GroupsOf(i)' /\ i \in OwnIds(f) /\ h[i] = EntryOf(i, N)'
  BY <1>2, <1>5
<1>11. ASSUME NEW x \in 1..m
       PROVE  \E i \in OwnIds(f) : N \in GroupsOf(i)' /\ e[x] = EntryOf(i, N)'
  BY <1>8, <1>10
<1>12. ASSUME NEW i \in OwnIds(f), N \in GroupsOf(i)'
       PROVE  \E x \in 1..m : e[x] = EntryOf(i, N)'
  BY <1>2, <1>7, <1>8, <1>10, <1>12
<1> QED
  BY <1>9, <1>11, <1>12 DEF EntrySeq

(* A commit appends its entries to each log. *)
LEMMA LogGrows ==
  ASSUME Typed, NEW g, Committed(g), NEW f \in Feeds, NEW N, N = Sequence + 1
  PROVE  Log(f)' = Log(f) \o Entries(f, N)'
<1>1. PICK L : L = Sequence
  OBVIOUS
<1>2. L \in Nat /\ Sequence' = L + 1 /\ N = L + 1 /\ N \in 1..N
  BY <1>1, CommittedGroups
<1>3. PICK s : s = [n \in 1..L |-> Entries(f, n)]
  OBVIOUS
<1>4. PICK t : t = [n \in 1..N |-> Entries(f, n)']
  OBVIOUS
<1>5. Log(f) = FlattenSeq(s)
  BY <1>1, <1>3 DEF Log
<1>6. Log(f)' = FlattenSeq(t)
  BY <1>2, <1>4 DEF Log
<1>7. ASSUME NEW n \in 1..L
      PROVE  t[n] = s[n]
  <2>1. Entries(f, n)' = Entries(f, n)
    BY <1>1, EntriesStay
  <2>2. n \in 1..N
    BY <1>2
  <2> QED
    BY <1>3, <1>4, <2>1, <2>2
<1>8. t[N] = Entries(f, N)'
  BY <1>2, <1>4
<1>9. \E T : t[N] \in Seq(T)
  <2>1. PICK e : e = Entries(f, N)'
    OBVIOUS
  <2>2. EntrySeq(f, N, e)'
    BY <2>1, EntriesForms
  <2>3. PICK m \in Nat : e = [x \in 1..m |-> e[x]]
    BY <2>2 DEF EntrySeq
  <2>4. e \in Seq({e[x] : x \in 1..m})
    BY <2>3
  <2> QED
    BY <1>8, <2>1, <2>4
<1>10. FlattenSeq(t) = FlattenSeq(s) \o t[N]
  <2>1. s = [n \in 1..L |-> s[n]] /\ t = [n \in 1..L + 1 |-> t[n]]
    BY <1>2, <1>3, <1>4
  <2>2. t[L + 1] = t[N]
    BY <1>2
  <2>3. \A n \in 1..L : t[n] = s[n]
    BY <1>7
  <2>4. FlattenSeq(t) = FlattenSeq(s) \o t[L + 1]
    BY <1>2, <1>9, <2>1, <2>2, <2>3, FlattenMore, Zenon
  <2> QED
    BY <2>2, <2>4
<1> QED
  BY <1>5, <1>6, <1>8, <1>10

(* The logs of an unchanged journal. *)
LEMMA LogStays ==
  ASSUME UNCHANGED journal, NEW f
  PROVE  Log(f)' = Log(f) /\ (\A log : Ordered(f, log) => Ordered(f, log)')
<1>1. Log(f)' = Log(f)
  BY DEF Log, Entries, EntryOf, Before, Appended, GroupsOf, Sequence
<1>2. \A i, n : EntryOf(i, n)' = EntryOf(i, n)
  BY DEF EntryOf, Before, GroupsOf, Sequence
<1>3. \A i : GroupsOf(i)' = GroupsOf(i)
  BY DEF GroupsOf, Sequence
<1>4. ASSUME NEW log, Ordered(f, log)
      PROVE  Ordered(f, log)'
  BY <1>2, <1>3, <1>4 DEF Ordered
<1> QED
  BY <1>1, <1>4

(* An ordered log with the entries of a group behind it. *)
LEMMA OrderedGrows ==
  ASSUME Typed, NEW g, Committed(g), NEW f \in Feeds, NEW N, N = Sequence + 1,
         NEW log, Ordered(f, log), NEW longer, longer = log \o Entries(f, N)'
  PROVE  Ordered(f, longer)' /\ Extends(longer, log)
<1>1. PICK L : L = Len(log)
  OBVIOUS
<1>2. L \in Nat /\ log = [x \in 1..L |-> log[x]]
  BY <1>1 DEF Ordered
<1>4. /\ N \in 1..Sequence' /\ N \in Nat
      /\ \A i : /\ GroupsOf(i)' = GroupsOf(i) \cup IF i \in DOMAIN g THEN {N} ELSE {}
                /\ \A n \in GroupsOf(i) : n \in Nat /\ n < N
  BY CommittedGroups
<1>5. PICK t : t = Entries(f, N)'
  OBVIOUS
<1>6. PICK m \in Nat :
        /\ t = [x \in 1..m |-> t[x]]
        /\ \A x \in 1..m : \E i \in OwnIds(f) : N \in GroupsOf(i)' /\ t[x] = EntryOf(i, N)'
        /\ \A i \in OwnIds(f) : N \in GroupsOf(i)' => \E x \in 1..m : t[x] = EntryOf(i, N)'
  <2>1. EntrySeq(f, N, t)'
    BY <1>5, EntriesForms
  <2> QED
    BY <2>1 DEF EntrySeq
<1>7. longer = [x \in 1..L + m |-> IF x <= L THEN log[x] ELSE t[x - L]]
  <2>1. longer = log \o t
    BY <1>5
  <2>2. log \o t = [x \in 1..L + m |-> IF x <= L THEN log[x] ELSE t[x - L]]
    <3>1. L \in Nat /\ m \in Nat
      BY <1>2
    <3>2. log = [x \in 1..L |-> log[x]]
      BY <1>2
    <3>3. t = [x \in 1..m |-> t[x]]
      BY <1>6
    <3> QED
      BY <3>1, <3>2, <3>3, ConcatForms
  <2> QED
    BY <2>1, <2>2
<1>8. /\ Len(longer) = L + m /\ L + m \in Nat
      /\ longer = [x \in 1..L + m |-> longer[x]]
      /\ \A x \in 1..L : longer[x] = log[x]
      /\ \A x \in 1..m : L + x \in 1..L + m /\ longer[L + x] = t[x]
      /\ \A x \in 1..L + m : x \in 1..L \/ (x - L \in 1..m /\ longer[x] = t[x - L])
  <2>1. L + m \in Nat
    BY <1>2
  <2>2. PICK k \in Nat : k = L + m
    BY <2>1
  <2>3. longer = [x \in 1..k |-> IF x <= L THEN log[x] ELSE t[x - L]]
    BY <1>7, <2>2
  <2>4. Len(longer) = k /\ longer = [x \in 1..k |-> longer[x]]
    BY <2>3
  <2>5. \A x \in 1..L : x \in 1..k /\ longer[x] = log[x]
    BY <1>2, <2>2, <2>3
  <2>6. ASSUME NEW x \in 1..m
        PROVE  L + x \in 1..L + m /\ longer[L + x] = t[x]
    <3>1. L + x \in 1..k /\ ~(L + x <= L) /\ (L + x) - L = x
      BY <1>2, <2>2
    <3>2. longer[L + x] = t[(L + x) - L]
      BY <2>3, <3>1
    <3> QED
      BY <2>2, <3>1, <3>2
  <2>7. \A x \in 1..L + m : x \in 1..L \/ (x - L \in 1..m /\ longer[x] = t[x - L])
    BY <1>2, <2>2, <2>3
  <2> QED
    BY <2>1, <2>2, <2>4, <2>5, <2>6, <2>7
<1>9. \A i : \A n \in GroupsOf(i) : EntryOf(i, n)' = EntryOf(i, n)
  <2> SUFFICES ASSUME NEW i, NEW n \in GroupsOf(i)
               PROVE  EntryOf(i, n)' = EntryOf(i, n)
    OBVIOUS
  <2> QED
    BY EntryStays
<1>10. ASSUME NEW x \in 1..L + m
       PROVE  \E i \in OwnIds(f) : \E n \in GroupsOf(i)' :
                /\ longer[x] = EntryOf(i, n)'
                /\ \A k \in GroupsOf(i)' : k < n => \E y \in 1..x - 1 : longer[y] = EntryOf(i, k)'
  <2>1. CASE x \in 1..L
    <3>1. PICK i \in OwnIds(f), n \in Nat :
            /\ n \in GroupsOf(i)
            /\ log[x] = EntryOf(i, n)
            /\ \A k \in GroupsOf(i) : k < n => \E y \in 1..x - 1 : log[y] = EntryOf(i, k)
      BY <1>1, <1>4, <2>1 DEF Ordered
    <3>2. n \in GroupsOf(i)' /\ longer[x] = EntryOf(i, n)'
      BY <1>4, <1>8, <1>9, <2>1, <3>1
    <3>3. ASSUME NEW k \in GroupsOf(i)', k < n
          PROVE  \E y \in 1..x - 1 : longer[y] = EntryOf(i, k)'
      <4>1. k \in GroupsOf(i)
        BY <1>4, <3>1, <3>3
      <4>2. PICK y \in 1..x - 1 : log[y] = EntryOf(i, k)
        BY <3>1, <3>3, <4>1
      <4>3. y \in 1..L
        BY <1>2, <2>1
      <4> QED
        BY <1>8, <1>9, <4>1, <4>2, <4>3
    <3> QED
      BY <3>2, <3>3
  <2>2. CASE x \notin 1..L
    <3>1. x - L \in 1..m /\ longer[x] = t[x - L] /\ x > L /\ x \in Nat
      BY <1>2, <1>6, <1>8, <2>2
    <3>2. PICK i \in OwnIds(f) : N \in GroupsOf(i)' /\ t[x - L] = EntryOf(i, N)'
      BY <1>6, <3>1
    <3>3. ASSUME NEW k \in GroupsOf(i)', k < N
          PROVE  \E y \in 1..x - 1 : longer[y] = EntryOf(i, k)'
      <4>1. k \in GroupsOf(i)
        BY <1>4, <3>3
      <4>2. PICK y \in 1..L : log[y] = EntryOf(i, k)
        BY <1>1, <3>2, <4>1 DEF Ordered
      <4>3. y \in 1..x - 1
        BY <1>2, <3>1
      <4> QED
        BY <1>8, <1>9, <4>1, <4>2, <4>3
    <3> QED
      BY <3>1, <3>2, <3>3
  <2> QED
    BY <2>1, <2>2
<1>11. ASSUME NEW i \in OwnIds(f), NEW n \in GroupsOf(i)'
       PROVE  \E x \in 1..L + m : longer[x] = EntryOf(i, n)'
  <2>1. CASE n \in GroupsOf(i)
    <3>1. PICK x \in 1..L : log[x] = EntryOf(i, n)
      BY <1>1, <2>1 DEF Ordered
    <3>2. x \in 1..L + m /\ longer[x] = log[x]
      BY <1>2, <1>6, <1>8
    <3> QED
      BY <1>9, <2>1, <3>1, <3>2
  <2>2. CASE n \notin GroupsOf(i)
    <3>1. n = N
      BY <1>4, <2>2
    <3>2. PICK x \in 1..m : t[x] = EntryOf(i, N)'
      BY <1>6, <3>1
    <3> QED
      BY <1>8, <3>1, <3>2
  <2> QED
    BY <2>1, <2>2
<1>12. Ordered(f, longer)'
  <2>1. Len(longer) = L + m /\ Len(longer) \in Nat /\ longer = [x \in 1..Len(longer) |-> longer[x]]
    BY <1>8
  <2>2. \A x \in 1..Len(longer) : \E i \in OwnIds(f) : \E n \in GroupsOf(i)' :
          /\ longer[x] = EntryOf(i, n)'
          /\ \A k \in GroupsOf(i)' : k < n => \E y \in 1..x - 1 : longer[y] = EntryOf(i, k)'
    BY <1>10, <2>1
  <2>3. \A i \in OwnIds(f) : \A n \in GroupsOf(i)' : \E x \in 1..Len(longer) : longer[x] = EntryOf(i, n)'
    BY <1>11, <2>1
  <2> QED
    BY <2>1, <2>2, <2>3 DEF Ordered
<1>13. Extends(longer, log)
  BY <1>1, <1>2, <1>6, <1>8 DEF Extends
<1> QED
  BY <1>12, <1>13

-----------------------------------------------------------------------------
(* Revisions.                                                              *)

(* History, but for the rows that no log knows of yet. *)
LogHistory ==
  \A i \in Ids :
    /\ \A n \in GroupsOf(i) : journal[n][i].rev = Cardinality(Until(i, n))
    /\ GroupsOf(i) = {} => row[i] = Absent \/ row[i].rev = 1
    /\ GroupsOf(i) # {} =>
         /\ row[i].rev = Cardinality(GroupsOf(i))
         /\ \E n \in GroupsOf(i) : (\A m \in GroupsOf(i) : m <= n) /\ journal[n][i] = row[i]

LEMMA UntilGrows ==
  ASSUME Typed, NEW i, NEW n \in GroupsOf(i)
  PROVE  /\ Cardinality(Until(i, n)) \in Nat /\ Cardinality(Until(i, n)) >= 1
         /\ \A m \in GroupsOf(i) : m < n => Cardinality(Until(i, m)) < Cardinality(Until(i, n))
         /\ \A m \in GroupsOf(i) : m < n /\ (\A k \in GroupsOf(i) : k < n => k <= m) =>
              Cardinality(Until(i, n)) = Cardinality(Until(i, m)) + 1
         /\ (\A m \in GroupsOf(i) : ~(m < n)) => Cardinality(Until(i, n)) = 1
<1> DEFINE past == {m \in GroupsOf(i) : m < n}
<1>1. IsFiniteSet(GroupsOf(i)) /\ GroupsOf(i) \subseteq Nat
  BY GroupsFinite
<1>2. IsFiniteSet(past) /\ n \notin past
  BY <1>1, FS_Subset
<1>3. Until(i, n) = past \cup {n}
  BY <1>1 DEF Until
<1>4. Cardinality(past) \in Nat /\ Cardinality(Until(i, n)) = Cardinality(past) + 1
  BY <1>2, <1>3, FS_AddElement, FS_CardinalityType
<1>5. ASSUME NEW m \in GroupsOf(i), m < n
      PROVE  Cardinality(Until(i, m)) < Cardinality(Until(i, n))
  <2>1. Until(i, m) \in SUBSET past
    BY <1>1, <1>5 DEF Until
  <2>2. Cardinality(Until(i, m)) \in Nat /\ Cardinality(Until(i, m)) <= Cardinality(past)
    BY <1>2, <2>1, FS_Subset, FS_CardinalityType
  <2> QED
    BY <1>4, <2>2
<1>6. ASSUME NEW m \in GroupsOf(i), m < n, \A k \in GroupsOf(i) : k < n => k <= m
      PROVE  Cardinality(Until(i, n)) = Cardinality(Until(i, m)) + 1
  <2>1. Until(i, m) = past
    BY <1>1, <1>6 DEF Until
  <2> QED
    BY <1>4, <2>1
<1>7. ASSUME \A m \in GroupsOf(i) : ~(m < n)
      PROVE  Cardinality(Until(i, n)) = 1
  <2>1. past = {}
    BY <1>7
  <2> QED
    BY <1>4, <2>1, FS_EmptySet
<1> HIDE DEF past
<1> QED
  BY <1>4, <1>5, <1>6, <1>7

(* What the logs take for the entity before a group is its last revision.  *)
LEMMA BeforeForms ==
  ASSUME Typed, LogHistory, NEW i \in Ids, NEW n \in GroupsOf(i)
  PROVE  /\ journal[n][i] \in EntityOf(i)
         /\ \/ /\ Before(i, n) = Absent /\ journal[n][i].rev = 1
            \/ \E p \in GroupsOf(i) : /\ p < n /\ Before(i, n) = journal[p][i]
                                      /\ journal[p][i].rev \in Nat /\ journal[p][i].rev >= 1
                                      /\ journal[n][i].rev = journal[p][i].rev + 1
                                      /\ journal[p][i] \in EntityOf(i)
<1> DEFINE past == {m \in GroupsOf(i) : m < n}
           last == CHOOSE m \in past : \A k \in past : k <= m
<1>1. \A m \in GroupsOf(i) : journal[m] \in Groups /\ i \in DOMAIN journal[m]
  BY DEF Typed, GroupsOf, Sequence
<1>2. \A m \in GroupsOf(i) : journal[m][i] \in EntityOf(i)
  BY <1>1, GroupTyped
<1>3. Before(i, n) = IF past = {} THEN Absent ELSE journal[last][i]
  BY DEF Before
<1>4. CASE past = {}
  <2>1. \A m \in GroupsOf(i) : ~(m < n)
    BY <1>4
  <2>2. journal[n][i].rev = 1
    BY <2>1, UntilGrows DEF LogHistory
  <2> QED
    BY <1>2, <1>3, <1>4, <2>2
<1>5. CASE past # {}
  <2>1. last \in past /\ \A k \in past : k <= last
    <3>1. past \in SUBSET (0..Len(journal)) /\ Len(journal) \in Nat
      BY GroupsFinite
    <3> HIDE DEF past
    <3>2. \E m \in past : \A k \in past : k <= m
      BY <1>5, <3>1, LastOf
    <3> QED
      BY <3>2
  <2> HIDE DEF last
  <2>2. last \in GroupsOf(i) /\ last < n /\ \A k \in GroupsOf(i) : k < n => k <= last
    BY <2>1
  <2>3. Cardinality(Until(i, n)) = Cardinality(Until(i, last)) + 1
    BY <2>2, UntilGrows
  <2>4. Cardinality(Until(i, last)) \in Nat /\ Cardinality(Until(i, last)) >= 1
    BY <2>2, UntilGrows
  <2>5. /\ journal[n][i].rev = Cardinality(Until(i, n))
        /\ journal[last][i].rev = Cardinality(Until(i, last))
    BY <2>2 DEF LogHistory
  <2> QED
    BY <1>2, <1>3, <1>5, <2>2, <2>3, <2>4, <2>5
<1> QED
  BY <1>4, <1>5

(* A committed revision is one entity. *)
LEMMA RevisionTells ==
  ASSUME Typed, LogHistory, NEW i \in Ids, NEW e, Historical(i, e)
  PROVE  /\ e.rev \in Nat
         /\ e.rev = 0 <=> e = Absent
         /\ \A n \in GroupsOf(i) : e.rev = journal[n][i].rev => e = journal[n][i]
<1>1. CASE e = Absent
  <2>1. e.rev = 0
    BY <1>1 DEF Absent
  <2>2. \A n \in GroupsOf(i) : journal[n][i].rev >= 1 /\ journal[n][i].rev \in Nat
    BY UntilGrows DEF LogHistory
  <2> QED
    BY <1>1, <2>1, <2>2
<1>2. CASE e # Absent
  <2>1. PICK m \in GroupsOf(i) : journal[m][i] = e
    BY <1>2 DEF Historical
  <2>2. /\ e.rev = Cardinality(Until(i, m)) /\ e.rev \in Nat /\ e.rev >= 1
    BY <2>1, UntilGrows DEF LogHistory
  <2>3. ASSUME NEW n \in GroupsOf(i), e.rev = journal[n][i].rev
        PROVE  e = journal[n][i]
    <3>1. m \in Nat /\ n \in Nat
      BY GroupsFinite
    <3>2. Cardinality(Until(i, m)) = Cardinality(Until(i, n))
      BY <2>2, <2>3 DEF LogHistory
    <3>3. ~(m < n) /\ ~(n < m)
      <4>1. m < n => Cardinality(Until(i, m)) < Cardinality(Until(i, n))
        BY UntilGrows
      <4>2. n < m => Cardinality(Until(i, n)) < Cardinality(Until(i, m))
        BY UntilGrows
      <4>3. Cardinality(Until(i, m)) \in Nat /\ Cardinality(Until(i, n)) \in Nat
        BY UntilGrows
      <4> QED
        BY <3>2, <4>1, <4>2, <4>3
    <3> QED
      BY <2>1, <3>1, <3>3
  <2>4. e.rev # 0
    BY <2>2
  <2> QED
    BY <1>2, <2>2, <2>3, <2>4
<1> QED
  BY <1>1, <1>2

-----------------------------------------------------------------------------
(* Operations.                                                             *)

(* An operation follows the entity before its group, and makes the entity  *)
(* of the group of it.                                                     *)
LEMMA EntryFits ==
  ASSUME Typed, LogHistory, NEW i \in Ids, NEW n \in GroupsOf(i)
  PROVE  LET e == Before(i, n)
             op == EntryOf(i, n)
         IN ~Refuses(e, op) /\ EntityAfter(e, op) = journal[n][i]
<1>1. PICK e : e = Before(i, n)
  OBVIOUS
<1>2. PICK next : next = journal[n][i]
  OBVIOUS
<1>3. /\ e \in EntityOf(i) /\ next \in EntityOf(i)
      /\ e.rev \in Nat /\ next.rev = e.rev + 1
      /\ e.rev > 0 \/ ~Live(e)
  <2>1. Absent \in EntityOf(i) /\ Absent.rev = 0 /\ ~Live(Absent)
    BY AbsentEntity DEF Absent, Live
  <2> QED
    BY <1>1, <1>2, <2>1, BeforeForms
<1> DEFINE F == IF Live(e) \/ Live(next) THEN DiffFields(i, e, next) ELSE {}
<1>4. PICK op : op = LogEntry(i, e, next)
  OBVIOUS
<1>5. /\ op.rev = next.rev /\ op.kind = Kind(e, next)
      /\ op.old = ValuesOf(e, F) /\ op.new = ValuesOf(next, F)
  BY <1>4 DEF LogEntry
<1>6. /\ Live(e) => DOMAIN op.old = F /\ \A f \in F : op.old[f] = e.data[f]
      /\ ~Live(e) => DOMAIN op.old = {}
      /\ Live(next) => DOMAIN op.new = F /\ \A f \in F : op.new[f] = next.data[f]
      /\ ~Live(next) => DOMAIN op.new = {}
  <2>1. DOMAIN <<>> = {}
    OBVIOUS
  <2> HIDE DEF F
  <2> QED
    BY <1>5, <2>1 DEF ValuesOf
<1>7. ~Refuses(e, op)
  <2>1. op.kind = "create" <=> Live(next) /\ ~Live(e)
    BY <1>5 DEF Kind
  <2>2. op.kind = "update" => Live(e)
    BY <1>5 DEF Kind
  <2>3. op.kind # "create" /\ ~Live(e) => ~Live(next)
    BY <2>1
  <2>4. \A f \in DOMAIN op.old \cup DOMAIN op.new :
          op.kind # "create" =>
            IF Live(e) THEN f \in DOMAIN op.old /\ op.old[f] = e.data[f] ELSE f \notin DOMAIN op.old
    <3> HIDE DEF F
    <3> QED
      BY <1>6, <2>3
  <2> QED
    BY <1>3, <1>5, <2>2, <2>4 DEF Refuses
<1>8. EntityAfter(e, op) = next
  <2>1. next = [rev |-> next.rev, data |-> next.data] /\ next.data \in DataOf(i) \cup {None}
    BY <1>3, EntityIsRow
  <2>2. CASE ~Live(next)
    <3>1. op.kind = "delete" /\ next.data = None
      BY <1>5, <2>2 DEF Kind, Live
    <3> QED
      BY <1>5, <2>1, <3>1 DEF EntityAfter
  <2>3. CASE Live(next)
    <3>1. op.kind # "delete" /\ (op.kind = "create" <=> ~Live(e))
      BY <1>5, <2>3 DEF Kind
    <3>2. next.data \in DataOf(i) /\ next.data \in [Fields -> FieldValue]
      BY <2>1, <2>3, DataForms DEF Live
    <3>3. Live(e) => e.data \in DataOf(i)
      BY <1>3, EntityIsRow DEF Live
    <3>4. F = {f \in FieldsOf(i) : ~Live(e) \/ e.data[f] # next.data[f]}
      BY <2>3 DEF DiffFields
    <3>5. ASSUME NEW f \in Fields
          PROVE  next.data[f] = IF f \in DOMAIN op.new THEN op.new[f]
                                ELSE IF op.kind = "create" THEN None ELSE e.data[f]
      <4>1. DOMAIN op.new = F /\ (f \in F => op.new[f] = next.data[f])
        BY <1>6, <2>3
      <4>2. CASE f \in FieldsOf(i)
        <5> HIDE DEF F
        <5> QED
          BY <3>1, <3>4, <4>1, <4>2
      <4>3. CASE f \notin FieldsOf(i)
        <5>1. f = "ref" /\ i \notin Children /\ f \notin F
          BY <3>4, <4>3 DEF FieldsOf, Fields
        <5>2. next.data[f] = None
          BY <3>2, <5>1, DataForms
        <5>3. Live(e) => e.data[f] = None
          BY <3>3, <5>1, DataForms
        <5> HIDE DEF F
        <5> QED
          BY <3>1, <4>1, <5>1, <5>2, <5>3
      <4> QED
        BY <4>2, <4>3
    <3>6. next.data = [f \in Fields |-> next.data[f]]
      BY <3>2
    <3>7. EntityAfter(e, op).data = next.data
      <4> HIDE DEF F
      <4> QED
        BY <3>1, <3>5, <3>6 DEF EntityAfter
    <3>8. EntityAfter(e, op) = [rev |-> op.rev, data |-> EntityAfter(e, op).data]
      BY DEF EntityAfter
    <3> QED
      BY <1>5, <2>1, <3>7, <3>8
  <2> QED
    BY <2>2, <2>3
<1> HIDE DEF F
<1> QED
  BY <1>1, <1>2, <1>4, <1>7, <1>8 DEF EntryOf

(* Shadows are committed revisions. *)
Heard(d) == \A i \in Ids : Historical(i, d.shadow[i])

(* What an operation leaves alone, and how it moves the shadows. *)
Advances(d, e) ==
  /\ Replica(e) /\ Heard(e)
  /\ e.outbox = d.outbox /\ e.cursor = d.cursor /\ e.reset = d.reset
  /\ \A i \in Ids : e.shadow[i].rev >= d.shadow[i].rev

(* Nothing is merged but a committed revision. *)
Merges(d, e) ==
  \/ e = d
  \/ \E g : EntityGroup(g) /\ HistoricalGroup(g) /\ e = ApplyGroup(d, g)

(* What becomes of d keeps what was edited. *)
KeepsRows(d, e) ==
  \A i \in Ids : Waits(d) /\ Story(HistoryOf(i)) => Kept(d, e, i, HistoryOf(i))

LEMMA KeepsFirst ==
  ASSUME NEW d, Replica(d), Heard(d)
  PROVE  KeepsRows(d, d)
<1> SUFFICES ASSUME NEW i \in Ids, Waits(d)
             PROVE  Kept(d, d, i, HistoryOf(i))
  BY DEF KeepsRows
<1>1. d.shadow[i] \in HistoryOf(i) /\ d.shadow[i].rev \in Nat
  BY InHistory, ShadowRowForms DEF Heard
<1> QED
  BY <1>1 DEF Kept

LEMMA KeepsFurther ==
  ASSUME NEW d, Replica(d), NEW a, KeepsRows(d, a), NEW e, Merges(a, e)
  PROVE  KeepsRows(d, e)
<1> SUFFICES ASSUME NEW i \in Ids, Waits(d), Story(HistoryOf(i))
             PROVE  Kept(d, e, i, HistoryOf(i))
  BY DEF KeepsRows
<1>1. Kept(d, a, i, HistoryOf(i))
  BY DEF KeepsRows
<1>2. CASE e = a
  BY <1>1, <1>2
<1>3. ASSUME NEW g, EntityGroup(g), HistoricalGroup(g), e = ApplyGroup(a, g)
      PROVE  Kept(d, e, i, HistoryOf(i))
  <2>1. i \in DOMAIN g => g[i] \in HistoryOf(i)
    BY <1>3, InHistory DEF HistoricalGroup
  <2> QED
    BY <1>1, <1>3, <2>1, KeptFurther
<1> QED
  BY <1>2, <1>3 DEF Merges

(* The operation of a group is known, or follows the shadow, when those of *)
(* the entity's earlier groups are known.                                  *)
LEMMA OperationApplied ==
  ASSUME Typed, LogHistory, NEW d, Replica(d), Heard(d), NEW i \in Ids, NEW n \in GroupsOf(i),
         \A m \in GroupsOf(i) : m < n => d.shadow[i].rev >= journal[m][i].rev,
         NEW s, s = [db |-> d, refused |-> FALSE]
  PROVE  LET t == ApplyOperation(s, EntryOf(i, n))
         IN /\ t = [db |-> t.db, refused |-> FALSE]
            /\ Advances(d, t.db) /\ Merges(d, t.db)
            /\ t.db.shadow[i].rev >= journal[n][i].rev
<1>1. PICK op : op = EntryOf(i, n)
  OBVIOUS
<1>2. PICK e : e = d.shadow[i]
  OBVIOUS
<1>3. PICK next : next = journal[n][i]
  OBVIOUS
<1>4. op.id = i /\ op.rev = next.rev
  BY <1>1, <1>3, EntryForms
<1>5. /\ e.rev \in Nat
      /\ e.rev = 0 <=> e = Absent
      /\ \A m \in GroupsOf(i) : e.rev = journal[m][i].rev => e = journal[m][i]
  BY <1>2, RevisionTells DEF Heard
<1>6. next \in EntityOf(i) /\ next.rev \in Nat
  BY <1>3, BeforeForms, EntityIsRow
<1>7. s.db = d /\ s.refused = FALSE
  OBVIOUS
<1>8. CASE Known(e, op)
  <2>1. ApplyOperation(s, op) = s
    BY <1>2, <1>4, <1>7, <1>8 DEF ApplyOperation
  <2>2. \A k \in Ids : d.shadow[k].rev \in Nat
    BY EntityIsRow DEF Replica, Fit
  <2>3. Advances(d, d) /\ Merges(d, d)
    BY <2>2 DEF Advances, Merges
  <2>4. d.shadow[i].rev >= journal[n][i].rev
    BY <1>2, <1>3, <1>4, <1>5, <1>6, <1>8 DEF Known
  <2> QED
    BY <1>1, <1>7, <2>1, <2>3, <2>4
<1>9. CASE ~Known(e, op)
  <2>1. e.rev < next.rev
    BY <1>4, <1>5, <1>6, <1>9 DEF Known
  <2>2. e = Before(i, n)
    <3>1. CASE Before(i, n) = Absent /\ next.rev = 1
      BY <1>5, <2>1, <3>1
    <3>2. CASE \E p \in GroupsOf(i) : /\ p < n /\ Before(i, n) = journal[p][i]
                                      /\ journal[p][i].rev \in Nat
                                      /\ next.rev = journal[p][i].rev + 1
      <4>1. PICK p \in GroupsOf(i) : /\ p < n /\ Before(i, n) = journal[p][i]
                                     /\ journal[p][i].rev \in Nat
                                     /\ next.rev = journal[p][i].rev + 1
        BY <3>2
      <4>2. e.rev >= journal[p][i].rev
        BY <1>2, <4>1
      <4>3. e.rev = journal[p][i].rev
        BY <1>5, <2>1, <4>1, <4>2
      <4> QED
        BY <1>5, <4>1, <4>3
    <3> QED
      BY <1>3, <3>1, <3>2, BeforeForms
  <2>3. ~Refuses(e, op) /\ EntityAfter(e, op) = next
    BY <1>1, <1>3, <2>2, EntryFits
  <2>4. PICK g : g = [k \in {i} |-> next]
    OBVIOUS
  <2>5. DOMAIN g = {i} /\ g[i] = next
    BY <2>4
  <2>6. EntityGroup(g)
    BY <1>6, <2>5 DEF EntityGroup
  <2>7. ApplyOperation(s, op) = [db |-> ApplyGroup(d, g), refused |-> FALSE]
    <3>1. ApplyOperation(s, op) = [s EXCEPT !.db = ApplyGroup(@, [k \in {op.id} |-> EntityAfter(e, op)])]
      BY <1>2, <1>4, <1>7, <1>9, <2>3 DEF ApplyOperation
    <3>2. [k \in {op.id} |-> EntityAfter(e, op)] = g
      BY <1>4, <2>3, <2>4
    <3>3. ApplyOperation(s, op) = [s EXCEPT !.db = ApplyGroup(d, g)]
      BY <1>7, <3>1, <3>2
    <3> QED
      BY <3>3
  <2>8. PICK u : u = ApplyGroup(d, g)
    OBVIOUS
  <2>9. /\ Replica(u)
        /\ u.outbox = d.outbox /\ u.cursor = d.cursor /\ u.reset = d.reset
        /\ \A k \in Ids :
             /\ u.shadow[k] = d.shadow[k] \/ (k \in DOMAIN g /\ u.shadow[k] = g[k])
             /\ u.shadow[k].rev >= d.shadow[k].rev
             /\ k \in DOMAIN g => u.shadow[k].rev >= g[k].rev
    BY <2>6, <2>8, GroupApplied
  <2>10. Heard(u)
    BY <1>3, <2>5, <2>9 DEF Heard, Historical
  <2>11. Advances(d, u) /\ u.shadow[i].rev >= next.rev
    BY <2>5, <2>9, <2>10 DEF Advances
  <2>15. HistoricalGroup(g)
    BY <1>3, <2>5 DEF HistoricalGroup, Historical
  <2>16. Merges(d, u)
    BY <2>6, <2>8, <2>15 DEF Merges
  <2>12. PICK t : t = ApplyOperation(s, EntryOf(i, n))
    OBVIOUS
  <2>13. t = [db |-> u, refused |-> FALSE]
    BY <1>1, <2>7, <2>8, <2>12
  <2>14. t.db = u
    BY <2>13
  <2> QED
    BY <1>3, <2>11, <2>12, <2>13, <2>14, <2>16
<1> QED
  BY <1>8, <1>9

(* The states after each of the first L operations. *)
OperationStages(after, s, ops, L) ==
  /\ after[0] = s
  /\ \A n \in 0..L - 1 : after[n + 1] = ApplyOperation(after[n], ops[n + 1])
  /\ FoldLeft(ApplyOperation, s, ops) = after[L]

LEMMA FoldOperations ==
  ASSUME NEW s0, NEW ops, NEW L \in Nat, DOMAIN ops = 1..L
  PROVE  \E after : OperationStages(after, s0, ops, L)
<1> DEFINE Fold(D, h) == h = [s \in SUBSET D |-> IF s = {} THEN s0
                                ELSE ApplyOperation(h[s \ {Max(s)}], ops[Max(s)])]
           S == {m \in Nat : \E h : Fold(1..m, h)}
<1>1. ASSUME NEW m \in Nat, NEW s \in SUBSET (1..m), m \in s
      PROVE  Max(s) = m /\ s \ {m} \in SUBSET (1..m - 1)
  <2>1. m \in s /\ \A y \in s : m >= y
    BY <1>1
  <2>2. ASSUME NEW x \in s, \A y \in s : x >= y
        PROVE  x = m
    <3>1. x >= m /\ m >= x /\ x \in Nat
      BY <2>1, <2>2
    <3> QED
      BY <3>1
  <2>3. Max(s) = m
    BY <2>1, <2>2 DEF Max
  <2> QED
    BY <1>1, <2>3
<1>2. 0 \in S
  <2> DEFINE h == [s \in SUBSET (1..0) |-> s0]
  <2>1. \A s \in SUBSET (1..0) : s = {}
    OBVIOUS
  <2>2. Fold(1..0, h)
    BY <2>1
  <2> QED
    BY <2>2
<1>3. ASSUME NEW m \in Nat, m \in S
      PROVE  m + 1 \in S
  <2>1. PICK h : Fold(1..m, h)
    BY <1>3
  <2> DEFINE k == [s \in SUBSET (1..m + 1) |->
                     IF s \in SUBSET (1..m) THEN h[s]
                     ELSE ApplyOperation(h[s \ {m + 1}], ops[m + 1])]
  <2>2. ASSUME NEW s \in SUBSET (1..m + 1)
        PROVE  k[s] = IF s = {} THEN s0 ELSE ApplyOperation(k[s \ {Max(s)}], ops[Max(s)])
    <3>1. CASE s \in SUBSET (1..m) /\ s = {}
      BY <2>1, <3>1
    <3>2. CASE s \in SUBSET (1..m) /\ s # {}
      <4>1. s \ {Max(s)} \in SUBSET (1..m) /\ s \ {Max(s)} \in SUBSET (1..m + 1)
        BY <3>2
      <4>2. k[s \ {Max(s)}] = h[s \ {Max(s)}] /\ k[s] = h[s]
        BY <3>2, <4>1
      <4> HIDE DEF k
      <4> QED
        BY <2>1, <3>2, <4>2
    <3>3. CASE s \notin SUBSET (1..m)
      <4>1. m + 1 \in s
        BY <3>3
      <4>2. Max(s) = m + 1 /\ s \ {m + 1} \in SUBSET (1..m)
        BY <1>1, <4>1
      <4>3. k[s] = ApplyOperation(h[s \ {m + 1}], ops[m + 1])
        BY <3>3
      <4>4. k[s \ {m + 1}] = h[s \ {m + 1}]
        BY <4>2
      <4> HIDE DEF k
      <4> QED
        BY <4>1, <4>2, <4>3, <4>4
    <3> QED
      BY <3>1, <3>2, <3>3
  <2>3. Fold(1..m + 1, k)
    <3>1. k = [s \in SUBSET (1..m + 1) |-> k[s]]
      OBVIOUS
    <3> HIDE DEF k
    <3> QED
      BY <2>2, <3>1
  <2> HIDE DEF Fold, k
  <2>4. \E f : Fold(1..m + 1, f)
    BY <2>3
  <2> QED
    BY <2>4
<1>4. \E h : Fold(1..L, h)
  <2>1. L \in S
    <3> HIDE DEF S
    <3> QED
      BY <1>2, <1>3, Induction
  <2> QED
    BY <2>1
<1> DEFINE iter == CHOOSE h : Fold(1..L, h)
           after == [n \in 0..L |-> iter[1..n]]
<1>5. FoldLeft(ApplyOperation, s0, ops) = iter[1..L]
  BY DEF FoldLeft, MapThenFoldSet
<1>6. iter = [s \in SUBSET (1..L) |-> IF s = {} THEN s0
                ELSE ApplyOperation(iter[s \ {Max(s)}], ops[Max(s)])]
  <2>1. Fold(1..L, iter)
    <3> HIDE DEF Fold
    <3> QED
      BY <1>4
  <2> QED
    BY <2>1
<1> HIDE DEF iter
<1>7. after[0] = s0
  <2>1. 1..0 = {} /\ 1..0 \in SUBSET (1..L)
    OBVIOUS
  <2>2. iter[1..0] = s0
    BY <1>6, <2>1
  <2> QED
    BY <2>2
<1>8. ASSUME NEW n \in 0..L - 1
      PROVE  after[n + 1] = ApplyOperation(after[n], ops[n + 1])
  <2>1. /\ 1..n + 1 \in SUBSET (1..L) /\ n + 1 \in 1..n + 1
        /\ (1..n + 1) \ {n + 1} = 1..n
    OBVIOUS
  <2>2. Max(1..n + 1) = n + 1
    BY <1>1, n + 1 \in Nat
  <2>3. iter[1..n + 1] = ApplyOperation(iter[1..n], ops[n + 1])
    BY <1>6, <2>1, <2>2
  <2>4. n \in 0..L /\ n + 1 \in 0..L
    OBVIOUS
  <2> QED
    BY <2>3, <2>4
<1>9. FoldLeft(ApplyOperation, s0, ops) = after[L]
  BY <1>5
<1> HIDE DEF after
<1> QED
  BY <1>7, <1>8, <1>9 DEF OperationStages

(* The entities have reached the first a entries of the log. *)
Covers(d, log, a) == \A x \in 1..a : d.shadow[log[x].id].rev >= log[x].rev

(* Entry x of the log is that of group n for entity i, behind those of the *)
(* entity's earlier groups.                                                *)
EntryAt(log, x, i, n) ==
  /\ i \in Ids /\ n \in GroupsOf(i)
  /\ log[x] = EntryOf(i, n) /\ log[x].id = i /\ log[x].rev = journal[n][i].rev
  /\ journal[n][i].rev \in Nat
  /\ \A m \in GroupsOf(i) : m < n =>
       \E y \in 1..x - 1 : log[y].id = i /\ log[y].rev = journal[m][i].rev

LEMMA EntryOrdered ==
  ASSUME Typed, LogHistory, NEW f \in Feeds, NEW log, Ordered(f, log), NEW x \in 1..Len(log)
  PROVE  \E i, n : EntryAt(log, x, i, n)
<1>0. \A y \in 1..Len(log) : \E i \in OwnIds(f) : \E n \in GroupsOf(i) :
        /\ log[y] = EntryOf(i, n)
        /\ \A m \in GroupsOf(i) : m < n => \E k \in 1..y - 1 : log[k] = EntryOf(i, m)
  BY Zenon DEF Ordered
<1>1. PICK i, n :
        /\ i \in OwnIds(f) /\ n \in GroupsOf(i)
        /\ log[x] = EntryOf(i, n)
        /\ \A m \in GroupsOf(i) : m < n => \E y \in 1..x - 1 : log[y] = EntryOf(i, m)
  BY <1>0
<1>2. i \in Ids
  BY <1>1, OwnForms
<1>3. log[x].id = i /\ log[x].rev = journal[n][i].rev
  BY <1>1, EntryForms
<1>4. journal[n][i].rev \in Nat
  BY <1>1, <1>2, BeforeForms, EntityIsRow
<1>5. ASSUME NEW m \in GroupsOf(i), m < n
      PROVE  \E y \in 1..x - 1 : log[y].id = i /\ log[y].rev = journal[m][i].rev
  <2>1. PICK y \in 1..x - 1 : log[y] = EntryOf(i, m)
    BY <1>1, <1>5
  <2> QED
    BY <2>1, EntryForms
<1> QED
  BY <1>1, <1>2, <1>3, <1>4, <1>5 DEF EntryAt

(* Shadows that advance cover what they covered. *)
LEMMA CoversStays ==
  ASSUME Typed, LogHistory, NEW f \in Feeds, NEW log, Ordered(f, log), NEW a \in 0..Len(log),
         NEW d, \A i \in Ids : d.shadow[i].rev \in Nat, Covers(d, log, a),
         NEW e, \A i \in Ids : e.shadow[i].rev \in Nat /\ e.shadow[i].rev >= d.shadow[i].rev
  PROVE  Covers(e, log, a)
<1> SUFFICES ASSUME NEW x \in 1..a
             PROVE  e.shadow[log[x].id].rev >= log[x].rev
  BY DEF Covers
<1>1. Len(log) \in Nat
  BY DEF Ordered
<1>2. x \in 1..Len(log)
  BY <1>1
<1>3. PICK i, n : EntryAt(log, x, i, n)
  BY <1>2, EntryOrdered
<1>4. d.shadow[log[x].id].rev >= log[x].rev
  BY DEF Covers
<1>5. \A p, q, r \in Nat : p >= q /\ q >= r => p >= r
  OBVIOUS
<1> QED
  BY <1>3, <1>4, <1>5 DEF EntryAt

LEMMA AdvancesForms ==
  ASSUME NEW d, NEW e, Replica(d), Replica(e)
  PROVE  \A i \in Ids : d.shadow[i].rev \in Nat /\ e.shadow[i].rev \in Nat
BY EntityIsRow DEF Replica, Fit

(* The next L operations of a log, on shadows that have reached the first  *)
(* a: none of them is refused, and the shadows reach them.                 *)
LEMMA OperationsApplied ==
  ASSUME Typed, LogHistory, NEW f \in Feeds, NEW log, Ordered(f, log),
         NEW d, Replica(d), Heard(d), NEW a \in Nat, NEW L \in Nat, a + L <= Len(log),
         Covers(d, log, a), NEW ops, DOMAIN ops = 1..L, \A x \in 1..L : ops[x] = log[a + x]
  PROVE  LET t == ApplyOperations(d, ops)
         IN /\ ~t.refused
            /\ Advances(d, t.db) /\ Covers(t.db, log, a + L)
            /\ KeepsRows(d, t.db)
<1>1. PICK s0 : s0 = [db |-> d, refused |-> FALSE]
  OBVIOUS
<1>2. PICK after : OperationStages(after, s0, ops, L)
  BY FoldOperations
<1>3. /\ after[0] = s0
      /\ \A m \in 0..L - 1 : after[m + 1] = ApplyOperation(after[m], ops[m + 1])
      /\ ApplyOperations(d, ops) = after[L]
  BY <1>1, <1>2 DEF OperationStages, ApplyOperations
<1>4. Len(log) \in Nat
  BY DEF Ordered
<1> DEFINE Good(s, m) == /\ s = [db |-> s.db, refused |-> FALSE]
                         /\ Advances(d, s.db)
                         /\ Covers(s.db, log, a + m)
                         /\ KeepsRows(d, s.db)
           S == {m \in Nat : m <= L => Good(after[m], m)}
<1>5. 0 \in S
  <2>1. \A i \in Ids : d.shadow[i].rev \in Nat
    BY AdvancesForms
  <2>2. Advances(d, d)
    BY <2>1 DEF Advances
  <2>3. s0.db = d /\ a + 0 = a
    BY <1>1
  <2>4. Good(s0, 0)
    BY <1>1, <2>2, <2>3, KeepsFirst
  <2> QED
    BY <1>3, <2>4
<1>6. ASSUME NEW m \in Nat, m \in S
      PROVE  m + 1 \in S
  <2> SUFFICES ASSUME m + 1 <= L
               PROVE  Good(after[m + 1], m + 1)
    OBVIOUS
  <2>1. PICK s : s = after[m]
    OBVIOUS
  <2>2. Good(s, m)
    BY <1>6, <2>1
  <2>3. PICK b : b = s.db
    OBVIOUS
  <2>4. /\ s = [db |-> b, refused |-> FALSE]
        /\ Advances(d, b) /\ Covers(b, log, a + m)
        /\ KeepsRows(d, b)
    BY <2>2, <2>3
  <2>5. PICK x : x = a + (m + 1)
    OBVIOUS
  <2>6. x \in 1..Len(log) /\ x - 1 = a + m /\ a + m \in 0..Len(log)
    BY <1>4, <2>5
  <2>7. PICK i, n : EntryAt(log, x, i, n)
    BY <2>6, EntryOrdered
  <2>8. /\ i \in Ids /\ n \in GroupsOf(i)
        /\ log[x] = EntryOf(i, n) /\ log[x].id = i /\ log[x].rev = journal[n][i].rev
        /\ journal[n][i].rev \in Nat
        /\ \A k \in GroupsOf(i) : k < n =>
             \E y \in 1..x - 1 : log[y].id = i /\ log[y].rev = journal[k][i].rev
    BY <2>7 DEF EntryAt
  <2>9. \A k \in GroupsOf(i) : k < n => b.shadow[i].rev >= journal[k][i].rev
    BY <2>4, <2>6, <2>8 DEF Covers
  <2>10. after[m + 1] = ApplyOperation(s, EntryOf(i, n))
    <3>1. m \in 0..L - 1 /\ m + 1 \in 1..L
      OBVIOUS
    <3>2. ops[m + 1] = log[x]
      BY <2>5, <3>1
    <3> QED
      BY <1>3, <2>1, <2>8, <3>1, <3>2
  <2>11. PICK t : t = after[m + 1]
    OBVIOUS
  <2>12. /\ t = [db |-> t.db, refused |-> FALSE]
         /\ Advances(b, t.db) /\ Merges(b, t.db)
         /\ t.db.shadow[i].rev >= journal[n][i].rev
    <3>1. Replica(b) /\ Heard(b) /\ i \in Ids /\ n \in GroupsOf(i)
      BY <2>4, <2>8 DEF Advances
    <3>2. LET r == ApplyOperation(s, EntryOf(i, n))
          IN /\ r = [db |-> r.db, refused |-> FALSE]
             /\ Advances(b, r.db) /\ Merges(b, r.db)
             /\ r.db.shadow[i].rev >= journal[n][i].rev
      BY <2>4, <2>9, <3>1, OperationApplied
    <3> QED
      BY <2>10, <2>11, <3>2
  <2>13. PICK u : u = t.db
    OBVIOUS
  <2>14. Replica(b) /\ Replica(u)
    BY <2>4, <2>12, <2>13 DEF Advances
  <2>15. \A k \in Ids : /\ b.shadow[k].rev \in Nat /\ u.shadow[k].rev \in Nat
                        /\ d.shadow[k].rev \in Nat
    BY <2>14, AdvancesForms
  <2>16. \A k \in Ids : u.shadow[k].rev >= b.shadow[k].rev /\ b.shadow[k].rev >= d.shadow[k].rev
    BY <2>4, <2>12, <2>13 DEF Advances
  <2>17. Advances(d, u)
    BY <2>4, <2>12, <2>13, <2>15, <2>16 DEF Advances
  <2>18. Covers(u, log, a + m)
    BY <2>4, <2>6, <2>15, <2>16, CoversStays
  <2>19. Covers(u, log, a + (m + 1))
    <3> SUFFICES ASSUME NEW y \in 1..a + (m + 1)
                 PROVE  u.shadow[log[y].id].rev >= log[y].rev
      BY DEF Covers
    <3>1. y \in 1..a + m \/ y = x
      BY <2>5
    <3> QED
      BY <2>8, <2>12, <2>13, <2>18, <3>1 DEF Covers
  <2>20. KeepsRows(d, u)
    BY <2>4, <2>12, <2>13, KeepsFurther
  <2> QED
    BY <2>11, <2>12, <2>13, <2>17, <2>19, <2>20
<1>7. Good(after[L], L)
  <2>1. L \in S
    <3> HIDE DEF S
    <3> QED
      BY <1>5, <1>6, Induction
  <2> QED
    BY <2>1
<1>8. PICK t : t = ApplyOperations(d, ops)
  OBVIOUS
<1>9. /\ t = [db |-> t.db, refused |-> FALSE]
      /\ Advances(d, t.db) /\ Covers(t.db, log, a + L) /\ KeepsRows(d, t.db)
  BY <1>3, <1>7, <1>8
<1>10. ~t.refused
  BY <1>9
<1> QED
  BY <1>8, <1>9, <1>10

-----------------------------------------------------------------------------
(* Pages.                                                                  *)

(* The page is the log's, after a given position. *)
PageFits(page, log, a) ==
  /\ page.next \in a..Len(log)
  /\ DOMAIN page.ops = 1..page.next - a
  /\ \A x \in 1..page.next - a : page.ops[x] = log[a + x]

LEMMA SubSeqForms ==
  ASSUME NEW log, NEW a \in Nat, NEW b \in Nat, a <= b
  PROVE  LET s == SubSeq(log, a + 1, b)
         IN DOMAIN s = 1..b - a /\ \A x \in 1..b - a : s[x] = log[a + x]
<1> DEFINE T == {log[x] : x \in 1..b}
<1>1. \A x \in a + 1..b : log[x] \in T
  OBVIOUS
<1> HIDE DEF T
<1>2. PICK s : s = SubSeq(log, a + 1, b)
  OBVIOUS
<1>3. a + 1 \in Int /\ b \in Int
  OBVIOUS
<1>4. /\ s \in Seq(T)
      /\ Len(s) = IF a + 1 <= b THEN b - (a + 1) + 1 ELSE 0
      /\ \A x \in 1..b - (a + 1) + 1 : s[x] = log[a + 1 + x - 1]
  BY <1>1, <1>2, <1>3, SubSeqProperties
<1>5. Len(s) = b - a /\ b - (a + 1) + 1 = b - a
  BY <1>4
<1>6. DOMAIN s = 1..b - a
  BY <1>4, <1>5
<1>7. \A x \in 1..b - a : a + 1 + x - 1 = a + x
  OBVIOUS
<1> QED
  BY <1>2, <1>4, <1>5, <1>6, <1>7

LEMMA PageFromFits ==
  ASSUME NEW log, Len(log) \in Nat, NEW a \in 0..Len(log)
  PROVE  PageFits(PageFrom(log, a), log, a)
<1>1. PICK page : page = PageFrom(log, a)
  OBVIOUS
<1>2. PICK b : b = page.next
  OBVIOUS
<1>3. b = IF Len(log) <= a + PageSize THEN Len(log) ELSE a + PageSize
  BY <1>1, <1>2 DEF PageFrom
<1>4. a \in Nat /\ b \in Nat /\ a <= b /\ b \in a..Len(log)
  BY <1>3, SystemAssumption
<1>5. page.ops = SubSeq(log, a + 1, b)
  BY <1>1, <1>3 DEF PageFrom
<1>6. DOMAIN page.ops = 1..b - a /\ \A x \in 1..b - a : page.ops[x] = log[a + x]
  BY <1>4, <1>5, SubSeqForms
<1> QED
  BY <1>1, <1>2, <1>4, <1>6 DEF PageFits

(* A longer log has the same page. *)
LEMMA PageFitsLonger ==
  ASSUME NEW log, Len(log) \in Nat, NEW longer, Len(longer) \in Nat, Extends(longer, log),
         NEW a \in Nat, NEW page, PageFits(page, log, a)
  PROVE  PageFits(page, longer, a)
<1>1. PICK M : M = Len(log)
  OBVIOUS
<1>2. PICK N : N = Len(longer)
  OBVIOUS
<1>3. N >= M /\ M \in Nat /\ N \in Nat /\ \A x \in 1..M : longer[x] = log[x]
  BY <1>1, <1>2 DEF Extends
<1>4. /\ page.next \in a..M
      /\ DOMAIN page.ops = 1..page.next - a
      /\ \A x \in 1..page.next - a : page.ops[x] = log[a + x]
  BY <1>1 DEF PageFits
<1>5. \A x \in 1..page.next - a : a + x \in 1..M
  BY <1>3, <1>4
<1>6. page.next \in a..N
  BY <1>3, <1>4
<1> QED
  BY <1>2, <1>3, <1>4, <1>5, <1>6 DEF PageFits

-----------------------------------------------------------------------------
(* The invariant.                                                          *)

(* A model whose log has begun has no rows that the log does not know of.  *)
BackfilledWhole ==
  \A f \in Feeds : (\E i \in OwnIds(f) : GroupsOf(i) # {}) =>
    \A i \in OwnIds(f) : GroupsOf(i) = {} => row[i].rev = 0

LogServerInv ==
  /\ Typed /\ LogHistory /\ BackfilledWhole
  /\ References /\ RepliesReceipted /\ WritersInv
  /\ LogsOrdered

LEMMA LogBegun ==
  ASSUME Typed, NEW f \in Feeds, Ordered(f, Log(f))
  PROVE  Log(f) = <<>> <=> \A i \in OwnIds(f) : GroupsOf(i) = {}
<1>1. PICK log : log = Log(f)
  OBVIOUS
<1>2. PICK L : L = Len(log)
  OBVIOUS
<1>3. /\ L \in Nat /\ log = [x \in 1..L |-> log[x]]
      /\ \A x \in 1..L : \E i \in OwnIds(f) : GroupsOf(i) # {}
      /\ \A i \in OwnIds(f) : \A n \in GroupsOf(i) : \E x \in 1..L : TRUE
  BY <1>1, <1>2 DEF Ordered
<1>4. log = <<>> <=> L = 0
  BY <1>2, <1>3
<1>5. L = 0 => \A i \in OwnIds(f) : GroupsOf(i) = {}
  BY <1>3
<1>6. L # 0 => \E i \in OwnIds(f) : GroupsOf(i) # {}
  <2> SUFFICES ASSUME L # 0
               PROVE  \E i \in OwnIds(f) : GroupsOf(i) # {}
    OBVIOUS
  <2>1. 1 \in 1..L
    BY <1>3
  <2> QED
    BY <1>3, <2>1
<1> QED
  BY <1>1, <1>4, <1>5, <1>6

(* With all baselines the journal and the rows tell one story. *)
LEMMA BaselinedHistory ==
  ASSUME LogServerInv, Baselined
  PROVE  ServerInv
<1>1. ASSUME NEW i \in Ids, GroupsOf(i) = {}
      PROVE  row[i] = Absent
  <2>1. PICK f \in Feeds : i \in OwnIds(f)
    BY OwnForms
  <2>2. Log(f) # <<>> \/ row[i].rev = 0
    BY <2>1 DEF Baselined, HasBaseline
  <2>3. Ordered(f, Log(f))
    BY <2>1 DEF LogServerInv, LogsOrdered
  <2>4. Log(f) # <<>> => \E k \in OwnIds(f) : GroupsOf(k) # {}
    BY <2>3, LogBegun DEF LogServerInv
  <2>5. row[i].rev = 0
    BY <1>1, <2>1, <2>2, <2>4 DEF LogServerInv, BackfilledWhole
  <2> QED
    BY <1>1, <2>5 DEF LogServerInv, LogHistory
<1>2. ASSUME NEW i \in Ids
      PROVE  row[i].rev = Cardinality(GroupsOf(i))
  <2>1. CASE GroupsOf(i) = {}
    BY <1>1, <2>1, FS_EmptySet DEF Absent
  <2>2. CASE GroupsOf(i) # {}
    BY <2>2 DEF LogServerInv, LogHistory
  <2> QED
    BY <2>1, <2>2
<1>3. History
  BY <1>1, <1>2 DEF LogServerInv, LogHistory, History
<1> QED
  BY <1>3 DEF LogServerInv, ServerInv

LEMMA HistoryLogs ==
  ASSUME History
  PROVE  LogHistory /\ BackfilledWhole
<1>1. LogHistory
  BY DEF History, LogHistory
<1>2. \A i \in Ids : GroupsOf(i) = {} => row[i].rev = 0
  BY DEF History, Absent
<1>3. BackfilledWhole
  BY <1>2, OwnForms DEF BackfilledWhole
<1> QED
  BY <1>1, <1>3

LEMMA LogHistoryBounds ==
  ASSUME Typed, LogHistory
  PROVE  Bounded
<1> SUFFICES ASSUME NEW i \in Ids, NEW n \in GroupsOf(i)
             PROVE  journal[n][i].rev <= row[i].rev
  BY DEF Bounded
<1>1. Until(i, n) \in SUBSET GroupsOf(i)
  BY DEF Until
<1>2. Cardinality(Until(i, n)) <= Cardinality(GroupsOf(i))
  BY <1>1, GroupsFinite, FS_Subset
<1> QED
  BY <1>2 DEF LogHistory

(* The journal stays, or a group is committed. *)
JournalStep == journal' = journal \/ \E g : Committed(g)

LEMMA StepCommits ==
  ASSUME Typed, Step
  PROVE  JournalStep
<1>1. journal' = journal \/ \E muts : Sound(muts) /\ ApplyAndJournal(muts)
  BY DEF Step, OwnStep, AcceptStep, Accept, RefuseStep, RepeatStep, PruneStep, serverVars
<1>2. ASSUME NEW muts, Sound(muts), ApplyAndJournal(muts)
      PROVE  \E g : Committed(g)
  <2>1. PICK g : g = [i \in Affected(muts) |-> Stamped(muts)[i]]
    OBVIOUS
  <2>2. journal' = Append(journal, g)
    BY <1>2, <2>1 DEF ApplyAndJournal
  <2>3. /\ Affected(muts) \subseteq Ids
        /\ \A i \in Affected(muts) : Stamped(muts)[i] \in EntityOf(i) /\ Stamped(muts)[i] \in Entity
    BY <1>2, GroupEffect DEF EntityOf
  <2>4. g \in [Affected(muts) -> Entity] /\ \A i \in Affected(muts) : g[i] \in EntityOf(i)
    BY <2>1, <2>3
  <2>5. g \in Groups
    BY <2>3, <2>4 DEF Groups
  <2> QED
    BY <2>2, <2>5 DEF Committed
<1> QED
  BY <1>1, <1>2 DEF JournalStep

(* Logs grow at their ends. *)
LEMMA LogsGrow ==
  ASSUME Typed, LogsOrdered, JournalStep
  PROVE  /\ LogsOrdered'
         /\ \A f \in Feeds : Extends(Log(f)', Log(f))
<1> SUFFICES ASSUME NEW f \in Feeds
             PROVE  Ordered(f, Log(f))' /\ Extends(Log(f)', Log(f))
  BY DEF LogsOrdered
<1>1. PICK log : log = Log(f)
  OBVIOUS
<1>2. Ordered(f, log)
  BY <1>1 DEF LogsOrdered
<1>3. CASE journal' = journal
  <2>1. Log(f)' = log /\ Ordered(f, log)'
    BY <1>1, <1>2, <1>3, LogStays
  <2>2. Extends(log, log)
    BY <1>2 DEF Extends, Ordered
  <2>3. Log(f)' = Log(f)
    BY <1>1, <2>1
  <2>4. Ordered(f, Log(f))'
    BY <2>1
  <2> QED
    BY <1>1, <2>2, <2>3, <2>4
<1>4. CASE \E g : Committed(g)
  <2>1. PICK g : Committed(g)
    BY <1>4
  <2>2. PICK N : N = Sequence + 1
    OBVIOUS
  <2>3. PICK longer : longer = log \o Entries(f, N)'
    OBVIOUS
  <2>4. Ordered(f, longer)' /\ Extends(longer, log)
    BY <1>2, <2>1, <2>2, <2>3, OrderedGrows
  <2>5. Log(f)' = longer
    BY <1>1, <2>1, <2>2, <2>3, LogGrows
  <2> QED
    BY <1>1, <2>4, <2>5
<1> QED
  BY <1>3, <1>4 DEF JournalStep

-----------------------------------------------------------------------------
(* The server's steps.                                                     *)

OwnRows(f) == [i \in {k \in OwnIds(f) : row[k].rev > 0} |-> row[i]]

LEMMA BackfillCommits ==
  ASSUME LogServerInv, NEW f \in Feeds, Backfill(f)
  PROVE  Committed(OwnRows(f)) /\ DOMAIN OwnRows(f) \subseteq OwnIds(f)
<1>1. \A i \in OwnIds(f) : i \in Ids /\ row[i] \in EntityOf(i) /\ row[i] \in Entity
  BY OwnForms DEF LogServerInv, Typed, RowsTyped
<1>2. PICK S : S = {k \in OwnIds(f) : row[k].rev > 0}
  OBVIOUS
<1>3. OwnRows(f) = [i \in S |-> row[i]] /\ S \subseteq OwnIds(f) /\ S \subseteq Ids
  BY <1>1, <1>2, OwnForms DEF OwnRows
<1>4. OwnRows(f) \in [S -> Entity] /\ \A i \in S : OwnRows(f)[i] \in EntityOf(i)
  BY <1>1, <1>3
<1>5. OwnRows(f) \in Groups
  BY <1>3, <1>4 DEF Groups
<1>6. journal' = Append(journal, OwnRows(f))
  BY DEF Backfill, OwnRows
<1> QED
  BY <1>3, <1>5, <1>6 DEF Committed

(* A backfill commits the rows of a model as they are. *)
LEMMA BackfillKeeps ==
  ASSUME LogServerInv, NEW f \in Feeds, Backfill(f)
  PROVE  LogServerInv' /\ Grown
<1>1. PICK g : g = OwnRows(f)
  OBVIOUS
<1>2. /\ Committed(g) /\ DOMAIN g \subseteq OwnIds(f)
      /\ \A i : i \in DOMAIN g <=> i \in OwnIds(f) /\ row[i].rev > 0
      /\ \A i \in DOMAIN g : g[i] = row[i]
  BY <1>1, BackfillCommits DEF OwnRows
<1>3. UNCHANGED <<row, receipts, replies>>
  BY DEF Backfill
<1>4. PICK N : N = Sequence + 1
  OBVIOUS
<1>5. /\ Sequence \in Nat /\ Sequence' = N
      /\ \A n \in 1..Sequence : journal'[n] = journal[n]
      /\ journal'[N] = g
      /\ DOMAIN g \subseteq Ids
      /\ \A i : /\ GroupsOf(i)' = GroupsOf(i) \cup IF i \in DOMAIN g THEN {N} ELSE {}
                /\ GroupsOf(i) \subseteq 1..Sequence
  BY <1>2, <1>4, CommittedGroups DEF LogServerInv
<1>6. Typed'
  <2>1. journal' \in Seq(Groups)
    BY <1>2 DEF Committed, LogServerInv, Typed
  <2>2. retained' \subseteq 1..Len(journal')
    <3>1. retained \subseteq 1..Sequence /\ retained' = retained \cup {N}
      BY <1>4 DEF Backfill, LogServerInv, Typed, Sequence
    <3>2. Len(journal') = N /\ N = Sequence + 1 /\ Sequence \in Nat
      BY <1>4, <1>5 DEF Sequence
    <3>3. 1..Sequence \subseteq 1..N /\ N \in 1..N
      BY <3>2
    <3> QED
      BY <3>1, <3>2, <3>3
  <2> QED
    BY <1>3, <2>1, <2>2 DEF LogServerInv, Typed, RowsTyped
<1>7. \A i \in OwnIds(f) : GroupsOf(i) = {}
  BY LogBegun DEF Backfill, LogServerInv, LogsOrdered
<1>8. LogHistory'
  <2> SUFFICES ASSUME NEW i \in Ids
               PROVE  /\ \A n \in GroupsOf(i)' : journal'[n][i].rev = Cardinality(Until(i, n))'
                      /\ GroupsOf(i)' = {} => row[i] = Absent \/ row[i].rev = 1
                      /\ GroupsOf(i)' # {} =>
                           /\ row[i].rev = Cardinality(GroupsOf(i))'
                           /\ \E n \in GroupsOf(i)' : (\A m \in GroupsOf(i)' : m <= n) /\ journal'[n][i] = row[i]
    BY <1>3 DEF LogHistory
  <2>1. CASE i \in DOMAIN g
    <3>1. GroupsOf(i) = {} /\ GroupsOf(i)' = {N}
      BY <1>2, <1>5, <1>7, <2>1
    <3>2. journal'[N][i] = row[i] /\ row[i].rev = 1
      BY <1>2, <1>5, <2>1, <3>1 DEF LogServerInv, LogHistory, Absent
    <3>3. N \in Nat /\ Until(i, N)' = {N}
      BY <1>4, <1>5, <3>1 DEF Until
    <3>4. Cardinality({N}) = 1
      BY FS_Singleton
    <3>5. Cardinality(Until(i, N))' = 1 /\ Cardinality(GroupsOf(i))' = 1
      BY <3>1, <3>3, <3>4
    <3>6. \A n \in GroupsOf(i)' : journal'[n][i].rev = Cardinality(Until(i, n))'
      BY <3>1, <3>2, <3>5
    <3>7. \E n \in GroupsOf(i)' : (\A m \in GroupsOf(i)' : m <= n) /\ journal'[n][i] = row[i]
      BY <3>1, <3>2, <3>3
    <3> QED
      BY <3>1, <3>2, <3>5, <3>6, <3>7
  <2>2. CASE i \notin DOMAIN g
    <3>1. GroupsOf(i)' = GroupsOf(i) /\ \A n \in GroupsOf(i) : journal'[n][i] = journal[n][i]
      BY <1>5, <2>2
    <3>2. \A n : Until(i, n)' = Until(i, n)
      BY <3>1 DEF Until
    <3> QED
      BY <3>1, <3>2 DEF LogServerInv, LogHistory
  <2> QED
    BY <2>1, <2>2
<1>9. BackfilledWhole'
  <2> SUFFICES ASSUME NEW m \in Feeds, \E k \in OwnIds(m) : GroupsOf(k)' # {},
                      NEW i \in OwnIds(m), GroupsOf(i)' = {}
               PROVE  row[i].rev = 0
    BY <1>3, OwnForms DEF BackfilledWhole, OwnIds
  <2>1. i \in Ids /\ row[i].rev \in Nat
    BY OwnForms, EntityForms DEF LogServerInv
  <2>2. CASE m = f
    BY <1>2, <1>5, <2>1, <2>2
  <2>3. CASE m # f
    <3>1. \A k \in OwnIds(m) : k \notin OwnIds(f)
      <4>1. OwnIds("parents") = Parents /\ OwnIds("children") = Children
        BY DEF OwnIds
      <4>2. (m = "parents" /\ f = "children") \/ (m = "children" /\ f = "parents")
        BY <2>3, LogAssumption
      <4> QED
        BY <4>1, <4>2, DataAssumption
    <3>2. \A k \in OwnIds(m) : GroupsOf(k)' = GroupsOf(k)
      BY <1>2, <1>5, <3>1
    <3> QED
      BY <3>2 DEF LogServerInv, BackfilledWhole
  <2> QED
    BY <2>2, <2>3
<1>10. LogsOrdered'
  BY <1>2, LogsGrow DEF LogServerInv, JournalStep
<1>11. References' /\ RepliesReceipted' /\ WritersInv'
  BY <1>3 DEF LogServerInv, References, RepliesReceipted, WritersInv, FirstWriterWins, BasesConsumed
<1>12. Grown
  <2>1. /\ Len(journal) \in Nat /\ Len(journal)' \in Nat /\ Len(journal)' >= Len(journal)
    BY <1>4, <1>5 DEF Sequence
  <2> SUFFICES ASSUME NEW i \in Ids
               PROVE  /\ \A n \in GroupsOf(i) : n \in GroupsOf(i)' /\ journal'[n][i] = journal[n][i]
                      /\ \A n \in 0..Len(journal) : Until(i, n)' = Until(i, n)
                      /\ row[i].rev \in Nat /\ row'[i].rev \in Nat /\ row'[i].rev >= row[i].rev
    BY <2>1 DEF Grown
  <2>2. row[i].rev \in Nat
    BY EntityForms DEF LogServerInv
  <2>3. \A n \in 0..Len(journal) : Until(i, n)' = Until(i, n)
    <3>1. \A n \in 0..Len(journal) : ~(N <= n)
      BY <1>4, <1>5 DEF Sequence
    <3> QED
      BY <1>5, <3>1 DEF Until
  <2> QED
    BY <1>3, <1>5, <2>2, <2>3
<1> QED
  BY <1>6, <1>8, <1>9, <1>10, <1>11, <1>12 DEF LogServerInv

(* What the server does besides keeps its invariant. *)
LEMMA BaselinedStep ==
  ASSUME LogServerInv, Baselined, Step
  PROVE  ServerInv' => LogServerInv'
<1>1. Typed
  BY DEF LogServerInv
<1>2. LogsOrdered'
  BY <1>1, StepCommits, LogsGrow DEF LogServerInv
<1>3. ASSUME ServerInv' 
      PROVE  LogHistory' /\ BackfilledWhole'
  <2>1. \A i \in Ids :
          /\ \A n \in GroupsOf(i)' : journal'[n][i].rev = Cardinality(Until(i, n))'
          /\ row'[i].rev = Cardinality(GroupsOf(i))'
          /\ GroupsOf(i)' = {} => row'[i] = Absent
          /\ GroupsOf(i)' # {} =>
               \E n \in GroupsOf(i)' : (\A m \in GroupsOf(i)' : m <= n) /\ journal'[n][i] = row'[i]
    BY <1>3 DEF ServerInv, History
  <2>2. LogHistory'
    BY <2>1 DEF LogHistory
  <2>3. \A i \in Ids : GroupsOf(i)' = {} => row'[i].rev = 0
    BY <2>1 DEF Absent
  <2>4. BackfilledWhole'
    BY <2>3, OwnForms DEF BackfilledWhole, OwnIds
  <2> QED
    BY <2>2, <2>4
<1> QED
  BY <1>2, <1>3 DEF LogServerInv, ServerInv

-----------------------------------------------------------------------------
(* What the clients know of the logs.                                      *)

(* A cursor is a position of its log, which the shadows have reached. *)
LogCursorOk(c, f) ==
  /\ db[c].cursor[f] \in {None} \cup 0..Len(Log(f))
  /\ Covers(db[c], Log(f), After(c, f))

LogCursors == \A c \in Clients : \A f \in Feeds : LogCursorOk(c, f)

(* The page continues the log of model k where the client is. *)
PageNext(c, k, page) == PageFits(page, Log(Models[k]), After(c, Models[k]))

FetchedOk(c, e) ==
  /\ e = [at |-> "fetched", k |-> e.k, sync |-> e.sync, clear |-> e.clear, pages |-> e.pages]
  /\ \/ \E p : e.pages = <<p>> /\ PageNext(c, e.k, p)
     \/ \E p, q : e.pages = <<p, q>> /\ e.k = 1 /\ PageNext(c, 1, p) /\ PageNext(c, 2, q)

(* Where the cycle of client c stands. *)
CycleOk(c, e) ==
  /\ "at" \in DOMAIN e
  /\ e.at # "rest" => "k" \in DOMAIN e /\ e.k \in 1..2
  /\ e.at = "fetched" => FetchedOk(c, e)

Cycles == call = [c \in Clients |-> call[c]] /\ \A c \in Clients : CycleOk(c, call[c])

LogInv ==
  /\ LogServerInv
  /\ AllReplicas /\ Shadows
  /\ Outboxes /\ Receipts /\ Matched
  /\ made \in [Clients -> Nat]
  /\ LogCursors /\ Cycles

LEMMA LogReplicas ==
  ASSUME LogInv
  PROVE  ReplicasInv
BY LogHistoryBounds DEF LogInv, LogServerInv, ReplicasInv

LEMMA AfterForms ==
  ASSUME NEW c, NEW f, Len(Log(f)) \in Nat, db[c].cursor[f] \in {None} \cup 0..Len(Log(f))
  PROVE  After(c, f) \in 0..Len(Log(f))
BY DEF After

LEMMA LogForms ==
  ASSUME LogInv, NEW c \in Clients, NEW f \in Feeds
  PROVE  /\ Ordered(f, Log(f)) /\ Len(Log(f)) \in Nat
         /\ After(c, f) \in 0..Len(Log(f))
         /\ Covers(db[c], Log(f), After(c, f))
         /\ Replica(db[c]) /\ Heard(db[c])
<1>1. Ordered(f, Log(f))
  BY DEF LogInv, LogServerInv, LogsOrdered
<1>2. Len(Log(f)) \in Nat
  BY <1>1, Zenon DEF Ordered
<1>3. LogCursorOk(c, f)
  BY DEF LogInv, LogCursors
<1>4. Replica(db[c]) /\ Heard(db[c])
  BY DEF LogInv, AllReplicas, Shadows, Heard
<1> QED
  BY <1>1, <1>2, <1>3, <1>4, AfterForms DEF LogCursorOk

(* What the clients know is as good of longer logs. *)
LEMMA CursorLonger ==
  ASSUME NEW d, NEW log, NEW longer, Len(log) \in Nat, Extends(longer, log), Len(longer) \in Nat,
         NEW a \in 0..Len(log), Covers(d, log, a)
  PROVE  a \in 0..Len(longer) /\ Covers(d, longer, a)
<1>1. PICK M : M = Len(log)
  OBVIOUS
<1>2. PICK N : N = Len(longer)
  OBVIOUS
<1>3. N >= M /\ M \in Nat /\ N \in Nat /\ \A x \in 1..M : longer[x] = log[x]
  BY <1>1, <1>2 DEF Extends
<1>4. \A x \in 1..a : x \in 1..M
  BY <1>1, <1>3
<1>5. a \in 0..N
  BY <1>1, <1>3
<1> QED
  BY <1>2, <1>3, <1>4, <1>5 DEF Covers

(* A step of the server, as the clients see it. *)
LEMMA LogsLonger ==
  ASSUME LogInv, LogServerInv', JournalStep, UNCHANGED <<db, call>>
  PROVE  LogCursors' /\ Cycles'
<1>1. \A f \in Feeds : Ordered(f, Log(f))' /\ Extends(Log(f)', Log(f))
  <2>1. Typed /\ LogsOrdered
    BY DEF LogInv, LogServerInv
  <2>2. LogsOrdered' /\ \A f \in Feeds : Extends(Log(f)', Log(f))
    BY <2>1, LogsGrow
  <2>3. \A f \in Feeds : Ordered(f, Log(f))'
    BY <2>2 DEF LogsOrdered
  <2> QED
    BY <2>2, <2>3
<1>2. ASSUME NEW c \in Clients, NEW f \in Feeds
      PROVE  /\ After(c, f)' = After(c, f)
             /\ LogCursorOk(c, f)'
             /\ \A page : PageFits(page, Log(f), After(c, f)) => PageFits(page, Log(f), After(c, f))'
  <2>1. After(c, f)' = After(c, f)
    BY DEF After
  <2>2. PICK log : log = Log(f)
    OBVIOUS
  <2>3. PICK longer : longer = Log(f)'
    OBVIOUS
  <2>4. Len(log) \in Nat /\ After(c, f) \in 0..Len(log) /\ Covers(db[c], log, After(c, f))
    BY <2>2, LogForms
  <2>5. Extends(longer, log)
    BY <1>1, <2>2, <2>3
  <2>6. Len(longer) \in Nat
    <3>1. Ordered(f, Log(f))'
      BY <1>1
    <3>2. (Len(Log(f)) \in Nat)'
      BY <3>1 DEF Ordered
    <3> QED
      BY <2>3, <3>2
  <2>7. After(c, f) \in 0..Len(longer) /\ Covers(db[c], longer, After(c, f))
    BY <2>4, <2>5, <2>6, CursorLonger
  <2>8. \A page : PageFits(page, log, After(c, f)) => PageFits(page, longer, After(c, f))
    <3>1. After(c, f) \in Nat
      BY <2>4
    <3> QED
      BY <2>4, <2>5, <2>6, <3>1, PageFitsLonger
  <2>9. db[c].cursor[f] \in {None} \cup 0..Len(longer)
    <3>1. db[c].cursor[f] # None => After(c, f) = db[c].cursor[f]
      BY DEF After
    <3> QED
      BY <2>7, <3>1
  <2>10. LogCursorOk(c, f)'
    <3>1. Covers(db[c], Log(f), After(c, f))'
      <4>1. Covers(db'[c], longer, After(c, f)')
        BY <2>1, <2>7
      <4> QED
        BY <2>3, <4>1 DEF Covers
    <3> QED
      BY <2>3, <2>9, <3>1 DEF LogCursorOk
  <2>11. ASSUME NEW page, PageFits(page, Log(f), After(c, f))
         PROVE  PageFits(page, Log(f), After(c, f))'
    <3>1. PageFits(page, longer, After(c, f)')
      BY <2>1, <2>2, <2>8, <2>11
    <3> QED
      BY <2>3, <3>1 DEF PageFits
  <2> QED
    BY <2>1, <2>10, <2>11
<1>3. LogCursors'
  BY <1>2 DEF LogCursors
<1>4. ASSUME NEW c \in Clients
      PROVE  CycleOk(c, call[c])'
  <2>1. PICK e : e = call[c]
    OBVIOUS
  <2>2. CycleOk(c, e)
    BY <2>1 DEF LogInv, Cycles
  <2>3. \A k \in 1..2 : Models[k] \in Feeds
    BY OwnForms
  <2>4. \A k \in 1..2 : \A page : PageNext(c, k, page) => PageNext(c, k, page)'
    BY <1>2, <2>3 DEF PageNext
  <2>5. e.at = "fetched" => FetchedOk(c, e)'
    <3> SUFFICES ASSUME e.at = "fetched"
                 PROVE  FetchedOk(c, e)'
      OBVIOUS
    <3>1. FetchedOk(c, e) /\ e.k \in 1..2
      BY <2>2 DEF CycleOk
    <3> QED
      BY <2>4, <3>1 DEF FetchedOk
  <2>6. CycleOk(c, e)'
    BY <2>2, <2>5 DEF CycleOk
  <2> QED
    BY <2>1, <2>6
<1>5. Cycles'
  BY <1>4 DEF LogInv, Cycles
<1> QED
  BY <1>3, <1>5

(* A step of the server, with what it means for receipts. *)
LEMMA ServerStepHolds ==
  ASSUME LogInv, LogServerInv', Grown, JournalStep, UNCHANGED <<db, call, made>>, Receipts', Matched'
  PROVE  LogInv'
<1>1. AllReplicas' /\ Shadows' /\ Outboxes' /\ made' \in [Clients -> Nat]
  BY LogReplicas, ReplicasWait
<1> QED
  BY <1>1, LogsLonger DEF LogInv

LEMMA BackfillHolds ==
  ASSUME LogInv, NEW f \in Feeds, Backfill(f)
  PROVE  LogInv'
<1>1. LogServerInv' /\ Grown
  BY BackfillKeeps DEF LogInv
<1>2. JournalStep
  BY BackfillCommits DEF LogInv, JournalStep
<1>3. UNCHANGED <<db, call, made, receipts>>
  BY DEF Backfill
<1>4. Receipts' /\ Matched'
  BY <1>1, <1>3, LogReplicas, ReceiptsWait
<1> QED
  BY <1>1, <1>2, <1>3, <1>4, ServerStepHolds

(* With all baselines the server writes as it did without logs. *)
LEMMA LogSteps ==
  ASSUME LogInv, LogWrite \/ \E c \in Clients : LogPush(c)
  PROVE  ServerInv /\ Step
<1>1. ServerInv /\ Typed
  BY BaselinedHistory DEF LogWrite, LogPush, LogInv, LogServerInv
<1>2. CASE LogWrite
  BY <1>1, <1>2, OwnSound DEF LogWrite, Step
<1>3. ASSUME NEW c \in Clients, LogPush(c)
      PROVE  Step
  <2>1. PICK op \in db[c].outbox : Push([key |-> <<c, op.number>>, muts |-> op.muts])
    BY <1>3 DEF LogPush
  <2>2. PICK req : /\ req = [key |-> <<c, op.number>>, muts |-> op.muts]
                   /\ req.muts = op.muts /\ Push(req)
    BY <2>1
  <2>3. IsMutations(req.muts)
    BY <2>1, <2>2 DEF LogInv, Outboxes, OutboxOk
  <2>4. AcceptStep(req) \/ (\E result : RefuseStep(req, result)) \/ \E r : RepeatStep(r)
    BY <1>1, <2>2, <2>3, PushForms
  <2> QED
    BY <2>4 DEF Step
<1> QED
  BY <1>1, <1>2, <1>3

LEMMA LogWriteHolds ==
  ASSUME LogInv, LogWrite
  PROVE  LogInv'
<1>1. Baselined /\ ServerWrite /\ UNCHANGED <<db, call, made>>
  BY DEF LogWrite
<1>2. LogServerInv /\ Typed
  BY DEF LogInv, LogServerInv
<1>3. ServerInv /\ Step
  BY LogSteps
<1>4. ServerInv' /\ Grown /\ receipts' = receipts
  BY <1>1, <1>3, ServerWrites
<1>5. LogServerInv'
  BY <1>1, <1>2, <1>3, <1>4, BaselinedStep
<1>6. Receipts' /\ Matched'
  BY <1>1, <1>4, LogReplicas, ReceiptsWait
<1> QED
  BY <1>1, <1>2, <1>3, <1>4, <1>5, <1>6, StepCommits, ServerStepHolds

LEMMA LogPushHolds ==
  ASSUME LogInv, NEW c \in Clients, LogPush(c)
  PROVE  LogInv'
<1>1. Baselined /\ UNCHANGED <<db, call, made>>
  BY DEF LogPush
<1>2. PICK op \in db[c].outbox : Push([key |-> <<c, op.number>>, muts |-> op.muts])
  BY DEF LogPush
<1>3. LogServerInv /\ Typed /\ ReplicasInv
  BY LogReplicas DEF LogInv, LogServerInv
<1>4. ServerInv /\ Step
  BY LogSteps
<1>5. ServerInv' /\ Grown /\ Receipts' /\ Matched'
  BY <1>1, <1>2, <1>3, <1>4, OperationDelivered
<1>6. LogServerInv'
  BY <1>1, <1>3, <1>4, <1>5, BaselinedStep
<1> QED
  BY <1>1, <1>3, <1>4, <1>5, <1>6, StepCommits, ServerStepHolds

-----------------------------------------------------------------------------
(* The clients' steps.                                                     *)

LEMMA ServerQuiet ==
  ASSUME LogInv, UNCHANGED serverVars
  PROVE  /\ LogServerInv'
         /\ \A f : Log(f)' = Log(f)
<1>1. UNCHANGED <<row, journal, retained, receipts, replies>>
  BY DEF serverVars
<1>2. \A f : Log(f)' = Log(f)
  BY <1>1, LogStays
<1>3. Typed'
  BY <1>1 DEF LogInv, LogServerInv, Typed, RowsTyped
<1>4. LogHistory' /\ BackfilledWhole'
  <2>1. \A i : GroupsOf(i)' = GroupsOf(i)
    BY <1>1 DEF GroupsOf, Sequence
  <2>2. \A i, n : Until(i, n)' = Until(i, n)
    BY <2>1 DEF Until
  <2>3. LogHistory'
    BY <1>1, <2>1, <2>2 DEF LogInv, LogServerInv, LogHistory
  <2>4. BackfilledWhole'
    BY <1>1, <2>1 DEF LogInv, LogServerInv, BackfilledWhole
  <2> QED
    BY <2>3, <2>4
<1>5. References' /\ RepliesReceipted' /\ WritersInv'
  BY <1>1 DEF LogInv, LogServerInv, References, RepliesReceipted, WritersInv, FirstWriterWins, BasesConsumed
<1>6. LogsOrdered'
  BY <1>1, LogsGrow DEF LogInv, LogServerInv, JournalStep
<1> QED
  BY <1>2, <1>3, <1>4, <1>5, <1>6 DEF LogServerInv

(* A step of client c that leaves its cursors alone. *)
LEMMA ClientStepHolds ==
  ASSUME LogInv, UNCHANGED serverVars, NEW c \in Clients, AllReplicas', OthersSame(c), Forward(c),
         Outboxes', Receipts', Matched', made' \in [Clients -> Nat],
         db'[c].cursor = db[c].cursor,
         NEW e, CycleOk(c, e), call' = [call EXCEPT ![c] = e]
  PROVE  LogInv'
<1>1. LogServerInv' /\ \A f : Log(f)' = Log(f)
  BY ServerQuiet
<1>2. Shadows'
  BY LogReplicas, ShadowsKept
<1>3. ASSUME NEW k \in Clients
      PROVE  /\ db'[k].cursor = db[k].cursor
             /\ \A i \in Ids : /\ db[k].shadow[i].rev \in Nat /\ db'[k].shadow[i].rev \in Nat
                               /\ db'[k].shadow[i].rev >= db[k].shadow[i].rev
  <2>1. db'[k].cursor = db[k].cursor
    BY DEF OthersSame
  <2>2. \A i \in Ids : db[k].shadow[i].rev \in Nat /\ db'[k].shadow[i].rev \in Nat
    BY AdvancesForms DEF LogInv, AllReplicas
  <2>3. \A i \in Ids : db'[k].shadow[i].rev >= db[k].shadow[i].rev
    BY <2>2 DEF OthersSame, Forward
  <2> QED
    BY <2>1, <2>2, <2>3
<1>4. \A k \in Clients : \A f : After(k, f)' = After(k, f)
  BY <1>3 DEF After
<1>5. LogCursors'
  <2> SUFFICES ASSUME NEW k \in Clients, NEW f \in Feeds
               PROVE  LogCursorOk(k, f)'
    BY DEF LogCursors
  <2>1. /\ Ordered(f, Log(f)) /\ After(k, f) \in 0..Len(Log(f))
        /\ Covers(db[k], Log(f), After(k, f))
    BY LogForms
  <2>2. Typed /\ LogHistory
    BY DEF LogInv, LogServerInv
  <2>3. Covers(db'[k], Log(f), After(k, f))
    BY <1>3, <2>1, <2>2, CoversStays
  <2>4. Covers(db'[k], Log(f)', After(k, f)')
    BY <1>1, <1>4, <2>3
  <2>5. Covers(db[k], Log(f), After(k, f))'
    BY <2>4 DEF Covers
  <2>6. db[k].cursor[f] \in {None} \cup 0..Len(Log(f))
    BY DEF LogInv, LogCursors, LogCursorOk
  <2> QED
    BY <1>1, <1>3, <2>5, <2>6 DEF LogCursorOk
<1>6. \A k \in Clients : \A n, page : PageNext(k, n, page) => PageNext(k, n, page)'
  BY <1>1, <1>4 DEF PageNext, PageFits
<1>7. \A k \in Clients : \A e1 : CycleOk(k, e1) => CycleOk(k, e1)'
  BY <1>6 DEF CycleOk, FetchedOk
<1>8. Cycles'
  <2>1. /\ call' = [k \in Clients |-> call'[k]]
        /\ \A k \in Clients : call'[k] = IF k = c THEN e ELSE call[k]
    BY DEF LogInv, Cycles
  <2>2. \A k \in Clients : CycleOk(k, call'[k])
    BY <2>1 DEF LogInv, Cycles
  <2>3. \A k \in Clients : CycleOk(k, call[k])'
    <3> SUFFICES ASSUME NEW k \in Clients
                 PROVE  CycleOk(k, call[k])'
      OBVIOUS
    <3>1. PICK e1 : e1 = call'[k]
      OBVIOUS
    <3>2. CycleOk(k, e1)'
      BY <1>7, <2>2, <3>1
    <3> QED
      BY <3>1, <3>2
  <2> QED
    BY <2>1, <2>3 DEF Cycles
<1> QED
  BY <1>1, <1>2, <1>5, <1>8 DEF LogInv

(* A step of client c that moves only its cycle. *)
LEMMA MoveHolds ==
  ASSUME LogInv, UNCHANGED <<db, made, serverVars>>, NEW c \in Clients, NEW e, CycleOk(c, e), Moves(c, e)
  PROVE  LogInv'
<1>1. ReplicasInv /\ AllReplicas
  BY LogReplicas DEF LogInv
<1>2. AllReplicas' /\ OthersSame(c)
  BY <1>1 DEF AllReplicas, OthersSame
<1>3. Forward(c)
  BY <1>1, SameShadowsForward
<1>4. Outboxes' /\ Receipts' /\ Matched'
  BY <1>1, <1>2, OutboxShrinks
<1>5. made' \in [Clients -> Nat]
  BY DEF LogInv
<1> QED
  BY <1>2, <1>3, <1>4, <1>5, ClientStepHolds DEF Moves

(* The places that a step of the cycle leads to. *)
LEMMA CyclePlaces ==
  ASSUME NEW c
  PROVE  /\ CycleOk(c, Resting)
         /\ \A k \in 1..2 : \A new, sync : CycleOk(c, Flushing(k, new, sync))
         /\ \A k \in 1..2 : \A sync, clear : CycleOk(c, Pulling(k, sync, clear))
         /\ \A e, number : e.k \in 1..2 => CycleOk(c, Chosen(e, number))
<1>1. CycleOk(c, Resting)
  BY DEF Resting, CycleOk
<1>2. ASSUME NEW k \in 1..2, NEW new, NEW sync
      PROVE  CycleOk(c, Flushing(k, new, sync))
  BY DEF Flushing, CycleOk
<1>3. ASSUME NEW k \in 1..2, NEW sync, NEW clear
      PROVE  CycleOk(c, Pulling(k, sync, clear))
  BY DEF Pulling, CycleOk
<1>4. ASSUME NEW e, NEW number, e.k \in 1..2
      PROVE  CycleOk(c, Chosen(e, number))
  BY <1>4 DEF Chosen, CycleOk
<1> QED
  BY <1>1, <1>2, <1>3, <1>4

LEMMA CycleAfter ==
  ASSUME NEW c, NEW e, CycleOk(c, e), e.at # "rest"
  PROVE  /\ CycleOk(c, AfterFlush(e))
         /\ CycleOk(c, Submitted(e)) /\ CycleOk(c, Settled(e))
<1>1. "at" \in DOMAIN e /\ "k" \in DOMAIN e /\ e.k \in 1..2
  BY DEF CycleOk
<1>2. CycleOk(c, AfterFlush(e))
  <2>1. Len(Models) = 2
    BY DEF Models
  <2>2. CASE e.k < 2
    <3>1. AfterFlush(e) = Flushing(e.k + 1, e.new, e.sync)
      BY <2>1, <2>2 DEF AfterFlush
    <3>2. e.k + 1 \in 1..2
      BY <1>1, <2>2
    <3> QED
      BY <3>1, <3>2, CyclePlaces
  <2>3. CASE ~(e.k < 2)
    <3>1. AfterFlush(e) = IF e.sync THEN Pulling(1, TRUE, TRUE) ELSE Resting
      BY <2>1, <2>3 DEF AfterFlush
    <3>2. CycleOk(c, Pulling(1, TRUE, TRUE)) /\ CycleOk(c, Resting)
      <4>1. 1 \in 1..2
        OBVIOUS
      <4> QED
        BY <4>1, CyclePlaces
    <3> QED
      BY <3>1, <3>2
  <2> QED
    BY <2>2, <2>3
<1>3. CycleOk(c, Submitted(e))
  <2> DEFINE s == [e EXCEPT !.at = "submitted"]
  <2>1. "at" \in DOMAIN s /\ "k" \in DOMAIN s /\ s.k = e.k /\ s.at = "submitted"
    BY <1>1
  <2> HIDE DEF s
  <2> QED
    BY <1>1, <2>1 DEF Submitted, CycleOk, s
<1>4. CycleOk(c, Settled(e))
  <2> DEFINE s == [e EXCEPT !.at = "settled"]
  <2>1. "at" \in DOMAIN s /\ "k" \in DOMAIN s /\ s.k = e.k /\ s.at = "settled"
    BY <1>1
  <2> HIDE DEF s
  <2> QED
    BY <1>1, <2>1 DEF Settled, CycleOk, s
<1> QED
  BY <1>2, <1>3, <1>4

LEMMA ModelForms ==
  ASSUME LogInv, NEW c \in Clients, call[c].at # "rest"
  PROVE  call[c].k \in 1..2 /\ Model(c) = Models[call[c].k] /\ Model(c) \in Feeds
<1>1. call[c].k \in 1..2
  BY DEF LogInv, Cycles, CycleOk
<1>2. \A k \in 1..2 : Models[k] \in Feeds
  BY OwnForms
<1> QED
  BY <1>1, <1>2 DEF Model

(* A step of client c that keeps its shadows and cursors. *)
LEMMA LocalStepHolds ==
  ASSUME LogInv, UNCHANGED serverVars, NEW c \in Clients, AllReplicas', OthersSame(c),
         db'[c].shadow = db[c].shadow, db'[c].outbox = db[c].outbox, db'[c].cursor = db[c].cursor,
         made' = made, NEW e, CycleOk(c, e), call' = [call EXCEPT ![c] = e]
  PROVE  LogInv'
<1>1. ReplicasInv
  BY LogReplicas
<1>2. Forward(c)
  BY <1>1, SameShadowsForward
<1>3. Outboxes' /\ Receipts' /\ Matched'
  BY <1>1, OutboxShrinks
<1>4. made' \in [Clients -> Nat]
  BY DEF LogInv
<1> QED
  BY <1>2, <1>3, <1>4, ClientStepHolds

LEMMA LogEditHolds ==
  ASSUME LogInv, NEW c \in Clients, LogEdit(c)
  PROVE  LogInv'
<1>1. UNCHANGED <<call, made, serverVars>>
  BY DEF LogEdit, Edit
<1>2. PICK i \in Ids :
         \/ \E data \in DataOf(i) : Insert(c, i, data) \/ Update(c, i, data)
         \/ Delete(c, i)
         \/ \E data \in DataOf(i) \cup {None} : Resolve(c, i, data)
  BY DEF LogEdit, Edit
<1>3. AllReplicas' /\ OthersSame(c) /\ WriteOnly(db[c], db'[c])
  BY <1>2, EditApplied DEF LogInv
<1>4. PICK e : e = call[c]
  OBVIOUS
<1>5. CycleOk(c, e) /\ call' = [call EXCEPT ![c] = e]
  BY <1>1, <1>4 DEF LogInv, Cycles
<1> QED
  BY <1>1, <1>3, <1>5, LocalStepHolds DEF WriteOnly

LEMMA ChooseHolds ==
  ASSUME LogInv, NEW c \in Clients, Choose(c)
  PROVE  LogInv'
<1>1. call[c].at = "flush" /\ UNCHANGED serverVars
  BY DEF Choose
<1>2. call[c].k \in 1..2 /\ Model(c) \in Feeds
  BY <1>1, ModelForms
<1>3. \A n : CycleOk(c, Chosen(call[c], n))
  BY <1>2, CyclePlaces
<1>4. CASE UNCHANGED <<db, made>> /\ \E op \in Pending(db[c], Model(c)) : Moves(c, Chosen(call[c], op.number))
  BY <1>1, <1>3, <1>4, MoveHolds
<1>5. CASE /\ Prepare(c, Model(c), made[c] + 1)
           /\ made' = [made EXCEPT ![c] = @ + 1]
           /\ Moves(c, Chosen(call[c], made[c] + 1))
  <2>1. /\ AllReplicas' /\ OthersSame(c)
        /\ db'[c].shadow = db[c].shadow
        /\ db'[c].cursor = db[c].cursor
        /\ made' \in [Clients -> Nat]
        /\ Outboxes' /\ Receipts' /\ Matched'
    BY <1>1, <1>2, <1>5, LogReplicas, Prepared
  <2>2. Forward(c)
    BY <2>1, LogReplicas, SameShadowsForward
  <2> QED
    BY <1>1, <1>3, <1>5, <2>1, <2>2, ClientStepHolds DEF Moves
<1> QED
  BY <1>4, <1>5 DEF Choose

LEMMA SkipHolds ==
  ASSUME LogInv, NEW c \in Clients, Skip(c)
  PROVE  LogInv'
<1>1. /\ call[c].at = "flush" /\ UNCHANGED <<made, serverVars>>
      /\ Moves(c, AfterFlush(call[c]))
      /\ UNCHANGED db \/ db' = [db EXCEPT ![c] = Tidied(db[c])]
  BY DEF Skip
<1>2. CycleOk(c, AfterFlush(call[c]))
  BY <1>1, CycleAfter DEF LogInv, Cycles
<1>3. CASE UNCHANGED db
  BY <1>1, <1>2, <1>3, MoveHolds
<1>4. CASE db' = [db EXCEPT ![c] = Tidied(db[c])]
  <2>1. PICK t : t = Tidied(db[c])
    OBVIOUS
  <2>2. Replica(t) /\ WriteOnly(db[c], t)
    BY <2>1, TidiedForms DEF LogInv, AllReplicas
  <2>3. AllReplicas' /\ OthersSame(c) /\ db'[c] = t
    BY <1>4, <2>1, <2>2, OneChanged DEF LogInv
  <2> QED
    BY <1>1, <1>2, <2>2, <2>3, LocalStepHolds DEF WriteOnly, Moves
<1> QED
  BY <1>1, <1>3, <1>4

LEMMA SettleHolds ==
  ASSUME LogInv, NEW c \in Clients, Settle(c)
  PROVE  LogInv'
<1>1. /\ call[c].at = "submitted" /\ UNCHANGED <<made, serverVars>>
      /\ Moves(c, Settled(call[c]))
  BY DEF Settle
<1>2. PICK op \in db[c].outbox, r \in replies : r.key = <<c, op.number>> /\ Finish(c, op, r.result)
  BY DEF Settle
<1>3. RepliesReceipted /\ WritersInv /\ ReplicasInv
  BY LogReplicas DEF LogInv, LogServerInv
<1>4. /\ AllReplicas' /\ OthersSame(c) /\ Forward(c)
      /\ db'[c].cursor = db[c].cursor
      /\ Outboxes' /\ Receipts' /\ Matched'
  BY <1>1, <1>2, <1>3, Finished
<1>5. CycleOk(c, Settled(call[c]))
  BY <1>1, CycleAfter DEF LogInv, Cycles
<1>6. made' \in [Clients -> Nat]
  BY <1>1 DEF LogInv
<1> QED
  BY <1>1, <1>4, <1>5, <1>6, ClientStepHolds DEF Moves

LEMMA PageNextForms ==
  ASSUME LogInv, NEW c \in Clients, NEW k \in 1..2
  PROVE  PageNext(c, k, PageFrom(Log(Models[k]), After(c, Models[k])))
<1>1. Models[k] \in Feeds
  BY OwnForms
<1>2. Len(Log(Models[k])) \in Nat /\ After(c, Models[k]) \in 0..Len(Log(Models[k]))
  BY <1>1, LogForms
<1> QED
  BY <1>2, PageFromFits DEF PageNext

LEMMA FetchBatchHolds ==
  ASSUME LogInv, NEW c \in Clients, FetchBatch(c)
  PROVE  LogInv'
<1> DEFINE p(k) == PageFrom(Log(Models[k]), After(c, Models[k]))
<1>1. /\ call[c].k = 1 /\ UNCHANGED <<db, made, serverVars>>
      /\ Moves(c, Fetched(call[c], [k \in DOMAIN Models |-> p(k)]))
  BY DEF FetchBatch
<1>2. PageNext(c, 1, p(1)) /\ PageNext(c, 2, p(2))
  BY PageNextForms
<1> HIDE DEF p
<1>3. [k \in DOMAIN Models |-> p(k)] = <<p(1), p(2)>>
  BY DEF Models
<1>4. PICK e : e = Fetched(call[c], <<p(1), p(2)>>)
  OBVIOUS
<1>5. CycleOk(c, e)
  BY <1>1, <1>2, <1>4 DEF Fetched, CycleOk, FetchedOk
<1> QED
  BY <1>1, <1>3, <1>4, <1>5, MoveHolds

LEMMA FetchOneHolds ==
  ASSUME LogInv, NEW c \in Clients, FetchOne(c)
  PROVE  LogInv'
<1>1. PICK p : p = PageFrom(Log(Model(c)), After(c, Model(c)))
  OBVIOUS
<1>2. /\ call[c].at = "pull" /\ UNCHANGED <<db, made, serverVars>>
      /\ Moves(c, Fetched(call[c], <<p>>))
  BY <1>1 DEF FetchOne
<1>3. call[c].k \in 1..2 /\ Model(c) = Models[call[c].k]
  BY <1>2, ModelForms
<1>4. PageNext(c, call[c].k, p)
  BY <1>1, <1>3, PageNextForms
<1>5. PICK e : e = Fetched(call[c], <<p>>)
  OBVIOUS
<1>6. CycleOk(c, e)
  BY <1>3, <1>4, <1>5 DEF Fetched, CycleOk, FetchedOk
<1> QED
  BY <1>2, <1>5, <1>6, MoveHolds

(* The step after a page. *)
LEMMA AfterPageForms ==
  ASSUME NEW c, NEW e, CycleOk(c, e), e.at = "fetched", NEW clear, NEW next, next = AfterPage(e, clear)
  PROVE  /\ PageNext(c, e.k, Head(e.pages))
         /\ \/ "at" \in DOMAIN next /\ "k" \in DOMAIN next /\ next.k \in 1..2 /\ next.at # "fetched"
            \/ next = Resting
            \/ \E q : /\ e.k = 1 /\ PageNext(c, 2, q)
                      /\ next = [at |-> "fetched", k |-> 2, sync |-> e.sync, clear |-> clear, pages |-> <<q>>]
<1>1. /\ e.k \in 1..2
      /\ e = [at |-> "fetched", k |-> e.k, sync |-> e.sync, clear |-> e.clear, pages |-> e.pages]
      /\ \/ \E p : e.pages = <<p>> /\ PageNext(c, e.k, p)
         \/ \E p, q : e.pages = <<p, q>> /\ e.k = 1 /\ PageNext(c, 1, p) /\ PageNext(c, 2, q)
  BY DEF CycleOk, FetchedOk
<1>2. Len(Models) = 2
  BY DEF Models
<1>3. PageNext(c, e.k, Head(e.pages))
  BY <1>1
<1>4. CASE e.k = 2
  <2>1. next = Resting \/ next = Flushing(1, TRUE, FALSE)
    BY <1>2, <1>4 DEF AfterPage
  <2> QED
    BY <1>3, <2>1 DEF Flushing
<1>5. CASE e.k = 1 /\ \E p : e.pages = <<p>>
  <2>1. Len(e.pages) = 1
    BY <1>5
  <2>2. next = Pulling(2, e.sync, clear)
    BY <1>2, <1>5, <2>1 DEF AfterPage
  <2> QED
    BY <1>3, <2>2 DEF Pulling
<1>6. CASE e.k = 1 /\ \E p, q : e.pages = <<p, q>> /\ PageNext(c, 1, p) /\ PageNext(c, 2, q)
  <2>1. PICK p, q : e.pages = <<p, q>> /\ PageNext(c, 2, q)
    BY <1>6
  <2>2. Len(e.pages) = 2 /\ Tail(e.pages) = <<q>>
    BY <2>1
  <2>3. next = [e EXCEPT !.k = @ + 1, !.clear = clear, !.pages = Tail(@)]
    BY <1>2, <1>6, <2>2 DEF AfterPage
  <2>4. next = [at |-> "fetched", k |-> 2, sync |-> e.sync, clear |-> clear, pages |-> <<q>>]
    <3>1. PICK sync, was, pages :
            e = [at |-> "fetched", k |-> 1, sync |-> sync, clear |-> was, pages |-> pages]
      BY <1>1, <1>6
    <3>2. e.k + 1 = 2 /\ Tail(e.pages) = <<q>> /\ e.sync = sync
      BY <1>6, <2>2, <3>1
    <3>3. next = [e EXCEPT !.k = 2, !.clear = clear, !.pages = <<q>>]
      BY <2>3, <3>2
    <3> QED
      BY <3>1, <3>2, <3>3
  <2> QED
    BY <1>3, <1>6, <2>1, <2>4
<1>7. CASE e.k = 1
  <2>1. (\E p : e.pages = <<p>>) \/ \E p, q : e.pages = <<p, q>> /\ PageNext(c, 1, p) /\ PageNext(c, 2, q)
    BY <1>1
  <2> QED
    BY <1>5, <1>6, <1>7, <2>1
<1> QED
  BY <1>1, <1>4, <1>7

(* A step of client c, with what it means for its cursors. *)
LEMMA CursorStepHolds ==
  ASSUME LogInv, UNCHANGED serverVars, NEW c \in Clients, AllReplicas', OthersSame(c), Forward(c),
         Outboxes', Receipts', Matched', made' \in [Clients -> Nat],
         \A f \in Feeds : LogCursorOk(c, f)',
         NEW e, CycleOk(c, e)', call' = [call EXCEPT ![c] = e]
  PROVE  LogInv'
<1>1. LogServerInv' /\ \A f : Log(f)' = Log(f)
  BY ServerQuiet
<1>2. Shadows'
  BY LogReplicas, ShadowsKept
<1>3. ASSUME NEW k \in Clients \ {c}
      PROVE  /\ \A f \in Feeds : LogCursorOk(k, f)'
             /\ \A e1 : CycleOk(k, e1) => CycleOk(k, e1)'
  <2>1. db'[k] = db[k]
    BY DEF OthersSame
  <2>2. \A f : After(k, f)' = After(k, f)
    BY <2>1 DEF After
  <2>3. ASSUME NEW f \in Feeds
        PROVE  LogCursorOk(k, f)'
    <3>1. LogCursorOk(k, f)
      BY DEF LogInv, LogCursors
    <3>2. Covers(db[k], Log(f), After(k, f))
      BY <3>1 DEF LogCursorOk
    <3>3. Covers(db'[k], Log(f)', After(k, f)')
      BY <1>1, <2>1, <2>2, <3>2
    <3>4. Covers(db[k], Log(f), After(k, f))'
      BY <3>3 DEF Covers
    <3> QED
      BY <1>1, <2>1, <3>1, <3>4 DEF LogCursorOk
  <2>4. \A n, page : PageNext(k, n, page) => PageNext(k, n, page)'
    BY <1>1, <2>2 DEF PageNext, PageFits
  <2>5. \A e1 : CycleOk(k, e1) => CycleOk(k, e1)'
    BY <2>4 DEF CycleOk, FetchedOk
  <2> QED
    BY <2>3, <2>5
<1>4. LogCursors'
  BY <1>3 DEF LogCursors
<1>5. Cycles'
  <2>1. /\ call' = [k \in Clients |-> call'[k]]
        /\ \A k \in Clients : call'[k] = IF k = c THEN e ELSE call[k]
    BY DEF LogInv, Cycles
  <2>2. \A k \in Clients : CycleOk(k, call[k])'
    <3> SUFFICES ASSUME NEW k \in Clients
                 PROVE  CycleOk(k, call[k])'
      OBVIOUS
    <3>1. PICK e1 : e1 = call'[k]
      OBVIOUS
    <3>2. CycleOk(k, e1)'
      <4>1. CASE k = c
        BY <2>1, <3>1, <4>1
      <4>2. CASE k # c
        <5>1. CycleOk(k, e1)
          BY <2>1, <3>1, <4>2 DEF LogInv, Cycles
        <5> QED
          BY <1>3, <4>2, <5>1
      <4> QED
        BY <4>1, <4>2
    <3> QED
      BY <3>1, <3>2
  <2> QED
    BY <2>1, <2>2 DEF Cycles
<1> QED
  BY <1>1, <1>2, <1>4, <1>5 DEF LogInv

(* What a page does to a replica. *)
LEMMA PageTaken ==
  ASSUME LogInv, NEW c \in Clients, NEW f \in Feeds, NEW page, PageFits(page, Log(f), After(c, f)),
         NEW e, e = PageApplied(db[c], f, page)
  PROVE  /\ ~ApplyOperations(db[c], page.ops).refused
         /\ Replica(e) /\ Heard(e) /\ e.outbox = db[c].outbox
         /\ \A g \in Feeds : e.cursor[g] = IF g = f THEN page.next ELSE db[c].cursor[g]
         /\ \A i \in Ids : e.shadow[i].rev >= db[c].shadow[i].rev
         /\ Covers(e, Log(f), page.next) /\ KeepsRows(db[c], e)
<1>1. PICK d : d = db[c]
  OBVIOUS
<1>2. PICK log : log = Log(f)
  OBVIOUS
<1>3. PICK a : a = After(c, f)
  OBVIOUS
<1>4. PICK ops : ops = page.ops
  OBVIOUS
<1>5. PICK L : L = page.next - a
  OBVIOUS
<1>6. /\ Ordered(f, log) /\ Len(log) \in Nat /\ a \in 0..Len(log) /\ Covers(d, log, a)
      /\ Replica(d) /\ Heard(d)
  BY <1>1, <1>2, <1>3, LogForms
<1>7. /\ L \in Nat /\ a + L <= Len(log) /\ a + L = page.next
      /\ DOMAIN ops = 1..L /\ \A x \in 1..L : ops[x] = log[a + x]
  BY <1>2, <1>3, <1>4, <1>5, <1>6 DEF PageFits
<1>8. PICK t : t = ApplyOperations(d, ops)
  OBVIOUS
<1>9. /\ ~t.refused
      /\ Advances(d, t.db) /\ Covers(t.db, log, a + L) /\ KeepsRows(d, t.db)
  BY <1>6, <1>7, <1>8, OperationsApplied DEF LogInv, LogServerInv
<1>10. PICK b : b = t.db
  OBVIOUS
<1>11. PICK r : r = RetryBlocked(b)
  OBVIOUS
<1>12. /\ Replica(r) /\ r.outbox = d.outbox /\ r.cursor = d.cursor /\ r.shadow = b.shadow
       /\ Replica(b)
  BY <1>9, <1>10, <1>11, RetryApplied DEF Advances
<1>13. e = [r EXCEPT !.cursor[f] = page.next]
  BY <1>1, <1>4, <1>8, <1>10, <1>11 DEF PageApplied
<1>14. /\ Booked(r, e) /\ e.outbox = r.outbox /\ e.shadow = b.shadow
       /\ \A g \in Feeds : e.cursor[g] = IF g = f THEN page.next ELSE r.cursor[g]
  BY <1>12, <1>13 DEF Booked, Replica, IsDatabase
<1>15. Replica(e)
  BY <1>12, <1>14, BooksKept
<1>16. Heard(e) /\ \A i \in Ids : e.shadow[i].rev >= d.shadow[i].rev
  BY <1>9, <1>10, <1>14 DEF Advances, Heard
<1>17. Covers(e, log, page.next)
  BY <1>7, <1>9, <1>10, <1>14 DEF Covers
<1>18. KeepsRows(d, e)
  <2> SUFFICES ASSUME NEW i \in Ids, Waits(d), Story(HistoryOf(i))
               PROVE  Kept(d, e, i, HistoryOf(i))
    BY DEF KeepsRows
  <2>1. Kept(d, b, i, HistoryOf(i))
    BY <1>9, <1>10 DEF KeepsRows
  <2>2. Kept(d, r, i, HistoryOf(i))
    BY <1>6, <1>11, <2>1, RetryKeeps
  <2> QED
    BY <1>14, <1>15, <2>2, BooksKeep DEF Booked
<1> QED
  BY <1>1, <1>2, <1>4, <1>8, <1>9, <1>12, <1>14, <1>15, <1>16, <1>17, <1>18

LEMMA ReceivePageHolds ==
  ASSUME LogInv, NEW c \in Clients, ReceivePage(c)
  PROVE  LogInv'
<1>1. PICK e : e = call[c]
  OBVIOUS
<1>2. PICK page : page = Head(e.pages)
  OBVIOUS
<1>3. PICK clear : clear = (e.clear /\ ~PageBlocked(db[c], page) /\ ~page.more)
  OBVIOUS
<1>4. PICK next : next = AfterPage(e, clear)
  OBVIOUS
<1>5. /\ e.at = "fetched" /\ UNCHANGED <<made, serverVars>>
      /\ Moves(c, next)
      /\ \/ UNCHANGED db
         \/ db' = [db EXCEPT ![c] = PageApplied(db[c], Model(c), page)]
  BY <1>1, <1>2, <1>3, <1>4 DEF ReceivePage
<1>6. CycleOk(c, e)
  BY <1>1 DEF LogInv, Cycles
<1>7. /\ PageNext(c, e.k, page)
      /\ \/ "at" \in DOMAIN next /\ "k" \in DOMAIN next /\ next.k \in 1..2 /\ next.at # "fetched"
         \/ next = Resting
         \/ \E q : /\ e.k = 1 /\ PageNext(c, 2, q)
                   /\ next = [at |-> "fetched", k |-> 2, sync |-> e.sync, clear |-> clear, pages |-> <<q>>]
  BY <1>2, <1>4, <1>5, <1>6, AfterPageForms
<1>8. CASE UNCHANGED db
  <2>1. CycleOk(c, next)
    BY <1>7 DEF CycleOk, FetchedOk, Resting
  <2> QED
    BY <1>5, <1>8, <2>1, MoveHolds
<1>9. CASE db' = [db EXCEPT ![c] = PageApplied(db[c], Model(c), page)]
  <2>1. PICK f : f = Model(c)
    OBVIOUS
  <2>2. f \in Feeds /\ f = Models[e.k] /\ e.k \in 1..2
    BY <1>1, <1>5, <2>1, ModelForms
  <2>3. PageFits(page, Log(f), After(c, f))
    BY <1>7, <2>2 DEF PageNext
  <2>4. PICK b : b = PageApplied(db[c], f, page)
    OBVIOUS
  <2>5. /\ Replica(b) /\ Heard(b) /\ b.outbox = db[c].outbox
        /\ \A g \in Feeds : b.cursor[g] = IF g = f THEN page.next ELSE db[c].cursor[g]
        /\ \A i \in Ids : b.shadow[i].rev >= db[c].shadow[i].rev
        /\ Covers(b, Log(f), page.next)
    BY <2>2, <2>3, <2>4, PageTaken
  <2>6. AllReplicas' /\ OthersSame(c) /\ db'[c] = b
    BY <1>9, <2>1, <2>4, <2>5, OneChanged DEF LogInv
  <2>7. Forward(c)
    BY <2>5, <2>6 DEF Forward, Heard
  <2>8. Outboxes' /\ Receipts' /\ Matched'
    BY <1>5, <2>5, <2>6, LogReplicas, OutboxShrinks
  <2>9. \A g : Log(g)' = Log(g)
    BY <1>5, ServerQuiet
  <2>10. \A g \in Feeds \ {f} : After(c, g)' = After(c, g)
    BY <2>5, <2>6 DEF After
  <2>11. ASSUME NEW g \in Feeds
         PROVE  LogCursorOk(c, g)'
    <3>1. PICK log : log = Log(g)
      OBVIOUS
    <3>2. /\ Ordered(g, log) /\ Len(log) \in Nat /\ After(c, g) \in 0..Len(log)
          /\ Covers(db[c], log, After(c, g)) /\ Replica(db[c])
      BY <3>1, LogForms
    <3>3. PICK a : a = After(c, g)'
      OBVIOUS
    <3>4. Covers(b, log, a) /\ b.cursor[g] \in {None} \cup 0..Len(log)
      <4>1. CASE g = f
        <5>1. page.next \in After(c, f)..Len(log)
          BY <2>3, <3>1, <4>1 DEF PageFits
        <5>2. page.next \in Nat /\ page.next \in 0..Len(log)
          BY <3>2, <4>1, <5>1
        <5>3. a = page.next
          BY <2>5, <2>6, <3>3, <4>1, <5>2, ClientAssumption DEF After
        <5> QED
          BY <2>5, <3>1, <4>1, <5>2, <5>3
      <4>2. CASE g # f
        <5>1. \A i \in Ids : db[c].shadow[i].rev \in Nat /\ b.shadow[i].rev \in Nat
          BY <2>5, <3>2, AdvancesForms
        <5>2. Covers(b, log, After(c, g))
          BY <2>5, <3>2, <5>1, CoversStays DEF LogInv, LogServerInv
        <5>3. db[c].cursor[g] \in {None} \cup 0..Len(log)
          BY <3>1 DEF LogInv, LogCursors, LogCursorOk
        <5> QED
          BY <2>5, <2>10, <3>3, <4>2, <5>2, <5>3
      <4> QED
        BY <4>1, <4>2
    <3>5. Covers(db'[c], Log(g)', After(c, g)')
      BY <2>6, <2>9, <3>1, <3>3, <3>4
    <3>6. Covers(db[c], Log(g), After(c, g))'
      BY <3>5 DEF Covers
    <3> QED
      BY <2>6, <2>9, <3>1, <3>4, <3>6 DEF LogCursorOk
  <2>12. CycleOk(c, next)'
    <3>1. CASE \/ "at" \in DOMAIN next /\ "k" \in DOMAIN next /\ next.k \in 1..2 /\ next.at # "fetched"
               \/ next = Resting
      BY <3>1 DEF CycleOk, Resting
    <3>2. CASE \E q : /\ e.k = 1 /\ PageNext(c, 2, q)
                      /\ next = [at |-> "fetched", k |-> 2, sync |-> e.sync, clear |-> clear, pages |-> <<q>>]
      <4>1. PICK q : /\ e.k = 1 /\ PageNext(c, 2, q)
                     /\ next = [at |-> "fetched", k |-> 2, sync |-> e.sync, clear |-> clear, pages |-> <<q>>]
        BY <3>2
      <4>2. Models[2] \in Feeds \ {f}
        BY <2>2, <4>1, OwnForms DEF Models
      <4>3. PageNext(c, 2, q)'
        BY <2>9, <2>10, <4>1, <4>2 DEF PageNext, PageFits
      <4> QED
        BY <4>1, <4>3 DEF CycleOk, FetchedOk
    <3> QED
      BY <1>7, <3>1, <3>2
  <2>13. made' \in [Clients -> Nat]
    BY <1>5 DEF LogInv
  <2> QED
    BY <1>5, <2>6, <2>7, <2>8, <2>11, <2>12, <2>13, CursorStepHolds DEF Moves
<1> QED
  BY <1>5, <1>8, <1>9

(* The steps that move only the cycle. *)
LEMMA CycleMoves ==
  ASSUME LogInv, NEW c \in Clients, Begin(c) \/ Submit(c) \/ Discard(c) \/ Interrupt(c)
  PROVE  LogInv'
<1>1. UNCHANGED <<db, made, serverVars>>
  BY DEF Begin, Submit, Discard, Interrupt
<1>2. CycleOk(c, call[c])
  BY DEF LogInv, Cycles
<1>3. CASE Begin(c)
  <2>1. PICK e \in {Pulling(1, FALSE, TRUE), Flushing(1, TRUE, FALSE), Flushing(1, FALSE, TRUE)} : Moves(c, e)
    BY <1>3 DEF Begin
  <2>2. CycleOk(c, e)
    <3>1. 1 \in 1..2
      OBVIOUS
    <3> QED
      BY <2>1, <3>1, CyclePlaces
  <2> QED
    BY <1>1, <2>1, <2>2, MoveHolds
<1>4. CASE Submit(c)
  <2>1. call[c].at # "rest" /\ Moves(c, Submitted(call[c]))
    BY <1>4 DEF Submit
  <2> QED
    BY <1>1, <1>2, <2>1, CycleAfter, MoveHolds
<1>5. CASE Discard(c)
  <2>1. call[c].at # "rest" /\ Moves(c, AfterFlush(call[c]))
    BY <1>5 DEF Discard
  <2> QED
    BY <1>1, <1>2, <2>1, CycleAfter, MoveHolds
<1>6. CASE Interrupt(c)
  BY <1>1, <1>6, CyclePlaces, MoveHolds DEF Interrupt
<1> QED
  BY <1>3, <1>4, <1>5, <1>6

LEMMA LogStutters ==
  ASSUME LogInv, UNCHANGED systemVars
  PROVE  LogInv'
<1>1. UNCHANGED <<db, call, made, receipts, serverVars>>
  BY DEF systemVars, serverVars
<1>2. LogServerInv'
  BY <1>1, ServerQuiet
<1>3. Grown
  BY <1>1, ServerSilent, LogReplicas DEF ReplicasInv
<1>4. Receipts' /\ Matched'
  BY <1>1, <1>3, LogReplicas, ReceiptsWait
<1> QED
  BY <1>1, <1>2, <1>3, <1>4, ServerStepHolds DEF JournalStep, serverVars

LEMMA EmptyLogs ==
  ASSUME journal = <<>>, NEW f
  PROVE  Log(f) = <<>> /\ Ordered(f, <<>>) /\ \A i : GroupsOf(i) = {}
<1>1. PICK s : s = [n \in 1..0 |-> Entries(f, n)]
  OBVIOUS
<1>2. Sequence = 0
  BY DEF Sequence
<1>3. Log(f) = FlattenSeq(s)
  BY <1>1, <1>2 DEF Log
<1>4. s = <<>> /\ Len(s) = 0
  BY <1>1
<1>5. FlattenSeq(s) = s
  BY <1>4, FlattenForms
<1>6. \A i : GroupsOf(i) = {}
  BY <1>2 DEF GroupsOf
<1>7. Ordered(f, <<>>)
  <2>1. PICK log : log = <<>> /\ Len(log) = 0
    OBVIOUS
  <2>2. log = [x \in 1..0 |-> log[x]]
    BY <2>1
  <2> QED
    BY <1>6, <2>1, <2>2 DEF Ordered
<1> QED
  BY <1>3, <1>4, <1>5, <1>6, <1>7

LEMMA LogInitially ==
  ASSUME LogInit
  PROVE  LogInv
<1>1. /\ row = [i \in Ids |-> IF i \in DOMAIN Seed THEN SeedGroup[i] ELSE Absent]
      /\ journal = <<>> /\ retained = {} /\ receipts = {} /\ replies = {}
      /\ db = [c \in Clients |-> EmptyDatabase]
      /\ call = [c \in Clients |-> Resting] /\ made = [c \in Clients |-> 0]
  BY DEF LogInit, ClientInit
<1>2. \A f : Log(f) = <<>> /\ Ordered(f, <<>>)
  BY <1>1, EmptyLogs
<1>3. \A i : GroupsOf(i) = {}
  BY <1>1, EmptyLogs
<1>4. \A i \in Ids : /\ row[i] = IF i \in DOMAIN Seed THEN SeedGroup[i] ELSE Absent
                     /\ row[i] \in EntityOf(i)
  BY <1>1, SeedForms, AbsentEntity
<1>5. Typed
  <2>1. row \in [Ids -> Entity]
    BY <1>1, <1>4 DEF EntityOf
  <2> QED
    BY <1>1, <1>4, <2>1 DEF Typed, RowsTyped
<1>6. LogHistory /\ BackfilledWhole
  <2>1. \A i \in Ids : row[i] = Absent \/ row[i].rev = 1
    BY <1>4, SeedForms
  <2> QED
    BY <1>3, <2>1 DEF LogHistory, BackfilledWhole
<1>7. References
  <2> SUFFICES ASSUME NEW c \in Children, row[c].data # None, row[c].data["ref"] \in Parents
               PROVE  row[row[c].data["ref"]].data # None
    BY DEF References, Live
  <2>1. c \in Ids /\ c \in DOMAIN Seed
    BY <1>4 DEF Ids, Absent
  <2>2. row[c].data = Seed[c]
    BY <1>4, <2>1, SeedForms
  <2>3. Seed[c]["ref"] # None
    BY <2>2, DataAssumption
  <2>4. Seed[c]["ref"] \in DOMAIN Seed
    BY <2>1, <2>3, SystemAssumption
  <2> QED
    BY <1>4, <2>2, <2>4, SeedForms
<1>8. RepliesReceipted /\ WritersInv
  BY <1>1 DEF RepliesReceipted, WritersInv, FirstWriterWins, BasesConsumed
<1>9. LogsOrdered
  BY <1>2 DEF LogsOrdered
<1>10. PICK d : d = EmptyDatabase
  OBVIOUS
<1>11. /\ Replica(d) /\ d.outbox = {}
       /\ \A i \in Ids : d.shadow[i] = Absent
       /\ \A f \in Feeds : d.cursor[f] = None
  BY <1>10, EmptyReplica DEF EmptyDatabase
<1>12. \A c \in Clients : db[c] = d
  BY <1>1, <1>10
<1>13. AllReplicas
  BY <1>1, <1>11, <1>12 DEF AllReplicas
<1>14. Shadows
  BY <1>11, <1>12 DEF Shadows, Historical
<1>15. Outboxes /\ Receipts /\ Matched
  BY <1>1, <1>11, <1>12 DEF Outboxes, OutboxOk, Receipts, Matched
<1>16. LogCursors
  <2>1. \A c \in Clients : \A f \in Feeds : After(c, f) = 0 /\ db[c].cursor[f] = None
    BY <1>11, <1>12 DEF After
  <2> QED
    BY <2>1 DEF LogCursors, LogCursorOk, Covers
<1>17. Cycles
  BY <1>1, CyclePlaces DEF Cycles
<1>18. made \in [Clients -> Nat]
  BY <1>1
<1> QED
  BY <1>5, <1>6, <1>7, <1>8, <1>9, <1>13, <1>14, <1>15, <1>16, <1>17, <1>18 DEF LogInv, LogServerInv

LEMMA LogInductive ==
  ASSUME LogInv, [LogNext]_logVars
  PROVE  LogInv'
<1>1. CASE UNCHANGED logVars
  BY <1>1, LogStutters DEF logVars
<1>2. ASSUME NEW f \in Feeds, Backfill(f)
      PROVE  LogInv'
  BY <1>2, BackfillHolds
<1>3. CASE LogWrite
  BY <1>3, LogWriteHolds
<1>4. ASSUME NEW c \in Clients,
             LogEdit(c) \/ LogPush(c) \/ Begin(c) \/ CycleStep(c) \/ Interrupt(c) \/ Reopen(c)
      PROVE  LogInv'
  <2>1. CASE LogEdit(c) \/ LogPush(c)
    BY <2>1, LogEditHolds, LogPushHolds
  <2>2. CASE Begin(c) \/ Submit(c) \/ Discard(c) \/ Interrupt(c)
    BY <2>2, CycleMoves
  <2>3. CASE Choose(c) \/ Skip(c) \/ Settle(c) \/ FetchBatch(c) \/ FetchOne(c) \/ ReceivePage(c)
    BY <2>3, ChooseHolds, SkipHolds, SettleHolds, FetchBatchHolds, FetchOneHolds, ReceivePageHolds
  <2>4. CASE Reopen(c)
    BY <2>4, LogStutters DEF Reopen
  <2> QED
    BY <1>4, <2>1, <2>2, <2>3, <2>4 DEF CycleStep
<1> QED
  BY <1>1, <1>2, <1>3, <1>4 DEF LogNext

LEMMA LogAlways == LogSpec => []LogInv
BY LogInitially, LogInductive, PTL DEF LogSpec

-----------------------------------------------------------------------------
(* What the logs promise.                                                  *)

(* Shadows are committed revisions, and everything in a log up to the      *)
(* cursor has been received (apply_model_changes, finish_result), whatever *)
(* answers, cascades and the pages of other logs came in between.          *)
THEOREM LogsCovered == LogSpec => []LogCovered
<1>1. ASSUME LogInv
      PROVE  LogCovered
  <2>1. \A c \in Clients : \A i \in Ids :
          db[c].shadow[i] = Absent \/ \E n \in GroupsOf(i) : journal[n][i] = db[c].shadow[i]
    BY <1>1 DEF LogInv, Shadows, Historical
  <2>2. \A c \in Clients : \A f \in Feeds : Covers(db[c], Log(f), After(c, f))
    BY <1>1, LogForms
  <2> QED
    BY <2>1, <2>2 DEF LogCovered, Covers
<1> QED
  BY <1>1, LogAlways, PTL

(* No page is ever refused (apply_model_changes): every operation behind   *)
(* the cursor follows the confirmed state that it will meet.               *)
THEOREM PagesFollow == LogSpec => []NoPageRefused
<1>1. ASSUME LogInv
      PROVE  NoPageRefused
  <2> SUFFICES ASSUME NEW c \in Clients, NEW f \in Feeds
               PROVE  ~ApplyOperations(db[c], Ahead(c, f)).refused
    BY DEF NoPageRefused
  <2>1. PICK log : log = Log(f)
    OBVIOUS
  <2>2. PICK a : a = After(c, f)
    OBVIOUS
  <2>3. PICK b : b = Len(log)
    OBVIOUS
  <2>4. PICK ops : ops = Ahead(c, f)
    OBVIOUS
  <2>5. /\ Ordered(f, log) /\ b \in Nat /\ a \in 0..b
        /\ Covers(db[c], log, a) /\ Replica(db[c]) /\ Heard(db[c])
    BY <1>1, <2>1, <2>2, <2>3, LogForms
  <2>6. ops = SubSeq(log, a + 1, b)
    BY <2>1, <2>2, <2>3, <2>4 DEF Ahead
  <2>7. DOMAIN ops = 1..b - a /\ \A x \in 1..b - a : ops[x] = log[a + x]
    BY <2>5, <2>6, SubSeqForms
  <2>8. PICK L : L = b - a
    OBVIOUS
  <2>9. /\ L \in Nat /\ a \in Nat /\ a + L <= Len(log)
        /\ DOMAIN ops = 1..L /\ \A x \in 1..L : ops[x] = log[a + x]
    BY <2>3, <2>5, <2>7, <2>8
  <2>10. PICK t : t = ApplyOperations(db[c], ops)
    OBVIOUS
  <2>11. Typed /\ LogHistory
    BY <1>1 DEF LogInv, LogServerInv
  <2>12. ~t.refused
    BY <2>5, <2>9, <2>10, <2>11, OperationsApplied
  <2> QED
    BY <2>4, <2>10, <2>12
<1> QED
  BY <1>1, LogAlways, PTL

(* A client that read every log has the server's confirmed state. *)
LEMMA LogsRead ==
  ASSUME LogInv, Baselined, NEW c \in Clients, CaughtUp(c), NEW i \in Ids
  PROVE  db[c].shadow[i] = row[i]
<1>1. PICK f \in Feeds : i \in OwnIds(f)
  BY OwnForms
<1>2. PICK log : log = Log(f)
  OBVIOUS
<1>3. PICK b : b = Len(log)
  OBVIOUS
<1>4. /\ Ordered(f, log) /\ b \in Nat /\ Covers(db[c], log, After(c, f))
  BY <1>2, <1>3, LogForms
<1>5. After(c, f) = b
  BY <1>2, <1>3, <1>4, ClientAssumption DEF CaughtUp, After
<1>6. Typed /\ LogHistory /\ History /\ Bounded
  BY BaselinedHistory, LogHistoryBounds DEF LogInv, LogServerInv, ServerInv
<1>7. PICK e : e = db[c].shadow[i]
  OBVIOUS
<1>8. Historical(i, e)
  BY <1>7 DEF LogInv, Shadows
<1>9. CASE GroupsOf(i) = {}
  BY <1>6, <1>7, <1>8, <1>9 DEF Historical, History
<1>10. CASE GroupsOf(i) # {}
  <2>1. PICK n \in GroupsOf(i) : (\A m \in GroupsOf(i) : m <= n) /\ journal[n][i] = row[i]
    BY <1>6, <1>10 DEF History
  <2>2. PICK x \in 1..Len(log) : log[x] = EntryOf(i, n)
    BY <1>1, <1>4, <2>1, Zenon DEF Ordered
  <2>3. log[x].id = i /\ log[x].rev = row[i].rev
    BY <2>1, <2>2, EntryForms
  <2>4. e.rev >= row[i].rev
    BY <1>3, <1>4, <1>5, <1>7, <2>3 DEF Covers
  <2>5. row[i].rev \in Nat /\ row[i].rev >= 1
    BY <1>6, <2>1, UntilGrows DEF LogHistory
  <2>6. e # Absent
    BY <2>4, <2>5 DEF Absent
  <2>7. e.rev \in Nat /\ e.rev <= row[i].rev
    BY <1>6, <1>8, <2>6, RevisionTells DEF Historical, Bounded
  <2>8. e.rev = journal[n][i].rev
    BY <2>1, <2>4, <2>5, <2>7
  <2> QED
    BY <1>6, <1>7, <1>8, <2>1, <2>8, RevisionTells
<1> QED
  BY <1>9, <1>10

(* A client that read every log, has nothing to send and no conflict shows *)
(* the server's rows.                                                      *)
THEOREM LogReadersConverge == LogSpec => []LogsConverge
<1>1. ASSUME LogInv
      PROVE  LogsConverge
  <2> SUFFICES ASSUME NEW c \in Clients, CaughtUp(c), Baselined, Unsent(db[c]) = {}, NEW i \in Ids
               PROVE  Shown(db[c].local[i]) = row[i].data
    BY DEF LogsConverge, ShowsServer
  <2>1. db[c].shadow[i] = row[i]
    BY <1>1, LogsRead
  <2>2. Replica(db[c])
    BY <1>1 DEF LogInv, AllReplicas
  <2>3. ~Changed(db[c], i)
    BY <2>2 DEF Unsent, Replica, Tracked
  <2>4. db[c].local[i] \in RowOf(i) /\ db[c].shadow[i] \in EntityOf(i)
    BY <2>2 DEF Replica, Fit
  <2>5. Shown(db[c].local[i]) = db[c].shadow[i].data
    BY <2>3, <2>4, UnchangedShows
  <2> QED
    BY <2>1, <2>5
<1> QED
  BY <1>1, LogAlways, PTL DEF LogsConverge

-----------------------------------------------------------------------------
(* What was edited stays.                                                  *)

LogEditInv ==
  /\ LogInv /\ edits \in 0..MaxEdits
  /\ \A c \in Clients : Waits(db[c])
  /\ AcceptedOk /\ Graves

LEMMA LogNumbers ==
  ASSUME LogHistory
  PROVE  Numbered
BY DEF LogHistory, Numbered

(* A backfill begins the history of every row in it. *)
LEMMA BackfillGraves ==
  ASSUME LogServerInv, Graves, NEW f \in Feeds, Backfill(f)
  PROVE  Graves'
<1>1. PICK g : g = OwnRows(f)
  OBVIOUS
<1>2. Committed(g) /\ DOMAIN g \subseteq OwnIds(f)
  BY <1>1, BackfillCommits
<1>3. /\ Sequence \in Nat
      /\ \A n \in 1..Sequence : journal'[n] = journal[n]
      /\ \A i : /\ GroupsOf(i)' = GroupsOf(i) \cup IF i \in DOMAIN g THEN {Sequence + 1} ELSE {}
                /\ GroupsOf(i) \subseteq 1..Sequence
  BY <1>2, CommittedGroups DEF LogServerInv
<1>4. \A i \in DOMAIN g : GroupsOf(i) = {}
  BY <1>2, LogBegun DEF Backfill, LogServerInv, LogsOrdered
<1> SUFFICES ASSUME NEW i \in Ids, NEW n \in GroupsOf(i)', NEW m \in GroupsOf(i)', n <= m,
                    ~Live(journal'[n][i])
             PROVE  ~Live(journal'[m][i])
  BY DEF Graves
<1>5. CASE i \in DOMAIN g
  BY <1>3, <1>4, <1>5
<1>6. CASE i \notin DOMAIN g
  <2>1. n \in GroupsOf(i) /\ m \in GroupsOf(i)
    BY <1>3, <1>6
  <2>2. journal'[n] = journal[n] /\ journal'[m] = journal[m]
    BY <1>3, <2>1
  <2> QED
    BY <2>1, <2>2 DEF Graves
<1> QED
  BY <1>5, <1>6

(* A step of client c that leaves every visible row alone. *)
LEMMA CalmCycle ==
  ASSUME LogEditInv, NEW c \in Clients, OthersSame(c), db'[c].local = db[c].local, Waits(db'[c])
  PROVE  (\A k \in Clients : Waits(db'[k])) /\ \A k \in Clients, i \in Ids : KeepsEdits(k, i)
BY CalmKeeps DEF LogEditInv

LEMMA ChooseKeepsEdits ==
  ASSUME LogEditInv, NEW c \in Clients, Choose(c)
  PROVE  (\A k \in Clients : Waits(db'[k])) /\ \A k \in Clients, i \in Ids : KeepsEdits(k, i)
<1>1. AllReplicas /\ Waits(db[c]) /\ Model(c) \in Feeds
  BY ModelForms DEF LogEditInv, LogInv, Choose
<1>2. CASE UNCHANGED db
  BY <1>1, <1>2, CalmCycle DEF OthersSame
<1>3. CASE Prepare(c, Model(c), made[c] + 1)
  BY <1>1, <1>3, PrepareWaits, PrepareApplied, CalmCycle
<1> QED
  BY <1>2, <1>3 DEF Choose

LEMMA SkipKeepsEdits ==
  ASSUME LogEditInv, NEW c \in Clients, Skip(c)
  PROVE  (\A k \in Clients : Waits(db'[k])) /\ \A k \in Clients, i \in Ids : KeepsEdits(k, i)
<1>1. AllReplicas /\ Waits(db[c]) /\ Replica(db[c])
  BY DEF LogEditInv, LogInv, AllReplicas
<1>2. CASE UNCHANGED db
  BY <1>1, <1>2, CalmCycle DEF OthersSame
<1>3. CASE db' = [db EXCEPT ![c] = Tidied(db[c])]
  <2>1. PICK d : d = db[c]
    OBVIOUS
  <2>2. PICK t : t = Tidied(d)
    OBVIOUS
  <2>3. /\ Replica(t) /\ t.local = d.local /\ t.shadow = d.shadow /\ t.conflict = d.conflict
        /\ t.deleting \subseteq d.deleting
    <3>1. Replica(t)
      BY <1>1, <2>1, <2>2, TidiedForms
    <3> QED
      BY <1>1, <2>1, <2>2, <3>1 DEF Tidied, Replica, IsDatabase
  <2>4. OthersSame(c) /\ db'[c] = t
    BY <1>1, <1>3, <2>1, <2>2, <2>3, OneChanged
  <2>5. Waits(t)
    BY <1>1, <2>1, <2>3, TidiedWaits
  <2> QED
    BY <2>1, <2>3, <2>4, <2>5, CalmCycle
<1> QED
  BY <1>2, <1>3 DEF Skip

(* A step of client c that keeps what was edited there. *)
LEMMA OwnRowsKept ==
  ASSUME LogEditInv, NEW c \in Clients, OthersSame(c), Waits(db'[c]), \A i \in Ids : KeepsEdits(c, i)
  PROVE  (\A k \in Clients : Waits(db'[k])) /\ \A k \in Clients, i \in Ids : KeepsEdits(k, i)
<1>1. \A k \in Clients : Waits(db'[k])
  BY DEF LogEditInv, OthersSame
<1>2. \A k \in Clients \ {c}, i \in Ids : KeepsEdits(k, i)
  BY UntouchedKeeps DEF OthersSame
<1> QED
  BY <1>1, <1>2

LEMMA SettleKeepsEdits ==
  ASSUME LogEditInv, NEW c \in Clients, Settle(c)
  PROVE  (\A k \in Clients : Waits(db'[k])) /\ \A k \in Clients, i \in Ids : KeepsEdits(k, i)
<1>1. PICK op \in db[c].outbox, y \in replies : y.key = <<c, op.number>> /\ Finish(c, op, y.result)
  BY DEF Settle
<1>2. LogInv /\ Waits(db[c]) /\ AcceptedOk /\ Graves
  BY DEF LogEditInv
<1>3. ReplicasInv /\ RepliesReceipted /\ WritersInv /\ Numbered
  BY <1>2, LogReplicas, LogNumbers DEF LogInv, LogServerInv
<1>4. OthersSame(c) /\ Waits(db'[c]) /\ \A i \in Ids : KeepsEdits(c, i)
  BY <1>1, <1>2, <1>3, FinishedKeeps
<1> QED
  BY <1>4, OwnRowsKept

LEMMA ReceivePageKeepsEdits ==
  ASSUME LogEditInv, NEW c \in Clients, ReceivePage(c)
  PROVE  (\A k \in Clients : Waits(db'[k])) /\ \A k \in Clients, i \in Ids : KeepsEdits(k, i)
<1>1. LogInv /\ AllReplicas /\ Waits(db[c]) /\ Graves
  BY DEF LogEditInv, LogInv
<1>2. PICK page : page = Head(call[c].pages)
  OBVIOUS
<1>3. PICK f : f = Model(c)
  OBVIOUS
<1>4. /\ call[c].at = "fetched"
      /\ \/ UNCHANGED db
         \/ db' = [db EXCEPT ![c] = PageApplied(db[c], f, page)]
  BY <1>2, <1>3 DEF ReceivePage
<1>5. CASE UNCHANGED db
  BY <1>1, <1>5, CalmCycle DEF OthersSame
<1>6. CASE db' = [db EXCEPT ![c] = PageApplied(db[c], f, page)]
  <2>1. f \in Feeds /\ PageFits(page, Log(f), After(c, f))
    <3>1. f \in Feeds /\ f = Models[call[c].k]
      BY <1>1, <1>3, <1>4, ModelForms
    <3>2. CycleOk(c, call[c])
      BY <1>1 DEF LogInv, Cycles
    <3>3. PageNext(c, call[c].k, page)
      BY <1>2, <1>4, <3>2, AfterPageForms
    <3> QED
      BY <3>1, <3>3 DEF PageNext
  <2>2. PICK e : e = PageApplied(db[c], f, page)
    OBVIOUS
  <2>3. Replica(e) /\ e.outbox = db[c].outbox /\ KeepsRows(db[c], e)
    BY <1>1, <2>1, <2>2, PageTaken
  <2>4. OthersSame(c) /\ db'[c] = e
    BY <1>1, <1>6, <2>2, <2>3, OneChanged
  <2>5. ASSUME NEW i \in Ids
        PROVE  Kept(db[c], e, i, HistoryOf(i))
    <3>1. Story(HistoryOf(i))
      BY <1>1, LogNumbers, HistoryIsStory DEF LogInv, LogServerInv
    <3> QED
      BY <1>1, <2>3, <3>1 DEF KeepsRows
  <2>6. Waits(db'[c]) /\ \A i \in Ids : KeepsEdits(c, i)
    BY <1>1, <2>3, <2>4, <2>5, KeptKeeps
  <2> QED
    BY <2>4, <2>6, OwnRowsKept
<1> QED
  BY <1>4, <1>5, <1>6

LEMMA LogStepKeepsEdits ==
  ASSUME LogEditInv, [LogNext]_logVars
  PROVE  /\ \A k \in Clients : Waits(db'[k])
         /\ edits' \in 0..MaxEdits
         /\ edits' = edits => \A k \in Clients, i \in Ids : KeepsEdits(k, i)
<1> DEFINE Keeping == /\ \A k \in Clients : Waits(db'[k])
                      /\ \A k \in Clients, i \in Ids : KeepsEdits(k, i)
<1>1. LogInv /\ AllReplicas /\ edits \in 0..MaxEdits /\ MaxEdits \in Nat
  BY SystemAssumption DEF LogEditInv, LogInv
<1>2. UNCHANGED <<db, edits>> => Keeping /\ edits' = edits
  BY UntouchedKeeps DEF LogEditInv
<1>3. ASSUME NEW c \in Clients, LogEdit(c)
      PROVE  (\A k \in Clients : Waits(db'[k])) /\ edits' \in 0..MaxEdits /\ edits' # edits
  <2>1. OthersSame(c)
    BY <1>1, <1>3, EditApplied DEF LogEdit, Edit
  <2>2. Waits(db'[c])
    BY <1>1, <1>3, EditWaits DEF LogEditInv, LogEdit
  <2>3. edits < MaxEdits /\ edits' = edits + 1
    BY <1>3 DEF LogEdit, Edit
  <2>4. edits' \in 0..MaxEdits /\ edits' # edits
    BY <1>1, <2>3
  <2> QED
    BY <2>1, <2>2, <2>4 DEF LogEditInv, OthersSame
<1>4. ASSUME NEW c \in Clients, Choose(c) \/ Skip(c) \/ Settle(c) \/ ReceivePage(c)
      PROVE  Keeping /\ edits' = edits
  BY <1>4, ChooseKeepsEdits, SkipKeepsEdits, SettleKeepsEdits, ReceivePageKeepsEdits
     DEF Choose, Skip, Settle, ReceivePage
<1>5. ASSUME NEW c \in Clients,
             \/ Submit(c) \/ Discard(c) \/ FetchBatch(c) \/ FetchOne(c)
             \/ LogPush(c) \/ Begin(c) \/ Interrupt(c) \/ Reopen(c)
      PROVE  UNCHANGED <<db, edits>>
  BY <1>5 DEF Submit, Discard, FetchBatch, FetchOne, LogPush, Begin, Interrupt, Reopen, systemVars
<1>6. (\E f \in Feeds : Backfill(f)) \/ LogWrite \/ UNCHANGED logVars => UNCHANGED <<db, edits>>
  BY DEF Backfill, LogWrite, logVars, systemVars
<1> HIDE DEF Keeping
<1>7. \/ Keeping /\ edits' = edits
      \/ (\A k \in Clients : Waits(db'[k])) /\ edits' \in 0..MaxEdits /\ edits' # edits
  BY <1>2, <1>3, <1>4, <1>5, <1>6 DEF LogNext, CycleStep
<1> QED
  BY <1>1, <1>7 DEF Keeping

LEMMA LogEditInitially ==
  ASSUME LogInit
  PROVE  LogEditInv
<1>1. /\ journal = <<>> /\ receipts = {} /\ edits = 0
      /\ db = [c \in Clients |-> EmptyDatabase]
  BY DEF LogInit, ClientInit
<1>2. AcceptedOk
  BY <1>1 DEF AcceptedOk
<1>3. Graves
  BY <1>1, EmptyLogs DEF Graves
<1>4. PICK a : a = EmptyDatabase
  OBVIOUS
<1>5. Waits(a)
  <2>1. \A i \in Ids : a.conflict[i] = None
    BY <1>4 DEF EmptyDatabase
  <2> QED
    BY <2>1 DEF Waits, RetryOk
<1>6. \A c \in Clients : Waits(db[c])
  BY <1>1, <1>4, <1>5
<1>7. edits \in 0..MaxEdits
  BY <1>1, SystemAssumption
<1> QED
  BY <1>2, <1>3, <1>6, <1>7, LogInitially DEF LogEditInv

LEMMA LogEditInductive ==
  ASSUME LogEditInv, [LogNext]_logVars
  PROVE  LogEditInv'
<1>1. LogInv /\ LogServerInv /\ Typed /\ AcceptedOk /\ Graves
  BY DEF LogEditInv, LogInv, LogServerInv
<1>2. LogInv'
  BY <1>1, LogInductive
<1>3. ASSUME UNCHANGED <<journal, receipts>>
      PROVE  AcceptedOk' /\ Graves'
  BY <1>1, <1>3 DEF AcceptedOk, Graves, GroupsOf, Sequence
<1>4. ASSUME NEW f \in Feeds, Backfill(f)
      PROVE  AcceptedOk' /\ Graves'
  <2>1. receipts' = receipts
    BY <1>4 DEF Backfill
  <2> QED
    BY <1>1, <1>4, <2>1, BackfillGraves DEF AcceptedOk
<1>5. ASSUME LogWrite \/ \E c \in Clients : LogPush(c)
      PROVE  AcceptedOk' /\ Graves'
  <2>1. History /\ Step
    BY <1>1, <1>5, LogSteps DEF ServerInv
  <2> QED
    BY <1>1, <2>1, AcceptedStays, GravesStay
<1>6. ASSUME NEW c \in Clients, LogEdit(c) \/ Begin(c) \/ CycleStep(c) \/ Interrupt(c) \/ Reopen(c)
      PROVE  UNCHANGED <<journal, receipts>>
  BY <1>6 DEF LogEdit, Edit, Begin, Interrupt, Reopen, CycleStep, Choose, Skip, Submit, Settle, Discard,
              FetchBatch, FetchOne, ReceivePage, systemVars, serverVars
<1>7. UNCHANGED logVars => UNCHANGED <<journal, receipts>>
  BY DEF logVars, systemVars, serverVars
<1>8. AcceptedOk' /\ Graves'
  BY <1>3, <1>4, <1>5, <1>6, <1>7 DEF LogNext
<1> QED
  BY <1>2, <1>8, LogStepKeepsEdits DEF LogEditInv

(* Synchronization by model logs never takes an edit away either: however  *)
(* the pages of several logs, answers and retries of blocked rows cross,   *)
(* a field the application edited keeps its value, and a row it deleted    *)
(* stays deleted, until it is sent and accepted, the server has the same   *)
(* value, or the application resolves a conflict (apply_model_changes,     *)
(* reconcile, protect_dependencies, finish_result).                        *)
THEOREM LogEditsSurvive == LogSpec => LogsKeepEdits
<1>1. LogEditInv /\ [LogNext]_logVars =>
        [edits' = edits => \A c \in Clients : \A i \in Ids : KeepsEdits(c, i)]_logVars
  BY LogStepKeepsEdits
<1> QED
  BY <1>1, LogEditInitially, LogEditInductive, PTL DEF LogSpec, LogsKeepEdits

-----------------------------------------------------------------------------
(* Payloads.                                                               *)

(* Where a cycle stands; while it works on an operation it has its number. *)
Placed(e) ==
  /\ "at" \in DOMAIN e
  /\ e.at \in {"chosen", "submitted", "settled"} => "number" \in DOMAIN e

Payload(number, a) == [number |-> number, adapter |-> a]

(* Stored payloads: one per operation. *)
PayloadsSingle ==
  /\ payload = [c \in Clients |-> payload[c]]
  /\ \A c \in Clients : \A s \in payload[c] : s = Payload(s.number, s.adapter)
  /\ \A c \in Clients : \A s, t \in payload[c] : s.number = t.number => s.adapter = t.adapter

(* What was sent is stored. *)
SentStored ==
  \A s \in sent : /\ s.client \in Clients
                  /\ s = [client |-> s.client, number |-> s.number, adapter |-> s.adapter]
                  /\ Payload(s.number, s.adapter) \in payload[s.client]

(* The payload is discarded when nothing of the operation is on its way. *)
SettledQuiet ==
  /\ call = [c \in Clients |-> call[c]]
  /\ \A c \in Clients :
       /\ Placed(call[c])
       /\ call[c].at = "settled" => \A s \in sent : s.client # c \/ s.number # call[c].number

EncodingInv == PayloadsSingle /\ SentStored /\ SettledQuiet

-----------------------------------------------------------------------------
LEMMA EncodingInitially == LogInit => EncodingInv
<1> SUFFICES ASSUME LogInit
             PROVE  EncodingInv
  OBVIOUS
<1>1. PayloadsSingle
  BY DEF LogInit, PayloadsSingle
<1>2. SentStored
  BY DEF LogInit, SentStored
<1>3. SettledQuiet
  BY DEF LogInit, SettledQuiet, Placed, Resting
<1> QED
  BY <1>1, <1>2, <1>3 DEF EncodingInv

(* A step of the cycle that neither stores, sends nor settles. *)
LEMMA MoveKeeps ==
  ASSUME EncodingInv, NEW c \in Clients, NEW e, Placed(e), e.at # "settled",
         Moves(c, e), UNCHANGED <<payload, sent>>
  PROVE  EncodingInv'
<1>1. PayloadsSingle'
  BY DEF EncodingInv, PayloadsSingle
<1>2. SentStored'
  BY DEF EncodingInv, SentStored
<1>3. SettledQuiet'
  BY DEF EncodingInv, SettledQuiet, Moves
<1> QED
  BY <1>1, <1>2, <1>3 DEF EncodingInv

(* A step that does not concern the cycle. *)
LEMMA OthersKeep ==
  ASSUME EncodingInv, UNCHANGED <<call, payload, sent>>
  PROVE  EncodingInv'
BY DEF EncodingInv, PayloadsSingle, SentStored, SettledQuiet

(* The places that a step may lead to. *)
LEMMA Places ==
  /\ Placed(Resting) /\ Resting.at = "rest"
  /\ \A k, new, sync : /\ Placed(Flushing(k, new, sync))
                       /\ Flushing(k, new, sync).at = "flush"
  /\ \A k, sync, clear : /\ Placed(Pulling(k, sync, clear))
                         /\ Pulling(k, sync, clear).at = "pull"
  /\ \A e, n : Placed(Chosen(e, n)) /\ Chosen(e, n).at = "chosen"
  /\ \A e, pages : Placed(Fetched(e, pages)) /\ Fetched(e, pages).at = "fetched"
BY DEF Placed, Resting, Flushing, Pulling, Chosen, Fetched

LEMMA PlacesAfter ==
  /\ \A e : Placed(AfterFlush(e)) /\ AfterFlush(e).at # "settled"
  /\ \A e, clear : Placed(e) /\ e.at = "fetched" =>
       Placed(AfterPage(e, clear)) /\ AfterPage(e, clear).at # "settled"
<1>1. ASSUME NEW e
      PROVE  Placed(AfterFlush(e)) /\ AfterFlush(e).at # "settled"
  BY Places DEF AfterFlush
<1>2. ASSUME NEW e, NEW clear, Placed(e), e.at = "fetched"
      PROVE  Placed(AfterPage(e, clear)) /\ AfterPage(e, clear).at # "settled"
  <2> DEFINE next == [e EXCEPT !.k = @ + 1, !.clear = clear, !.pages = Tail(@)]
  <2>1. Placed(next) /\ next.at = "fetched"
    BY <1>2 DEF Placed
  <2> HIDE DEF next
  <2>2. AfterPage(e, clear) \in {Flushing(1, TRUE, FALSE), Resting, next, Pulling(e.k + 1, e.sync, clear)}
    BY DEF AfterPage, next
  <2> QED
    BY <2>1, <2>2, Places
<1> QED
  BY <1>1, <1>2

-----------------------------------------------------------------------------
(* The steps of the cycle.                                                 *)

LEMMA SubmitKeeps ==
  ASSUME EncodingInv, NEW c \in Clients, Submit(c)
  PROVE  EncodingInv'
<1> DEFINE n == call[c].number
<1>1. /\ call[c].at = "chosen"
      /\ \A s \in payload[c] : s.number = n => s.adapter = adapter[c]
      /\ payload' = [payload EXCEPT ![c] = @ \cup {Payload(n, adapter[c])}]
      /\ sent' = sent \cup {[client |-> c, number |-> n, adapter |-> adapter[c]]}
      /\ call' = [call EXCEPT ![c] = Submitted(call[c])]
  BY DEF Submit, Encodable, Moves, Payload
<1> HIDE DEF n
<1>2. PayloadsSingle'
  <2>1. payload' = [k \in Clients |-> payload'[k]]
    BY <1>1 DEF EncodingInv, PayloadsSingle
  <2>2. /\ Payload(n, adapter[c]).number = n /\ Payload(n, adapter[c]).adapter = adapter[c]
        /\ payload'[c] = payload[c] \cup {Payload(n, adapter[c])}
        /\ \A k \in Clients : k # c => payload'[k] = payload[k]
    BY <1>1 DEF EncodingInv, PayloadsSingle, Payload
  <2> QED
    BY <1>1, <2>1, <2>2 DEF EncodingInv, PayloadsSingle
<1>3. SentStored'
  <2>1. \A k \in Clients : payload[k] \subseteq payload'[k]
    BY <1>1 DEF EncodingInv, PayloadsSingle
  <2>2. Payload(n, adapter[c]) \in payload'[c]
    BY <1>1 DEF EncodingInv, PayloadsSingle
  <2> QED
    BY <1>1, <2>1, <2>2 DEF EncodingInv, SentStored
<1>4. SettledQuiet'
  <2>1. Placed(Submitted(call[c])) /\ Submitted(call[c]).at = "submitted"
    BY <1>1 DEF EncodingInv, SettledQuiet, Placed, Submitted
  <2>2. /\ call' = [k \in Clients |-> call'[k]]
        /\ call'[c] = Submitted(call[c])
        /\ \A k \in Clients : k # c => call'[k] = call[k]
    BY <1>1 DEF EncodingInv, SettledQuiet
  <2>3. \A s \in sent' : s \in sent \/ s.client = c
    BY <1>1
  <2> QED
    BY <2>1, <2>2, <2>3 DEF EncodingInv, SettledQuiet
<1> QED
  BY <1>2, <1>3, <1>4 DEF EncodingInv

LEMMA SettleKeeps ==
  ASSUME EncodingInv, NEW c \in Clients, Settle(c)
  PROVE  EncodingInv'
<1>1. /\ call[c].at = "submitted"
      /\ sent' = {s \in sent : s.client # c \/ s.number # call[c].number}
      /\ call' = [call EXCEPT ![c] = Settled(call[c])]
      /\ payload' = payload
  BY DEF Settle, Moves
<1>2. PayloadsSingle'
  BY <1>1 DEF EncodingInv, PayloadsSingle
<1>3. SentStored'
  BY <1>1 DEF EncodingInv, SentStored
<1>4. SettledQuiet'
  <2>1. /\ Placed(Settled(call[c])) /\ Settled(call[c]).at = "settled"
        /\ Settled(call[c]).number = call[c].number
    BY <1>1 DEF EncodingInv, SettledQuiet, Placed, Settled
  <2>2. /\ call' = [k \in Clients |-> call'[k]]
        /\ call'[c] = Settled(call[c])
        /\ \A k \in Clients : k # c => call'[k] = call[k]
    BY <1>1 DEF EncodingInv, SettledQuiet
  <2> QED
    BY <1>1, <2>1, <2>2 DEF EncodingInv, SettledQuiet
<1> QED
  BY <1>2, <1>3, <1>4 DEF EncodingInv

LEMMA DiscardKeeps ==
  ASSUME EncodingInv, NEW c \in Clients, Discard(c)
  PROVE  EncodingInv'
<1>1. /\ call[c].at = "settled"
      /\ payload' = [payload EXCEPT ![c] = {s \in @ : s.number # call[c].number}]
      /\ call' = [call EXCEPT ![c] = AfterFlush(call[c])]
      /\ sent' = sent
  BY DEF Discard, Moves
<1>2. /\ payload' = [k \in Clients |-> payload'[k]]
      /\ payload'[c] = {s \in payload[c] : s.number # call[c].number}
      /\ \A k \in Clients : k # c => payload'[k] = payload[k]
  BY <1>1 DEF EncodingInv, PayloadsSingle
<1>3. PayloadsSingle'
  BY <1>2 DEF EncodingInv, PayloadsSingle
<1>4. SentStored'
  <2> SUFFICES ASSUME NEW s \in sent
               PROVE  Payload(s.number, s.adapter) \in payload'[s.client]
    BY <1>1 DEF EncodingInv, SentStored
  <2>1. s.client \in Clients /\ Payload(s.number, s.adapter) \in payload[s.client]
    BY DEF EncodingInv, SentStored
  <2>2. s.client = c => s.number # call[c].number
    BY <1>1 DEF EncodingInv, SettledQuiet
  <2>3. Payload(s.number, s.adapter).number = s.number
    BY DEF Payload
  <2> QED
    BY <1>2, <2>1, <2>2, <2>3
<1>5. SettledQuiet'
  BY <1>1, PlacesAfter DEF EncodingInv, SettledQuiet
<1> QED
  BY <1>3, <1>4, <1>5 DEF EncodingInv

LEMMA CycleKeeps ==
  ASSUME EncodingInv, NEW c \in Clients, CycleStep(c)
  PROVE  EncodingInv'
<1>1. Placed(call[c])
  BY DEF EncodingInv, SettledQuiet
<1>2. CASE Choose(c)
  <2>1. \E n : Moves(c, Chosen(call[c], n))
    BY <1>2 DEF Choose
  <2>2. UNCHANGED <<payload, sent>>
    BY <1>2 DEF Choose
  <2> QED
    BY <2>1, <2>2, Places, MoveKeeps
<1>3. CASE Skip(c)
  BY <1>3, PlacesAfter, MoveKeeps DEF Skip
<1>4. CASE FetchBatch(c)
  <2>1. \E pages : Moves(c, Fetched(call[c], pages))
    BY <1>4 DEF FetchBatch
  <2>2. UNCHANGED <<payload, sent>>
    BY <1>4 DEF FetchBatch
  <2> QED
    BY <2>1, <2>2, Places, MoveKeeps
<1>5. CASE FetchOne(c)
  <2>1. \E pages : Moves(c, Fetched(call[c], pages))
    BY <1>5 DEF FetchOne
  <2>2. UNCHANGED <<payload, sent>>
    BY <1>5 DEF FetchOne
  <2> QED
    BY <2>1, <2>2, Places, MoveKeeps
<1>6. CASE ReceivePage(c)
  <2>1. \E clear : Moves(c, AfterPage(call[c], clear))
    BY <1>6 DEF ReceivePage
  <2>2. call[c].at = "fetched" /\ UNCHANGED <<payload, sent>>
    BY <1>6 DEF ReceivePage
  <2> QED
    BY <1>1, <2>1, <2>2, PlacesAfter, MoveKeeps
<1> QED
  BY <1>2, <1>3, <1>4, <1>5, <1>6, SubmitKeeps, SettleKeeps, DiscardKeeps DEF CycleStep

LEMMA EncodingInductive ==
  ASSUME EncodingInv, [LogNext]_logVars
  PROVE  EncodingInv'
<1>1. CASE \E f \in Feeds : Backfill(f)
  BY <1>1, OthersKeep DEF Backfill
<1>2. CASE LogWrite
  BY <1>2, OthersKeep DEF LogWrite
<1>3. ASSUME NEW c \in Clients
      PROVE  /\ LogEdit(c) => EncodingInv'
             /\ LogPush(c) => EncodingInv'
             /\ Begin(c) => EncodingInv'
             /\ Interrupt(c) => EncodingInv'
             /\ Reopen(c) => EncodingInv'
  <2>1. LogEdit(c) => EncodingInv'
    BY OthersKeep DEF LogEdit, Edit
  <2>2. LogPush(c) => EncodingInv'
    BY OthersKeep DEF LogPush
  <2>3. Begin(c) => EncodingInv'
    BY Places, MoveKeeps DEF Begin
  <2>4. Interrupt(c) => EncodingInv'
    BY Places, MoveKeeps DEF Interrupt
  <2>5. Reopen(c) => EncodingInv'
    BY OthersKeep DEF Reopen, systemVars
  <2> QED
    BY <2>1, <2>2, <2>3, <2>4, <2>5
<1>4. CASE UNCHANGED logVars
  BY <1>4, OthersKeep DEF logVars, systemVars
<1> QED
  BY <1>1, <1>2, <1>3, <1>4, CycleKeeps DEF LogNext

(* All deliveries of an operation have one payload, and it is stored until *)
(* the operation is settled (flush_inner), for any number of clients,      *)
(* operations and transports, and however often the process ends.          *)
THEOREM EncodedOnce == LogSpec => []OneEncoding
<1>1. ASSUME EncodingInv
      PROVE  OneEncoding
  <2>1. \A s \in sent : /\ s.client \in Clients
                        /\ s = [client |-> s.client, number |-> s.number, adapter |-> s.adapter]
                        /\ Payload(s.number, s.adapter) \in payload[s.client]
    BY <1>1 DEF EncodingInv, SentStored
  <2>2. ASSUME NEW s \in sent, NEW t \in sent, s.client = t.client, s.number = t.number
        PROVE  s = t
    <3>1. \A n, a : Payload(n, a).number = n /\ Payload(n, a).adapter = a
      BY DEF Payload
    <3>2. \A x, y \in payload[s.client] : x.number = y.number => x.adapter = y.adapter
      BY <1>1, <2>1 DEF EncodingInv, PayloadsSingle
    <3>3. s.adapter = t.adapter
      BY <2>1, <2>2, <3>1, <3>2
    <3> QED
      BY <2>1, <2>2, <3>3
  <2>3. \A s \in sent : \A op \in db[s.client].outbox :
           op.number = s.number => [number |-> s.number, adapter |-> s.adapter] \in payload[s.client]
    BY <2>1 DEF Payload
  <2> QED
    BY <2>2, <2>3 DEF OneEncoding
<1> QED
  BY <1>1, EncodingInitially, EncodingInductive, PTL DEF LogSpec
=============================================================================
