---------------------------- MODULE AuditProofs -----------------------------
(***************************************************************************)
(* Proofs about the audit trail, for any processes, records, services and  *)
(* bounds: the log of a repository under retention, the service that hands *)
(* records to its sinks, and the chains of the enterprise edition.         *)
(*                                                                         *)
(* Of the log two invariants are kept.  RepositoryInv holds whatever       *)
(* happens: what is in the log, in a list of survivors that has not been   *)
(* written yet, or remembered as the last hash is genuine.  OrderlyInv     *)
(* adds, for one process whose writes succeed, that the log and the        *)
(* survivors are tidy: they leave out no record newer than one they hold.  *)
(* Retention picks elements of lists, so the lemmas speak of such parts.   *)
(***************************************************************************)
EXTENDS AuditRepository, AuditSinks, EnterpriseAudit, SubsequenceProofs, FiniteSetTheorems,
        TLAPS

-----------------------------------------------------------------------------
(* Lists: t has the elements of s at the indices I, each once.             *)
Picks(t, s, I, f) ==
    /\ Len(t) \in Nat /\ t = [k \in 1..Len(t) |-> t[k]]
    /\ f \in [1..Len(t) -> I]
    /\ \A k \in 1..Len(t) : t[k] = s[f[k]]
    /\ \A j, k \in 1..Len(t) : j # k => f[j] # f[k]
    /\ \A i \in I : \E k \in 1..Len(t) : f[k] = i

Lists(t, s, I) == \E f : Picks(t, s, I, f)

LEMMA LinesDiffer == \A r \in AuditRecord : r # Unreadable
<1> SUFFICES ASSUME NEW r \in AuditRecord
             PROVE  r.id # Unreadable.id
  OBVIOUS
<1> QED
  BY RepositoryAssumption DEF AuditRecord, Unreadable, NoHash

LEMMA KeptLists ==
    ASSUME NEW s, Len(s) \in Nat, NEW I, I \subseteq 1..Len(s)
    PROVE  /\ Lists(Kept(s, I), s, I)
           /\ Len(Kept(s, I)) \in Nat
           /\ \E f \in [1..Len(Kept(s, I)) -> I] :
                /\ \A k \in 1..Len(Kept(s, I)) : Kept(s, I)[k] = s[f[k]]
                /\ \A j, k \in 1..Len(Kept(s, I)) : j < k => f[j] < f[k]
<1> DEFINE n == Cardinality(I)
           f == Listing(I, Ascending(I))
           t == Kept(s, I)
<1>1. /\ n \in Nat /\ f \in [1..n -> I]
      /\ t = [k \in 1..n |-> t[k]]
      /\ \A k \in 1..n : t[k] = s[f[k]]
      /\ \A j, k \in 1..n : j < k => f[j] < f[k]
      /\ \A i \in I : \E k \in 1..n : f[k] = i
  BY KeptInOrder
<1> HIDE DEF n, f, t
<1>2. Len(t) = n
  BY <1>1
<1>3. ASSUME NEW j \in 1..n, NEW k \in 1..n, j # k
      PROVE  f[j] # f[k]
  <2>1. f[j] \in Int /\ f[k] \in Int /\ (j < k \/ k < j)
    BY <1>1, <1>3
  <2> QED
    BY <1>1, <2>1
<1>4. Picks(t, s, I, f)
  BY <1>1, <1>2, <1>3 DEF Picks
<1> QED
  BY <1>1, <1>2, <1>4 DEF Lists, t

(* The stable order by timestamps.                                         *)
ByTime(s, I) == {p \in I \X I : Earlier(s, p[1], p[2])}

LEMMA TimeOrderLists ==
    ASSUME NEW s, Len(s) \in Nat, NEW I, I \subseteq 1..Len(s), \A i \in I : s[i].time \in Nat
    PROVE  /\ Lists(InTimeOrder(s, I), s, I)
           /\ Len(InTimeOrder(s, I)) \in Nat
           /\ \E f \in [1..Len(InTimeOrder(s, I)) -> I] :
                /\ \A k \in 1..Len(InTimeOrder(s, I)) : InTimeOrder(s, I)[k] = s[f[k]]
                /\ \A j, k \in 1..Len(InTimeOrder(s, I)) : j < k => Earlier(s, f[j], f[k])
<1> DEFINE R == ByTime(s, I)
           n == Cardinality(I)
           f == Listing(I, R)
           t == InTimeOrder(s, I)
           nth(k) == CHOOSE i \in I : Cardinality({j \in I : Earlier(s, j, i)}) = k - 1
<1>1. IsFiniteSet(I)
  <2>1. IsFiniteSet(1..Len(s))
    BY FS_Interval
  <2> QED
    BY <2>1, FS_Subset
<1>2. \A i, j \in I : <<i, j>> \in R <=> Earlier(s, i, j)
  BY DEF ByTime
<1>3. Orders(R, I)
  <2>1. \A i \in I : ~Earlier(s, i, i)
    BY DEF Earlier
  <2>2. \A i, j \in I : i # j => Earlier(s, i, j) \/ Earlier(s, j, i)
    BY DEF Earlier
  <2>3. \A i, j, k \in I : Earlier(s, i, j) /\ Earlier(s, j, k) => Earlier(s, i, k)
    BY DEF Earlier
  <2> HIDE DEF R
  <2> QED
    BY <1>2, <2>1, <2>2, <2>3 DEF Orders
<1>4. /\ n \in Nat /\ f \in [1..n -> I]
      /\ \A j, k \in 1..n : j < k => <<f[j], f[k]>> \in R
      /\ \A i \in I : \E k \in 1..n : f[k] = i
  <2> HIDE DEF R
  <2> QED
    BY <1>1, <1>3, ListingIsInOrder
<1>5. \A i \in I : Before(I, R, i) = {j \in I : Earlier(s, j, i)}
  BY <1>2 DEF Before
<1>6. \A k \in 1..n : f[k] = nth(k)
  BY <1>5 DEF Listing
<1>7. t = [k \in 1..n |-> s[nth(k)]]
  BY DEF InTimeOrder
<1> HIDE DEF n, nth, f, t
<1>8. /\ t = [k \in 1..n |-> t[k]] /\ \A k \in 1..n : t[k] = s[f[k]]
  BY <1>6, <1>7
<1>9. Len(t) = n
  BY <1>4, <1>8
<1>10. \A j, k \in 1..n : j < k => Earlier(s, f[j], f[k])
  BY <1>2, <1>4
<1>11. ASSUME NEW j \in 1..n, NEW k \in 1..n, j # k
       PROVE  f[j] # f[k]
  <2>1. f[j] \in I /\ f[k] \in I /\ (j < k \/ k < j)
    BY <1>4, <1>11
  <2>2. \A i \in I : ~Earlier(s, i, i)
    BY DEF Earlier
  <2> QED
    BY <1>10, <2>1, <2>2
<1>12. Picks(t, s, I, f)
  BY <1>4, <1>8, <1>9, <1>11 DEF Picks
<1> QED
  BY <1>4, <1>8, <1>9, <1>10, <1>12 DEF Lists, t

LEMMA ReverseLists ==
    ASSUME NEW s, Len(s) \in Nat
    PROVE  Lists(Reverse(s), s, 1..Len(s))
<1> DEFINE f == [k \in 1..Len(s) |-> (Len(s) - k) + 1]
           t == Reverse(s)
<1>1. t = [k \in 1..Len(s) |-> s[f[k]]]
  BY DEF Reverse
<1>2. /\ f \in [1..Len(s) -> 1..Len(s)]
      /\ \A j, k \in 1..Len(s) : j # k => f[j] # f[k]
  OBVIOUS
<1>3. ASSUME NEW i \in 1..Len(s)
      PROVE  \E k \in 1..Len(s) : f[k] = i
  <2>1. (Len(s) - i) + 1 \in 1..Len(s) /\ f[(Len(s) - i) + 1] = i
    OBVIOUS
  <2> QED
    BY <2>1
<1> HIDE DEF f, t
<1>4. Len(t) = Len(s) /\ t = [k \in 1..Len(s) |-> t[k]] /\ \A k \in 1..Len(s) : t[k] = s[f[k]]
  BY <1>1
<1>5. Picks(t, s, 1..Len(s), f)
  BY <1>2, <1>3, <1>4 DEF Picks
<1> QED
  BY <1>5 DEF Lists, t

-----------------------------------------------------------------------------
(* The log and its retention.                                              *)

Line == AuditRecord \cup {Unreadable}

(* A hash names nothing, a record whose write failed, or one of the first  *)
(* n audited, which has a hash itself.                                     *)
NamesOneOf(hash, done, n) ==
    hash \in {NoHash, UnwrittenHash} \/ (hash \in 1..n /\ done[hash].hashed)

(* What has been audited: numbered, stamped no later than it was written,  *)
(* each naming an earlier one.                                             *)
Trail(done) ==
    /\ done \in Seq(AuditRecord) /\ Len(done) <= MaxAudited
    /\ \A k \in 1..Len(done) :
        done[k].id = k /\ done[k].time \in 1..k /\ NamesOneOf(done[k].prev, done, k - 1)

(* The lines of s that can be parsed are of what was audited, each once.   *)
Genuine(s, done) ==
    /\ s \in Seq(Line)
    /\ \A k \in DOMAIN s :
        s[k] # Unreadable => s[k].id \in 1..Len(done) /\ s[k] = done[s[k].id]
    /\ \A j, k \in DOMAIN s : j # k /\ s[k] # Unreadable => s[j] # s[k]

RepositoryInv ==
    /\ setup \in Setups
    /\ Trail(audited)
    /\ Genuine(log, audited)
    /\ lastHash = [i \in Repository |-> lastHash[i]]
    /\ \A i \in Repository : NamesOneOf(lastHash[i], audited, Len(audited))
    /\ pruning = [i \in Repository |-> pruning[i]]
    /\ \A i \in Repository : Genuine(pruning[i], audited)

(* With every record of s the later ones are in s too; in a file, in the   *)
(* order in which they were audited.                                       *)
Newer(s, done) ==
    \A k \in DOMAIN s : \A m \in s[k].id..Len(done) : \E j \in DOMAIN s : s[j] = done[m]

Sorted(s) == \A j, k \in DOMAIN s : j < k => s[j].id < s[k].id

Tidy(s, done, kind) ==
    /\ \A k \in DOMAIN s : s[k] # Unreadable
    /\ Newer(s, done)
    /\ kind = "file" => Sorted(s)

(* The records of an orderly repository, in a chain that begins anew when  *)
(* a process finds nothing to go on from.                                  *)
Chained(done) ==
    \A k \in 1..Len(done) :
        done[k].time = k /\ done[k].hashed /\ done[k].prev \in {NoHash, k - 1}

OrderlyInv ==
    Orderly =>
        /\ Chained(audited)
        /\ Tidy(log, audited, setup.kind)
        /\ \A i \in setup.users :
            /\ lastHash[i] \in {NoHash, Len(audited)}
            /\ pruning[i] # NotPruning => Tidy(pruning[i], audited, setup.kind)

-----------------------------------------------------------------------------
(* Lists of genuine lines.                                                 *)

LEMMA PartsAreGenuine ==
    ASSUME NEW done, NEW s, Genuine(s, done), NEW I, I \subseteq DOMAIN s,
           NEW t, Lists(t, s, I)
    PROVE  Genuine(t, done)
<1>1. PICK f : Picks(t, s, I, f)
  BY DEF Lists
<1>2. \A k \in 1..Len(t) : f[k] \in DOMAIN s /\ t[k] = s[f[k]]
  BY <1>1 DEF Picks
<1>3. t \in Seq(Line)
  <2>1. \A k \in 1..Len(t) : t[k] \in Line
    BY <1>2 DEF Genuine
  <2>2. t \in [1..Len(t) -> Line] /\ Len(t) \in Nat
    BY <1>1, <2>1 DEF Picks
  <2> QED
    BY <2>2
<1>4. DOMAIN t = 1..Len(t)
  BY <1>3
<1>5. \A k \in DOMAIN t : t[k] # Unreadable => t[k].id \in 1..Len(done) /\ t[k] = done[t[k].id]
  BY <1>2, <1>4 DEF Genuine
<1>6. \A j, k \in DOMAIN t : j # k /\ t[k] # Unreadable => t[j] # t[k]
  BY <1>1, <1>2, <1>4 DEF Genuine, Picks
<1> QED
  BY <1>3, <1>5, <1>6 DEF Genuine

Legible(s) == \A k \in DOMAIN s : s[k] # Unreadable

LEMMA PartsAreLegible ==
    ASSUME NEW s, Legible(s), NEW I, I \subseteq DOMAIN s, NEW t, Lists(t, s, I)
    PROVE  Legible(t)
<1>1. PICK f : Picks(t, s, I, f)
  BY DEF Lists
<1>2. \A k \in 1..Len(t) : f[k] \in DOMAIN s /\ t[k] = s[f[k]]
  BY <1>1 DEF Picks
<1>3. DOMAIN t = 1..Len(t)
  BY <1>1 DEF Picks
<1> QED
  BY <1>2, <1>3 DEF Legible

(* What is read is the log up to its first unreadable line.                *)
LEMMA ReadableIsPrefix ==
    ASSUME NEW s \in Seq(Line)
    PROVE  /\ Readable(s) \in Seq(Line) /\ Len(Readable(s)) <= Len(s)
           /\ \A k \in 1..Len(Readable(s)) : Readable(s)[k] = s[k] /\ s[k] # Unreadable
           /\ Legible(s) => Readable(s) = s
<1> DEFINE bad == {i \in 1..Len(s) : s[i] = Unreadable}
           first == CHOOSE i \in bad : \A j \in bad : i <= j
<1>1. Len(s) \in Nat /\ DOMAIN s = 1..Len(s)
  OBVIOUS
<1>2. CASE bad = {}
  BY <1>1, <1>2 DEF Readable
<1>3. CASE bad # {}
  <2>1. first \in bad /\ \A j \in bad : first <= j
    <3>1. bad \subseteq Nat
      BY <1>1
    <3>2. Min(bad) \in bad /\ \A j \in bad : Min(bad) <= j
      BY <1>3, <3>1, LeastExists
    <3> HIDE DEF bad
    <3> QED
      BY <3>2
  <2>2. Readable(s) = SubSeq(s, 1, first - 1)
    BY <1>3 DEF Readable
  <2> HIDE DEF first
  <2>3. first \in 1..Len(s)
    BY <2>1
  <2>4. /\ SubSeq(s, 1, first - 1) \in Seq(Line) /\ Len(SubSeq(s, 1, first - 1)) = first - 1
        /\ \A k \in 1..(first - 1) : SubSeq(s, 1, first - 1)[k] = s[k]
    BY <1>1, <2>3
  <2>5. \A k \in 1..(first - 1) : s[k] # Unreadable
    BY <1>1, <2>1, <2>3
  <2>6. ~Legible(s)
    BY <1>1, <2>1 DEF Legible
  <2> QED
    BY <1>1, <2>2, <2>3, <2>4, <2>5, <2>6
<1> QED
  BY <1>2, <1>3

LEMMA ReadableIsGenuine ==
    ASSUME NEW done, NEW s, Genuine(s, done)
    PROVE  Genuine(Readable(s), done) /\ Legible(Readable(s))
<1> DEFINE t == Readable(s)
<1>1. s \in Seq(Line) /\ DOMAIN s = 1..Len(s) /\ Len(s) \in Nat
  BY DEF Genuine
<1>2. /\ t \in Seq(Line) /\ Len(t) <= Len(s)
      /\ \A k \in 1..Len(t) : t[k] = s[k] /\ s[k] # Unreadable
  BY <1>1, ReadableIsPrefix
<1> HIDE DEF t
<1>3. DOMAIN t = 1..Len(t) /\ \A k \in DOMAIN t : k \in DOMAIN s
  BY <1>1, <1>2
<1>4. Genuine(t, done) /\ Legible(t)
  BY <1>2, <1>3 DEF Genuine, Legible
<1> QED
  BY <1>4 DEF t

(* Genuine lines that can be read are audited records.                     *)
LEMMA GenuineRecords ==
    ASSUME NEW done, Trail(done), NEW s, Genuine(s, done), Legible(s)
    PROVE  /\ Len(s) \in Nat /\ DOMAIN s = 1..Len(s)
           /\ \A k \in DOMAIN s :
                s[k] \in AuditRecord /\ s[k].id \in 1..Len(done) /\ s[k] = done[s[k].id]
                    /\ s[k].time \in Nat
<1>1. \A k \in 1..Len(done) : done[k] \in AuditRecord /\ done[k].time \in Nat
  BY DEF Trail
<1> QED
  BY <1>1 DEF Genuine, Legible

-----------------------------------------------------------------------------
(* Retention.                                                              *)

LEMMA RecentLists ==
    ASSUME NEW done, Trail(done), NEW s, Genuine(s, done), Legible(s), NEW cutoff \in Nat
    PROVE  /\ Lists(Recent(s, cutoff), s, {i \in DOMAIN s : s[i].time >= cutoff})
           /\ Genuine(Recent(s, cutoff), done) /\ Legible(Recent(s, cutoff))
<1> DEFINE I == {i \in DOMAIN s : s[i].time >= cutoff}
<1>1. Len(s) \in Nat /\ I \subseteq 1..Len(s) /\ I \subseteq DOMAIN s
  BY GenuineRecords
<1>2. Lists(Recent(s, cutoff), s, I)
  <2>1. Recent(s, cutoff) = Kept(s, I)
    BY DEF Recent
  <2> HIDE DEF I
  <2> QED
    BY <1>1, <2>1, KeptLists
<1> HIDE DEF I
<1>3. Genuine(Recent(s, cutoff), done) /\ Legible(Recent(s, cutoff))
  BY <1>1, <1>2, PartsAreGenuine, PartsAreLegible
<1> QED
  BY <1>2, <1>3 DEF I

LEMMA NewestInOrder ==
    ASSUME NEW done, Trail(done), NEW s, Genuine(s, done), Legible(s), NEW n \in Nat
    PROVE  LET t == InTimeOrder(s, Newest(s, n)) IN
           Lists(t, s, Newest(s, n)) /\ Genuine(t, done) /\ Legible(t)
<1> DEFINE t == InTimeOrder(s, Newest(s, n))
<1>1. /\ Len(s) \in Nat /\ Newest(s, n) \subseteq 1..Len(s) /\ Newest(s, n) \subseteq DOMAIN s
      /\ \A i \in Newest(s, n) : s[i].time \in Nat
  BY GenuineRecords DEF Newest
<1>2. Lists(t, s, Newest(s, n))
  BY <1>1, TimeOrderLists
<1> HIDE DEF t
<1>3. Genuine(t, done) /\ Legible(t)
  BY <1>1, <1>2, PartsAreGenuine, PartsAreLegible
<1> QED
  BY <1>2, <1>3 DEF t

LEMMA ReversedLists ==
    ASSUME NEW done, Trail(done), NEW s, Genuine(s, done), Legible(s)
    PROVE  /\ Lists(Reverse(s), s, DOMAIN s)
           /\ Genuine(Reverse(s), done) /\ Legible(Reverse(s))
<1>1. Len(s) \in Nat /\ DOMAIN s = 1..Len(s)
  BY GenuineRecords
<1>2. Lists(Reverse(s), s, DOMAIN s)
  BY <1>1, ReverseLists
<1> QED
  BY <1>2, PartsAreGenuine, PartsAreLegible

LEMMA SurvivorsAreGenuine ==
    ASSUME NEW done, Trail(done), NEW s, Genuine(s, done), Legible(s),
           NEW cutoff \in Nat, NEW n \in Nat
    PROVE  Genuine(Survivors(s, cutoff, n), done) /\ Legible(Survivors(s, cutoff, n))
<1> DEFINE recent == Recent(s, cutoff)
           newest == InTimeOrder(recent, Newest(recent, n))
<1>1. Genuine(recent, done) /\ Legible(recent)
  BY RecentLists
<1>2. Survivors(s, cutoff, n) \in {recent, newest, Reverse(newest)}
  BY DEF Survivors
<1> HIDE DEF recent
<1>3. Genuine(newest, done) /\ Legible(newest)
  BY <1>1, NewestInOrder
<1> HIDE DEF newest
<1>4. Genuine(Reverse(newest), done) /\ Legible(Reverse(newest))
  BY <1>3, ReversedLists
<1> QED
  BY <1>1, <1>2, <1>3, <1>4

(* Of records that are stamped in the order in which they were audited, a  *)
(* part that leaves out none that is newer than one of it.                 *)
LEMMA PartsAreNewer ==
    ASSUME NEW done, Trail(done), Chained(done), NEW s, Genuine(s, done), Legible(s),
           Newer(s, done), NEW I, I \subseteq DOMAIN s,
           \A i \in I, j \in DOMAIN s : s[j].time > s[i].time => j \in I,
           NEW t, Lists(t, s, I)
    PROVE  Newer(t, done)
<1>1. PICK f : Picks(t, s, I, f)
  BY DEF Lists
<1>2. DOMAIN t = 1..Len(t) /\ \A k \in DOMAIN t : f[k] \in I /\ t[k] = s[f[k]]
  BY <1>1 DEF Picks
<1>3. Len(done) \in Nat /\ \A k \in 1..Len(done) : done[k].time = k
  BY DEF Trail, Chained
<1>4. \A k \in DOMAIN s : s[k].id \in 1..Len(done) /\ s[k] = done[s[k].id]
  BY GenuineRecords
<1>5. ASSUME NEW k \in DOMAIN t, NEW m \in t[k].id..Len(done)
      PROVE  \E j \in DOMAIN t : t[j] = done[m]
  <2>1. f[k] \in DOMAIN s /\ t[k] = s[f[k]] /\ t[k].id \in 1..Len(done) /\ t[k] = done[t[k].id]
    BY <1>2, <1>4
  <2>2. CASE m = t[k].id
    BY <2>1, <2>2
  <2>3. CASE m # t[k].id
    <3>1. PICK j \in DOMAIN s : s[j] = done[m]
      BY <2>1 DEF Newer
    <3>2. s[j].time = m /\ s[f[k]].time = t[k].id /\ m > t[k].id
      BY <1>3, <2>1, <2>3, <3>1
    <3>3. j \in I
      BY <1>2, <3>2
    <3>4. PICK x \in 1..Len(t) : f[x] = j
      BY <1>1, <3>3 DEF Picks
    <3> QED
      BY <1>2, <3>1, <3>4
  <2> QED
    BY <2>2, <2>3
<1> QED
  BY <1>5 DEF Newer

LEMMA NewestLeavesNoneOut ==
    ASSUME NEW s, Len(s) \in Nat, DOMAIN s = 1..Len(s), \A k \in DOMAIN s : s[k].time \in Nat,
           NEW n \in Nat, NEW i \in Newest(s, n), NEW j \in DOMAIN s, s[j].time > s[i].time
    PROVE  j \in Newest(s, n)
<1> DEFINE Ahead(x) == {y \in DOMAIN s : s[y].time > s[x].time \/ (s[y].time = s[x].time /\ y < x)}
<1>1. i \in DOMAIN s /\ Cardinality(Ahead(i)) < n
  BY DEF Newest
<1>2. Ahead(j) \subseteq Ahead(i)
  BY <1>1
<1>3. IsFiniteSet(Ahead(i))
  <2>1. IsFiniteSet(1..Len(s))
    BY FS_Interval
  <2> QED
    BY <2>1, FS_Subset
<1>4. Cardinality(Ahead(j)) <= Cardinality(Ahead(i))
  BY <1>2, <1>3, FS_Subset
<1>5. IsFiniteSet(Ahead(j))
  BY <1>2, <1>3, FS_Subset
<1>6. Cardinality(Ahead(j)) \in Nat /\ Cardinality(Ahead(i)) \in Nat
  BY <1>3, <1>5, FS_CardinalityType
<1> HIDE DEF Ahead
<1>7. Cardinality(Ahead(j)) < n
  BY <1>1, <1>4, <1>6
<1> QED
  BY <1>7 DEF Newest, Ahead

LEMMA KeptStaysSorted ==
    ASSUME NEW s, Sorted(s), Len(s) \in Nat, DOMAIN s = 1..Len(s), NEW I, I \subseteq DOMAIN s
    PROVE  Sorted(Kept(s, I))
<1> DEFINE t == Kept(s, I)
<1>1. PICK f \in [1..Len(t) -> I] :
            /\ \A k \in 1..Len(t) : t[k] = s[f[k]]
            /\ \A j, k \in 1..Len(t) : j < k => f[j] < f[k]
  BY KeptLists
<1>2. Lists(t, s, I)
  BY KeptLists
<1>3. DOMAIN t = 1..Len(t)
  BY <1>2 DEF Lists, Picks
<1> HIDE DEF t
<1>4. Sorted(t)
  BY <1>1, <1>3 DEF Sorted
<1> QED
  BY <1>4 DEF t

LEMMA TimeOrderIsSorted ==
    ASSUME NEW done, Trail(done), Chained(done), NEW s, Genuine(s, done), Legible(s),
           NEW I, I \subseteq DOMAIN s
    PROVE  Sorted(InTimeOrder(s, I))
<1> DEFINE t == InTimeOrder(s, I)
<1>1. /\ Len(s) \in Nat /\ I \subseteq 1..Len(s) /\ \A i \in I : s[i].time \in Nat
      /\ \A i \in I : s[i].id \in 1..Len(done) /\ s[i] = done[s[i].id]
  BY GenuineRecords
<1>2. \A i \in I : s[i].time = s[i].id
  BY <1>1 DEF Chained
<1>3. PICK f \in [1..Len(t) -> I] :
            /\ \A k \in 1..Len(t) : t[k] = s[f[k]]
            /\ \A j, k \in 1..Len(t) : j < k => Earlier(s, f[j], f[k])
  BY <1>1, TimeOrderLists
<1>4. Lists(t, s, I)
  BY <1>1, TimeOrderLists
<1>5. DOMAIN t = 1..Len(t)
  BY <1>4 DEF Lists, Picks
<1> HIDE DEF t
<1>6. ASSUME NEW j \in DOMAIN t, NEW k \in DOMAIN t, j < k
      PROVE  t[j].id < t[k].id
  <2>1. f[j] \in I /\ f[k] \in I /\ t[j] = s[f[j]] /\ t[k] = s[f[k]] /\ Earlier(s, f[j], f[k])
    BY <1>3, <1>5, <1>6
  <2>2. s[f[j]].id < s[f[k]].id \/ (s[f[j]].id = s[f[k]].id /\ f[j] < f[k])
    BY <1>2, <2>1 DEF Earlier
  <2>3. CASE s[f[j]].id = s[f[k]].id /\ f[j] < f[k]
    <3>1. s[f[j]] = s[f[k]]
      BY <1>1, <2>1, <2>3
    <3>2. f[j] # f[k] /\ f[j] \in DOMAIN s /\ f[k] \in DOMAIN s /\ s[f[k]] # Unreadable
      BY <1>1, <2>1, <2>3 DEF Legible
    <3> QED
      BY <3>1, <3>2 DEF Genuine
  <2> QED
    BY <2>1, <2>2, <2>3
<1>7. Sorted(t)
  BY <1>6 DEF Sorted
<1> QED
  BY <1>7 DEF t

LEMMA SurvivorsAreTidy ==
    ASSUME NEW done, Trail(done), Chained(done), NEW s, Genuine(s, done),
           Tidy(s, done, setup.kind), NEW cutoff \in Nat, NEW n \in Nat
    PROVE  Tidy(Survivors(s, cutoff, n), done, setup.kind)
<1> DEFINE recent == Recent(s, cutoff)
           I == {i \in DOMAIN s : s[i].time >= cutoff}
           J == Newest(recent, n)
           newest == InTimeOrder(recent, J)
<1>1. Legible(s) /\ Newer(s, done)
  BY DEF Tidy, Legible
<1>2. /\ Len(s) \in Nat /\ DOMAIN s = 1..Len(s) /\ \A k \in DOMAIN s : s[k].time \in Nat
  BY <1>1, GenuineRecords
<1>3. Lists(recent, s, I) /\ Genuine(recent, done) /\ Legible(recent)
  BY <1>1, RecentLists
<1>4. /\ I \subseteq DOMAIN s
      /\ \A i \in I, j \in DOMAIN s : s[j].time > s[i].time => j \in I
  BY <1>2
<1>5. setup.kind = "file" => Sorted(recent)
  <2> SUFFICES ASSUME setup.kind = "file"
               PROVE  Sorted(recent)
    OBVIOUS
  <2>1. Sorted(s) /\ recent = Kept(s, I)
    BY DEF Recent, Tidy
  <2> HIDE DEF I, recent
  <2> QED
    BY <1>2, <1>4, <2>1, KeptStaysSorted
<1>6. \/ Survivors(s, cutoff, n) = recent
      \/ setup.kind = "file" /\ Survivors(s, cutoff, n) = newest
      \/ setup.kind # "file" /\ Survivors(s, cutoff, n) = Reverse(newest)
  BY DEF Survivors
<1> HIDE DEF recent, I
<1>7. Newer(recent, done)
  BY <1>1, <1>3, <1>4, PartsAreNewer
<1>8. /\ Len(recent) \in Nat /\ DOMAIN recent = 1..Len(recent)
      /\ \A k \in DOMAIN recent : recent[k].time \in Nat
  BY <1>3, GenuineRecords
<1>9. Lists(newest, recent, J) /\ Genuine(newest, done) /\ Legible(newest)
  BY <1>3, NewestInOrder
<1>10. J \subseteq DOMAIN recent
  BY DEF Newest
<1>11. \A i \in J, j \in DOMAIN recent : recent[j].time > recent[i].time => j \in J
  BY <1>8, NewestLeavesNoneOut
<1>12. Sorted(newest)
  BY <1>3, <1>10, TimeOrderIsSorted
<1> HIDE DEF newest, J
<1>13. Newer(newest, done)
  BY <1>3, <1>7, <1>9, <1>10, <1>11, PartsAreNewer
<1>14. /\ Lists(Reverse(newest), newest, DOMAIN newest)
       /\ Genuine(Reverse(newest), done) /\ Legible(Reverse(newest))
  BY <1>9, ReversedLists
<1>15. Newer(Reverse(newest), done)
  <2> DEFINE D == DOMAIN newest
  <2>1. D \subseteq DOMAIN newest /\ \A i \in D, j \in DOMAIN newest : newest[j].time > newest[i].time => j \in D
    OBVIOUS
  <2> HIDE DEF D
  <2>2. Lists(Reverse(newest), newest, D)
    BY <1>14 DEF D
  <2> QED
    BY <1>9, <1>13, <2>1, <2>2, PartsAreNewer
<1> QED
  BY <1>3, <1>5, <1>6, <1>7, <1>9, <1>12, <1>13, <1>14, <1>15 DEF Tidy, Legible

-----------------------------------------------------------------------------
(* What is appended.                                                       *)

LEMMA LatestTimeIsPast ==
    ASSUME Trail(audited)
    PROVE  LatestTime \in 0..Len(audited)
<1> DEFINE times == {audited[k].time : k \in DOMAIN audited}
           n == Len(audited)
<1>1. n \in Nat /\ DOMAIN audited = 1..n /\ (audited = <<>> <=> n = 0)
  BY DEF Trail
<1>2. CASE n = 0
  BY <1>1, <1>2 DEF LatestTime
<1>3. CASE n # 0
  <2>1. times # {} /\ \A t \in times : t \in 1..n
    <3>1. \A k \in 1..n : audited[k].time \in 1..k
      BY DEF Trail
    <3> QED
      BY <1>1, <1>3, <3>1
  <2>2. LatestTime = CHOOSE t \in times : \A u \in times : u <= t
    BY <1>1, <1>3 DEF LatestTime
  <2> HIDE DEF times
  <2>3. \E t \in times : \A u \in times : u <= t
    <3> DEFINE T == {n - t : t \in times}
    <3>1. T \subseteq Nat /\ T # {}
      BY <1>1, <2>1
    <3>2. Min(T) \in T /\ \A j \in T : Min(T) <= j
      BY <3>1, LeastExists
    <3>3. PICK t \in times : Min(T) = n - t
      BY <3>2
    <3>4. \A u \in times : n - t <= n - u
      BY <3>2, <3>3
    <3>5. \A u \in times : u <= t
      <4> TAKE u \in times
      <4>1. n - t <= n - u /\ u \in Int /\ t \in Int /\ n \in Int
        BY <1>1, <2>1, <3>4
      <4> QED
        BY <4>1
    <3> QED
      BY <3>5
  <2>4. LatestTime \in times
    BY <2>2, <2>3
  <2> QED
    BY <1>1, <2>1, <2>4
<1> QED
  BY <1>2, <1>3

LEMMA LatestTimeOfChain ==
    ASSUME Trail(audited), Chained(audited)
    PROVE  LatestTime = Len(audited)
<1> DEFINE times == {audited[k].time : k \in DOMAIN audited}
           n == Len(audited)
<1>1. n \in Nat /\ DOMAIN audited = 1..n /\ (audited = <<>> <=> n = 0)
  BY DEF Trail
<1>2. CASE n = 0
  BY <1>1, <1>2 DEF LatestTime
<1>3. CASE n # 0
  <2>1. times = 1..n
    BY <1>1 DEF Chained
  <2>2. LatestTime = CHOOSE t \in times : \A u \in times : u <= t
    BY <1>1, <1>3 DEF LatestTime
  <2> HIDE DEF times
  <2>3. n \in times /\ \A u \in times : u <= n
    BY <1>1, <1>3, <2>1
  <2>4. LatestTime \in times /\ n <= LatestTime
    BY <2>2, <2>3
  <2>5. LatestTime \in 1..n /\ n \in Int
    BY <1>1, <2>1, <2>4
  <2> QED
    BY <2>4, <2>5
<1> QED
  BY <1>2, <1>3

LEMMA NamesMore ==
    ASSUME NEW done, Trail(done), NEW r, NEW n \in 0..Len(done), NEW hash,
           NamesOneOf(hash, done, n)
    PROVE  /\ NamesOneOf(hash, Append(done, r), n)
           /\ NamesOneOf(hash, Append(done, r), Len(done) + 1)
<1>1. \A k \in 1..Len(done) : Append(done, r)[k] = done[k]
  BY DEF Trail
<1>2. Len(done) \in Nat
  BY DEF Trail
<1> QED
  BY <1>1, <1>2 DEF NamesOneOf

LEMMA TrailGrows ==
    ASSUME NEW done, Trail(done), Len(done) < MaxAudited, NEW r \in AuditRecord,
           r.id = Len(done) + 1, r.time \in 1..(Len(done) + 1),
           NamesOneOf(r.prev, done, Len(done))
    PROVE  Trail(Append(done, r))
<1> DEFINE n == Len(done)
           more == Append(done, r)
<1>1. n \in Nat /\ MaxAudited \in Nat
  BY RepositoryAssumption DEF Trail
<1>2. more \in Seq(AuditRecord) /\ Len(more) = n + 1 /\ more[n + 1] = r
      /\ \A k \in 1..n : more[k] = done[k]
  BY DEF Trail
<1>3. ASSUME NEW k \in 1..(n + 1)
      PROVE  more[k].id = k /\ more[k].time \in 1..k /\ NamesOneOf(more[k].prev, more, k - 1)
  <2>1. CASE k = n + 1
    <3>1. n \in 0..Len(done) /\ NamesOneOf(r.prev, more, n)
      BY <1>1, NamesMore
    <3> QED
      BY <1>1, <1>2, <2>1, <3>1
  <2>2. CASE k # n + 1
    <3>1. k \in 1..n /\ k - 1 \in 0..Len(done) /\ more[k] = done[k]
      BY <1>1, <1>2, <2>2
    <3>2. done[k].id = k /\ done[k].time \in 1..k /\ NamesOneOf(done[k].prev, done, k - 1)
      BY <3>1 DEF Trail
    <3>3. NamesOneOf(done[k].prev, more, k - 1)
      BY <3>1, <3>2, NamesMore
    <3> QED
      BY <3>1, <3>2, <3>3
  <2> QED
    BY <2>1, <2>2
<1> HIDE DEF more, n
<1>4. Len(more) <= MaxAudited
  BY <1>1, <1>2 DEF n
<1>5. Trail(more)
  BY <1>2, <1>3, <1>4 DEF Trail
<1> QED
  BY <1>5 DEF more

(* Lines that are genuine stay so when more is audited.                    *)
LEMMA GenuineOfMore ==
    ASSUME NEW done, Trail(done), NEW r, NEW s, Genuine(s, done)
    PROVE  Genuine(s, Append(done, r))
<1>1. Len(done) \in Nat /\ Len(Append(done, r)) = Len(done) + 1
      /\ \A k \in 1..Len(done) : Append(done, r)[k] = done[k]
  BY DEF Trail
<1> QED
  BY <1>1 DEF Genuine

LEMMA RecordAppended ==
    ASSUME NEW done, Trail(done), NEW r \in AuditRecord, r.id = Len(done) + 1,
           NEW s, Genuine(s, done)
    PROVE  Genuine(Appended(s, r), Append(done, r))
<1>1. Len(done) \in Nat /\ Append(done, r)[Len(done) + 1] = r /\ Len(Append(done, r)) = Len(done) + 1
  BY DEF Trail
<1>2. Genuine(s, Append(done, r))
  BY GenuineOfMore
<1>3. CASE Appended(s, r) = s
  BY <1>2, <1>3
<1>4. CASE Appended(s, r) = Append(s, r)
  <2> DEFINE t == Append(s, r)
             n == Len(s)
  <2>1. s \in Seq(Line) /\ n \in Nat /\ DOMAIN s = 1..n
    BY DEF Genuine
  <2>2. t \in Seq(Line) /\ DOMAIN t = 1..(n + 1) /\ t[n + 1] = r /\ \A k \in 1..n : t[k] = s[k]
    BY <2>1 DEF Line
  <2>3. \A k \in 1..n : s[k] # Unreadable => s[k].id # r.id
    BY <1>1, <2>1 DEF Genuine
  <2>4. \A k \in 1..n : s[k] # r
    BY <2>3, LinesDiffer
  <2> HIDE DEF t, n
  <2>5. ASSUME NEW k \in DOMAIN t, t[k] # Unreadable
        PROVE  t[k].id \in 1..Len(Append(done, r)) /\ t[k] = Append(done, r)[t[k].id]
    <3>1. CASE k = n + 1
      BY <1>1, <2>2, <3>1
    <3>2. CASE k # n + 1
      <4>1. k \in DOMAIN s /\ t[k] = s[k]
        BY <2>1, <2>2, <3>2
      <4> QED
        BY <1>2, <2>5, <4>1 DEF Genuine
    <3> QED
      BY <3>1, <3>2
  <2>6. ASSUME NEW j \in DOMAIN t, NEW k \in DOMAIN t, j # k, t[k] # Unreadable
        PROVE  t[j] # t[k]
    <3>1. CASE j = n + 1 \/ k = n + 1
      BY <2>1, <2>2, <2>4, <2>6, <3>1
    <3>2. CASE j # n + 1 /\ k # n + 1
      <4>1. j \in DOMAIN s /\ k \in DOMAIN s /\ t[j] = s[j] /\ t[k] = s[k]
        BY <2>1, <2>2, <3>2
      <4> QED
        BY <2>6, <4>1 DEF Genuine
    <3> QED
      BY <3>1, <3>2
  <2>7. Genuine(t, Append(done, r))
    BY <2>2, <2>5, <2>6 DEF Genuine
  <2> QED
    BY <1>4, <2>7 DEF t
<1> QED
  BY <1>3, <1>4 DEF Appended

(* A line that was cut short.                                              *)
LEMMA FragmentAppended ==
    ASSUME NEW done, NEW s, Genuine(s, done)
    PROVE  Genuine(Appended(s, Unreadable), done)
<1> DEFINE t == Append(s, Unreadable)
           n == Len(s)
<1>1. s \in Seq(Line) /\ n \in Nat /\ DOMAIN s = 1..n
  BY DEF Genuine
<1>2. CASE Appended(s, Unreadable) = s
  BY <1>2
<1>3. CASE Appended(s, Unreadable) = t
  <2>1. t \in Seq(Line) /\ DOMAIN t = 1..(n + 1) /\ t[n + 1] = Unreadable
        /\ \A k \in 1..n : t[k] = s[k]
    BY <1>1 DEF Line
  <2> HIDE DEF t, n
  <2>2. \A k \in DOMAIN t : t[k] # Unreadable => k \in DOMAIN s /\ t[k] = s[k]
    BY <1>1, <2>1
  <2>3. \A j \in DOMAIN t : t[j] = Unreadable \/ (j \in DOMAIN s /\ t[j] = s[j])
    BY <2>2
  <2>4. \A k \in DOMAIN t :
            t[k] # Unreadable => t[k].id \in 1..Len(done) /\ t[k] = done[t[k].id]
    BY <2>2 DEF Genuine
  <2>5. \A j, k \in DOMAIN t : j # k /\ t[k] # Unreadable => t[j] # t[k]
    BY <2>2, <2>3 DEF Genuine
  <2>6. Genuine(t, done)
    BY <2>1, <2>4, <2>5 DEF Genuine
  <2> QED
    BY <1>3, <2>6
<1> QED
  BY <1>2, <1>3 DEF Appended

(* The hash the next record is given.                                      *)
LEMMA ParentIsAudited ==
    ASSUME RepositoryInv, NEW i \in Repository
    PROVE  NamesOneOf(Parent(i), audited, Len(audited))
<1> DEFINE existing == Readable(log)
<1>1. Genuine(existing, audited) /\ Legible(existing)
  BY ReadableIsGenuine DEF RepositoryInv
<1> HIDE DEF existing
<1>2. CASE Parent(i) = lastHash[i]
  BY <1>2 DEF RepositoryInv
<1>3. CASE existing # <<>> /\ existing[Len(existing)].hashed /\ Parent(i) = existing[Len(existing)].id
  <2>1. Len(existing) \in DOMAIN existing
    BY <1>1, <1>3 DEF Genuine
  <2>2. Parent(i) \in 1..Len(audited) /\ audited[Parent(i)].hashed
    BY <1>1, <1>3, <2>1 DEF Genuine, Legible
  <2> QED
    BY <2>2 DEF NamesOneOf
<1> QED
  BY <1>2, <1>3 DEF Parent, existing

-----------------------------------------------------------------------------
LEMMA SetupBounds ==
    ASSUME RepositoryInv
    PROVE  /\ setup.users \subseteq Repository /\ setup.limit \in 1..MaxAudited
           /\ MaxAudited \in Nat /\ Len(audited) \in Nat
BY RepositoryAssumption DEF RepositoryInv, Trail

LEMMA NewRecord ==
    ASSUME RepositoryInv, Len(audited) < setup.limit, NEW time \in Timestamp,
           NEW hashed \in BOOLEAN, NEW prev, NamesOneOf(prev, audited, Len(audited)),
           NEW r, r = [id |-> NewId, time |-> time, hashed |-> hashed, prev |-> prev]
    PROVE  /\ r \in AuditRecord /\ r.id = Len(audited) + 1 /\ r.time \in 1..(Len(audited) + 1)
           /\ NamesOneOf(r.prev, audited, Len(audited))
<1>1. LatestTime \in 0..Len(audited)
  BY LatestTimeIsPast DEF RepositoryInv
<1>2. Len(audited) \in Nat /\ MaxAudited \in Nat /\ Len(audited) + 1 <= MaxAudited
  BY SetupBounds
<1>3. time \in 1..(Len(audited) + 1)
  BY <1>1, <1>2 DEF Timestamp
<1>4. prev \in 0..UnwrittenHash
  BY <1>2 DEF NamesOneOf, NoHash, UnwrittenHash
<1>5. NewId \in 1..MaxAudited /\ time \in 0..MaxAudited
  BY <1>2, <1>3 DEF NewId
<1> QED
  BY <1>2, <1>3, <1>4, <1>5 DEF AuditRecord, NewId

LEMMA WritingKeepsInv ==
    ASSUME RepositoryInv, NEW r \in AuditRecord, Writing(r),
           r.id = Len(audited) + 1, r.time \in 1..(Len(audited) + 1),
           NamesOneOf(r.prev, audited, Len(audited))
    PROVE  /\ Trail(audited') /\ Genuine(log', audited')
           /\ \A i \in Repository : Genuine(pruning[i], audited')
           /\ \A i \in Repository : NamesOneOf(lastHash[i], audited', Len(audited'))
           /\ NamesOneOf(Len(audited) + 1, audited', Len(audited')) \/ ~r.hashed
<1>1. Trail(audited) /\ Len(audited) \in Nat /\ Len(audited) < MaxAudited
  BY SetupBounds DEF RepositoryInv, Writing
<1>2. audited' = Append(audited, r) /\ log' = Appended(log, r)
  BY DEF Writing
<1>3. Len(audited') = Len(audited) + 1 /\ audited'[Len(audited) + 1] = r
  BY <1>1, <1>2 DEF Trail
<1>4. Trail(audited')
  BY <1>1, <1>2, TrailGrows
<1>5. Genuine(log', audited')
  BY <1>1, <1>2, RecordAppended DEF RepositoryInv
<1>6. \A i \in Repository : Genuine(pruning[i], audited')
  BY <1>1, <1>2, GenuineOfMore DEF RepositoryInv
<1>7. \A i \in Repository : NamesOneOf(lastHash[i], audited', Len(audited'))
  <2> TAKE i \in Repository
  <2>1. NamesOneOf(lastHash[i], audited, Len(audited)) /\ Len(audited) \in 0..Len(audited)
    BY <1>1 DEF RepositoryInv
  <2> QED
    BY <1>1, <1>2, <1>3, <2>1, NamesMore
<1>8. r.hashed => NamesOneOf(Len(audited) + 1, audited', Len(audited'))
  BY <1>1, <1>3 DEF NamesOneOf
<1> QED
  BY <1>4, <1>5, <1>6, <1>7, <1>8

LEMMA NotPruningIsGenuine == \A done : Genuine(NotPruning, done)
<1> TAKE done
<1>1. NotPruning \in Seq(Line) /\ Len(NotPruning) = 1 /\ NotPruning[1] = Unreadable
  BY DEF NotPruning, Line
<1> QED
  BY <1>1 DEF Genuine

LEMMA RepositoryStep == RepositoryInv /\ [Next]_vars => RepositoryInv'
<1> SUFFICES ASSUME RepositoryInv, [Next]_vars
             PROVE  RepositoryInv'
  OBVIOUS
<1>1. ASSUME NEW i \in Repository, Store(i)
      PROVE  RepositoryInv'
  <2>1. PICK time \in Timestamp :
            Writing([id |-> NewId, time |-> time, hashed |-> TRUE, prev |-> Parent(i)])
    BY <1>1 DEF Store
  <2> DEFINE r == [id |-> NewId, time |-> time, hashed |-> TRUE, prev |-> Parent(i)]
  <2>2. r.hashed
    OBVIOUS
  <2>3. Len(audited) < setup.limit /\ NamesOneOf(Parent(i), audited, Len(audited))
    BY <2>1, ParentIsAudited DEF Writing
  <2>4. /\ r \in AuditRecord /\ r.id = Len(audited) + 1 /\ r.time \in 1..(Len(audited) + 1)
        /\ NamesOneOf(r.prev, audited, Len(audited))
    BY <2>3, NewRecord
  <2>5. Writing(r)
    BY <2>1
  <2> HIDE DEF r
  <2>6. /\ Trail(audited') /\ Genuine(log', audited')
        /\ \A j \in Repository : Genuine(pruning[j], audited')
        /\ \A j \in Repository : NamesOneOf(lastHash[j], audited', Len(audited'))
        /\ NamesOneOf(NewId, audited', Len(audited'))
    BY <2>2, <2>4, <2>5, WritingKeepsInv DEF NewId
  <2>7. setup' = setup /\ pruning' = pruning /\ lastHash' = [lastHash EXCEPT ![i] = NewId]
    BY <1>1 DEF Store
  <2>8. /\ lastHash' = [j \in Repository |-> lastHash'[j]]
        /\ \A j \in Repository : lastHash'[j] = lastHash[j] \/ lastHash'[j] = NewId
    BY <2>7 DEF RepositoryInv
  <2>9. \A j \in Repository : NamesOneOf(lastHash'[j], audited', Len(audited'))
    BY <2>6, <2>8
  <2> QED
    BY <2>6, <2>7, <2>8, <2>9 DEF RepositoryInv
<1>2. ASSUME NEW i \in Repository, StoreFails(i)
      PROVE  RepositoryInv'
  <2>1. setup' = setup /\ pruning' = pruning /\ audited' = audited
    BY <1>2 DEF StoreFails
  <2>2. Genuine(log', audited)
    BY <1>2, FragmentAppended DEF StoreFails, RepositoryInv
  <2>3. /\ lastHash' = [j \in Repository |-> lastHash'[j]]
        /\ \A j \in Repository : lastHash'[j] = lastHash[j] \/ lastHash'[j] = UnwrittenHash
    BY <1>2 DEF StoreFails, RepositoryInv
  <2>4. \A j \in Repository : NamesOneOf(lastHash'[j], audited, Len(audited))
    BY <2>3 DEF RepositoryInv, NamesOneOf
  <2> QED
    BY <2>1, <2>2, <2>3, <2>4 DEF RepositoryInv
<1>3. ASSUME NEW i \in Repository, ChooseSurvivors(i)
      PROVE  RepositoryInv'
  <2>1. setup' = setup /\ log' = log /\ lastHash' = lastHash /\ audited' = audited
    BY <1>3 DEF ChooseSurvivors
  <2>2. Genuine(Readable(log), audited) /\ Legible(Readable(log))
    BY ReadableIsGenuine DEF RepositoryInv
  <2>3. PICK cutoff \in 0..(LatestTime + 1), n \in 0..setup.limit :
            pruning' = [pruning EXCEPT ![i] = Survivors(Readable(log), cutoff, n)]
    BY <1>3 DEF ChooseSurvivors
  <2>4. cutoff \in Nat /\ n \in Nat
    BY LatestTimeIsPast, SetupBounds DEF RepositoryInv
  <2>5. Genuine(Survivors(Readable(log), cutoff, n), audited)
    BY <2>2, <2>4, SurvivorsAreGenuine DEF RepositoryInv
  <2>6. /\ pruning' = [j \in Repository |-> pruning'[j]]
        /\ \A j \in Repository :
            pruning'[j] = pruning[j] \/ pruning'[j] = Survivors(Readable(log), cutoff, n)
    BY <2>3 DEF RepositoryInv
  <2>7. \A j \in Repository : Genuine(pruning'[j], audited)
    BY <2>5, <2>6 DEF RepositoryInv
  <2> QED
    BY <2>1, <2>6, <2>7 DEF RepositoryInv
<1>4. ASSUME NEW i \in Repository, ReplaceLog(i)
      PROVE  RepositoryInv'
  <2> DEFINE s == pruning[i]
  <2>1. setup' = setup /\ audited' = audited /\ log' = s
    BY <1>4 DEF ReplaceLog
  <2>2. Genuine(s, audited)
    BY DEF RepositoryInv
  <2>3. /\ pruning' = [j \in Repository |-> pruning'[j]]
        /\ \A j \in Repository : pruning'[j] = pruning[j] \/ pruning'[j] = NotPruning
    BY <1>4 DEF ReplaceLog, RepositoryInv
  <2>4. \A j \in Repository : Genuine(pruning'[j], audited)
    BY <2>3, NotPruningIsGenuine DEF RepositoryInv
  <2>5. /\ lastHash' = [j \in Repository |-> lastHash'[j]]
        /\ \A j \in Repository :
            \/ lastHash'[j] = lastHash[j]
            \/ s # <<>> /\ s[Len(s)].hashed /\ lastHash'[j] = s[Len(s)].id
    BY <1>4 DEF ReplaceLog, RepositoryInv
  <2> HIDE DEF s
  <2>6. s # <<>> /\ s[Len(s)].hashed => NamesOneOf(s[Len(s)].id, audited, Len(audited))
    <3> SUFFICES ASSUME s # <<>>, s[Len(s)].hashed
                 PROVE  NamesOneOf(s[Len(s)].id, audited, Len(audited))
      OBVIOUS
    <3>1. Len(s) \in DOMAIN s
      BY <2>2 DEF Genuine
    <3>2. CASE s[Len(s)] = Unreadable
      BY <3>2 DEF Unreadable, NamesOneOf
    <3>3. CASE s[Len(s)] # Unreadable
      BY <2>2, <3>1, <3>3 DEF Genuine, NamesOneOf
    <3> QED
      BY <3>2, <3>3
  <2>7. \A j \in Repository : NamesOneOf(lastHash'[j], audited, Len(audited))
    BY <2>5, <2>6 DEF RepositoryInv
  <2> QED
    BY <2>1, <2>2, <2>3, <2>4, <2>5, <2>7 DEF RepositoryInv
<1>5. ASSUME NEW i \in Repository, Restart(i)
      PROVE  RepositoryInv'
  <2>1. setup' = setup /\ audited' = audited
    BY <1>5 DEF Restart
  <2>2. /\ pruning' = [j \in Repository |-> pruning'[j]]
        /\ \A j \in Repository : pruning'[j] = pruning[j] \/ pruning'[j] = NotPruning
        /\ lastHash' = [j \in Repository |-> lastHash'[j]]
        /\ \A j \in Repository : lastHash'[j] = lastHash[j] \/ lastHash'[j] = NoHash
    BY <1>5 DEF Restart, RepositoryInv
  <2>3. \A j \in Repository : Genuine(pruning'[j], audited)
    BY <2>2, NotPruningIsGenuine DEF RepositoryInv
  <2>4. \A j \in Repository : NamesOneOf(lastHash'[j], audited, Len(audited))
    BY <2>2 DEF RepositoryInv, NamesOneOf
  <2>5. Genuine(log', audited)
    <3>1. Genuine(<<>>, audited)
      BY DEF Genuine
    <3>2. log' \in {log, <<>>, Appended(log, Unreadable)}
      BY <1>5 DEF Restart
    <3> QED
      BY <3>1, <3>2, FragmentAppended DEF RepositoryInv
  <2> QED
    BY <2>1, <2>2, <2>3, <2>4, <2>5 DEF RepositoryInv
<1>6. ASSUME Emit
      PROVE  RepositoryInv'
  <2>1. PICK time \in Timestamp :
            Writing([id |-> NewId, time |-> time, hashed |-> FALSE, prev |-> NoHash])
    BY <1>6 DEF Emit
  <2> DEFINE r == [id |-> NewId, time |-> time, hashed |-> FALSE, prev |-> NoHash]
  <2>2. Len(audited) < setup.limit /\ NamesOneOf(NoHash, audited, Len(audited))
    BY <2>1 DEF Writing, NamesOneOf
  <2>3. /\ r \in AuditRecord /\ r.id = Len(audited) + 1 /\ r.time \in 1..(Len(audited) + 1)
        /\ NamesOneOf(r.prev, audited, Len(audited))
    BY <2>2, NewRecord
  <2>4. Writing(r)
    BY <2>1
  <2> HIDE DEF r
  <2>5. /\ Trail(audited') /\ Genuine(log', audited')
        /\ \A j \in Repository : Genuine(pruning[j], audited')
        /\ \A j \in Repository : NamesOneOf(lastHash[j], audited', Len(audited'))
    BY <2>3, <2>4, WritingKeepsInv
  <2>6. setup' = setup /\ pruning' = pruning /\ lastHash' = lastHash
    BY <1>6 DEF Emit
  <2> QED
    BY <2>5, <2>6 DEF RepositoryInv
<1>7. CASE UNCHANGED vars
  BY <1>7 DEF vars, RepositoryInv
<1>8. setup.users \subseteq Repository
  BY SetupBounds
<1> QED
  BY <1>1, <1>2, <1>3, <1>4, <1>5, <1>6, <1>7, <1>8 DEF Next

LEMMA RepositoryInvHolds == Spec => []RepositoryInv
<1>1. Init => RepositoryInv
  <2> SUFFICES ASSUME Init
               PROVE  RepositoryInv
    OBVIOUS
  <2>1. Trail(<<>>) /\ Genuine(<<>>, <<>>)
    BY RepositoryAssumption DEF Trail, Genuine
  <2> QED
    BY <2>1, NotPruningIsGenuine DEF Init, RepositoryInv, NamesOneOf
<1> QED
  BY <1>1, RepositoryStep, PTL DEF Spec

(* NothingIsForged for any processes, setups and bound: every line that    *)
(* can be parsed is genuine, however appends, crashes and the replacement  *)
(* of the file by what a retention had chosen overlap.                     *)
THEOREM NothingIsForgedHolds == Spec => []NothingIsForged
<1>1. RepositoryInv => NothingIsForged
  <2> SUFFICES ASSUME RepositoryInv, NEW k \in DOMAIN log, log[k] # Unreadable
               PROVE  /\ \E m \in DOMAIN audited : audited[m] = log[k]
                      /\ \A n \in DOMAIN log : n # k => log[n] # log[k]
                      /\ log[k].prev \notin {NoHash, UnwrittenHash} =>
                            \E m \in 1..(log[k].id - 1) :
                                audited[m].id = log[k].prev /\ audited[m].hashed
    BY DEF NothingIsForged
  <2> DEFINE r == log[k]
  <2>1. r.id \in 1..Len(audited) /\ r = audited[r.id]
    BY DEF RepositoryInv, Genuine
  <2>2. \A n \in DOMAIN log : n # k => log[n] # r
    BY DEF RepositoryInv, Genuine
  <2> HIDE DEF r
  <2>3. DOMAIN audited = 1..Len(audited) /\ Len(audited) \in Nat
    BY DEF RepositoryInv, Trail
  <2>4. NamesOneOf(r.prev, audited, r.id - 1)
    BY <2>1 DEF RepositoryInv, Trail
  <2>5. ASSUME r.prev \notin {NoHash, UnwrittenHash}
        PROVE  \E m \in 1..(r.id - 1) : audited[m].id = r.prev /\ audited[m].hashed
    <3>1. r.prev \in 1..(r.id - 1) /\ audited[r.prev].hashed
      BY <2>4, <2>5 DEF NamesOneOf
    <3>2. audited[r.prev].id = r.prev
      BY <2>1, <2>3, <3>1 DEF RepositoryInv, Trail
    <3> QED
      BY <3>1, <3>2
  <2> QED
    BY <2>1, <2>2, <2>3, <2>5 DEF r
<1> QED
  BY <1>1, RepositoryInvHolds, PTL

-----------------------------------------------------------------------------
(* An orderly repository.                                                  *)

LEMMA LastIsNewest ==
    ASSUME NEW done, Trail(done), NEW s, Genuine(s, done), Tidy(s, done, "file"), s # <<>>
    PROVE  s[Len(s)].id = Len(done)
<1>1. /\ Len(s) \in Nat /\ Len(s) \in DOMAIN s /\ DOMAIN s = 1..Len(s) /\ Len(done) \in Nat
  BY DEF Genuine, Trail
<1>2. Legible(s) /\ Newer(s, done) /\ Sorted(s)
  BY DEF Tidy, Legible
<1>3. s[Len(s)].id \in 1..Len(done)
  BY <1>1, <1>2, GenuineRecords
<1>4. PICK j \in DOMAIN s : s[j] = done[Len(done)]
  BY <1>1, <1>2, <1>3 DEF Newer
<1>5. s[j].id = Len(done)
  BY <1>1, <1>3, <1>4 DEF Trail
<1>6. CASE j < Len(s)
  <2>1. s[j].id < s[Len(s)].id
    BY <1>1, <1>2, <1>6 DEF Sorted
  <2> QED
    BY <1>1, <1>3, <1>5, <2>1
<1> QED
  BY <1>1, <1>5, <1>6

LEMMA TidyGrows ==
    ASSUME NEW done, Trail(done), NEW s, Genuine(s, done), NEW kind, Tidy(s, done, kind),
           NEW r \in AuditRecord, r.id = Len(done) + 1
    PROVE  Tidy(Appended(s, r), Append(done, r), kind)
<1> DEFINE t == Append(s, r)
           n == Len(s)
           more == Append(done, r)
<1>1. /\ s \in Seq(Line) /\ n \in Nat /\ DOMAIN s = 1..n /\ Len(done) \in Nat
      /\ Legible(s) /\ Newer(s, done)
  BY DEF Genuine, Trail, Tidy, Legible
<1>2. s = <<>> \/ s[Len(s)] # Unreadable
  BY <1>1 DEF Legible
<1>3. Appended(s, r) = t
  BY <1>2 DEF Appended
<1>4. DOMAIN t = 1..(n + 1) /\ t[n + 1] = r /\ \A k \in 1..n : t[k] = s[k]
  BY <1>1
<1>5. /\ Len(more) = Len(done) + 1 /\ more[Len(done) + 1] = r
      /\ \A m \in 1..Len(done) : more[m] = done[m]
  BY DEF Trail
<1>6. \A k \in DOMAIN s : s[k].id \in 1..Len(done)
  BY <1>1, GenuineRecords
<1> HIDE DEF t, n, more
<1>7. \A k \in DOMAIN t : t[k] # Unreadable
  <2> TAKE k \in DOMAIN t
  <2>1. CASE k = n + 1
    BY <1>4, <2>1, LinesDiffer
  <2>2. CASE k # n + 1
    <3>1. k \in DOMAIN s /\ t[k] = s[k]
      BY <1>1, <1>4, <2>2
    <3> QED
      BY <1>1, <3>1 DEF Legible
  <2> QED
    BY <2>1, <2>2
<1>8. Newer(t, more)
  <2> SUFFICES ASSUME NEW k \in DOMAIN t, NEW m \in t[k].id..Len(more)
               PROVE  \E j \in DOMAIN t : t[j] = more[m]
    BY DEF Newer
  <2>1. CASE m = Len(done) + 1
    <3>1. n + 1 \in DOMAIN t /\ t[n + 1] = more[m]
      BY <1>1, <1>4, <1>5, <2>1
    <3> QED
      BY <3>1
  <2>2. CASE m # Len(done) + 1
    <3>1. k # n + 1
      BY <1>1, <1>4, <1>5, <2>2
    <3>2. k \in DOMAIN s /\ t[k] = s[k]
      BY <1>1, <1>4, <3>1
    <3>3. m \in s[k].id..Len(done) /\ m \in 1..Len(done)
      BY <1>1, <1>5, <1>6, <2>2, <3>2
    <3>4. PICK j \in DOMAIN s : s[j] = done[m]
      BY <1>1, <3>2, <3>3 DEF Newer
    <3>5. j \in DOMAIN t /\ t[j] = more[m]
      BY <1>1, <1>4, <1>5, <3>3, <3>4
    <3> QED
      BY <3>5
  <2> QED
    BY <2>1, <2>2
<1>9. kind = "file" => Sorted(t)
  <2> SUFFICES ASSUME kind = "file", NEW j \in DOMAIN t, NEW k \in DOMAIN t, j < k
               PROVE  t[j].id < t[k].id
    BY DEF Sorted
  <2>1. j \in 1..n /\ j \in DOMAIN s /\ t[j] = s[j] /\ s[j].id \in 1..Len(done)
    BY <1>1, <1>4, <1>6
  <2>2. CASE k = n + 1
    BY <1>1, <1>4, <2>1, <2>2
  <2>3. CASE k # n + 1
    <3>1. k \in DOMAIN s /\ t[k] = s[k] /\ Sorted(s)
      BY <1>1, <1>4, <2>3 DEF Tidy
    <3> QED
      BY <2>1, <3>1 DEF Sorted
  <2> QED
    BY <2>2, <2>3
<1>10. Tidy(t, more, kind)
  BY <1>7, <1>8, <1>9 DEF Tidy
<1> QED
  BY <1>3, <1>10 DEF more

LEMMA ChainGrows ==
    ASSUME NEW done, Trail(done), Chained(done), NEW r, r.time = Len(done) + 1, r.hashed,
           r.prev \in {NoHash, Len(done)}
    PROVE  Chained(Append(done, r))
<1> DEFINE more == Append(done, r)
<1>1. /\ Len(done) \in Nat /\ Len(more) = Len(done) + 1 /\ more[Len(done) + 1] = r
      /\ \A m \in 1..Len(done) : more[m] = done[m]
  BY DEF Trail
<1> HIDE DEF more
<1>2. \A k \in 1..Len(more) : more[k].time = k /\ more[k].hashed /\ more[k].prev \in {NoHash, k - 1}
  <2> TAKE k \in 1..Len(more)
  <2>1. CASE k = Len(done) + 1
    BY <1>1, <2>1
  <2>2. CASE k # Len(done) + 1
    <3>1. k \in 1..Len(done) /\ more[k] = done[k]
      BY <1>1, <2>2
    <3> QED
      BY <3>1 DEF Chained
  <2> QED
    BY <2>1, <2>2
<1>3. Chained(more)
  BY <1>2 DEF Chained
<1> QED
  BY <1>3 DEF more

LEMMA NothingIsTidy == \A done, kind : Tidy(<<>>, done, kind)
BY DEF Tidy, Newer, Sorted

LEMMA OrderlyStep ==
    ASSUME RepositoryInv, OrderlyInv, [Next]_vars
    PROVE  OrderlyInv'
<1>1. setup' = setup
  BY DEF Next, vars, Store, StoreFails, ChooseSurvivors, ReplaceLog, Restart, Emit
<1> SUFFICES ASSUME Orderly
             PROVE  /\ Chained(audited')
                    /\ Tidy(log', audited', setup.kind)
                    /\ \A i \in setup.users :
                        /\ lastHash'[i] \in {NoHash, Len(audited')}
                        /\ pruning'[i] # NotPruning => Tidy(pruning'[i], audited', setup.kind)
  BY <1>1 DEF OrderlyInv, Orderly
<1>2. PICK u \in Repository : setup.users = {u}
  <2>1. IsFiniteSet(setup.users)
    BY SetupBounds, RepositoryAssumption, FS_Subset
  <2>2. \E x : setup.users = {x}
    BY <2>1, FS_Singleton DEF Orderly
  <2> QED
    BY <2>2, SetupBounds
<1>3. /\ Chained(audited) /\ Tidy(log, audited, setup.kind)
      /\ lastHash[u] \in {NoHash, Len(audited)}
      /\ pruning[u] # NotPruning => Tidy(pruning[u], audited, setup.kind)
  BY <1>2 DEF OrderlyInv
<1>4. /\ Trail(audited) /\ Genuine(log, audited) /\ Genuine(pruning[u], audited)
      /\ lastHash = [i \in Repository |-> lastHash[i]]
      /\ pruning = [i \in Repository |-> pruning[i]]
  BY DEF RepositoryInv
<1>5. Legible(log) /\ Readable(log) = log
  <2>1. Legible(log) /\ log \in Seq(Line)
    BY <1>3, <1>4 DEF Tidy, Legible, Genuine
  <2> QED
    BY <2>1, ReadableIsPrefix
<1>6. SUFFICES /\ Chained(audited')
               /\ Tidy(log', audited', setup.kind)
               /\ lastHash'[u] \in {NoHash, Len(audited')}
               /\ pruning'[u] # NotPruning => Tidy(pruning'[u], audited', setup.kind)
  BY <1>2
<1>7. CASE Store(u)
  <2>1. PICK time \in Timestamp :
            Writing([id |-> NewId, time |-> time, hashed |-> TRUE, prev |-> Parent(u)])
    BY <1>7 DEF Store
  <2> DEFINE r == [id |-> NewId, time |-> time, hashed |-> TRUE, prev |-> Parent(u)]
  <2>2. time = Len(audited) + 1
    BY <1>3, <1>4, LatestTimeOfChain DEF Timestamp, Orderly
  <2>3. Parent(u) \in {NoHash, Len(audited)}
    <3>1. CASE Parent(u) = lastHash[u]
      BY <1>3, <3>1
    <3>2. CASE setup.kind = "file" /\ log # <<>> /\ Parent(u) = log[Len(log)].id
      BY <1>3, <1>4, <3>2, LastIsNewest
    <3> QED
      BY <1>5, <3>1, <3>2 DEF Parent
  <2>4. Len(audited) < setup.limit /\ NamesOneOf(Parent(u), audited, Len(audited))
    BY <2>1, ParentIsAudited DEF Writing
  <2>5. /\ r \in AuditRecord /\ r.id = Len(audited) + 1 /\ r.time \in 1..(Len(audited) + 1)
        /\ NamesOneOf(r.prev, audited, Len(audited))
    BY <2>4, NewRecord
  <2>6. r.time = Len(audited) + 1 /\ r.hashed /\ r.prev \in {NoHash, Len(audited)}
    BY <2>2, <2>3
  <2>7. audited' = Append(audited, r) /\ log' = Appended(log, r)
    BY <2>1 DEF Writing
  <2> HIDE DEF r
  <2>8. Chained(audited')
    BY <1>3, <1>4, <2>6, <2>7, ChainGrows
  <2>9. Tidy(log', audited', setup.kind)
    BY <1>3, <1>4, <2>5, <2>7, TidyGrows
  <2>10. lastHash'[u] = Len(audited')
    BY <1>4, <1>7, <2>7 DEF Store, NewId, Trail
  <2>11. pruning'[u] = NotPruning
    BY <1>7 DEF Store
  <2> QED
    BY <2>8, <2>9, <2>10, <2>11
<1>8. CASE ChooseSurvivors(u)
  <2>1. log' = log /\ lastHash' = lastHash /\ audited' = audited
    BY <1>8 DEF ChooseSurvivors
  <2>2. PICK cutoff \in 0..(LatestTime + 1), n \in 0..setup.limit :
            pruning' = [pruning EXCEPT ![u] = Survivors(log, cutoff, n)]
    BY <1>5, <1>8 DEF ChooseSurvivors
  <2>3. cutoff \in Nat /\ n \in Nat
    BY <1>4, LatestTimeIsPast, SetupBounds
  <2>4. Tidy(Survivors(log, cutoff, n), audited, setup.kind)
    BY <1>3, <1>4, <2>3, SurvivorsAreTidy
  <2>5. pruning'[u] = Survivors(log, cutoff, n)
    BY <1>4, <2>2
  <2> QED
    BY <1>3, <2>1, <2>4, <2>5
<1>9. CASE ReplaceLog(u)
  <2> DEFINE s == pruning[u]
  <2>1. /\ audited' = audited /\ log' = s /\ Tidy(s, audited, setup.kind)
        /\ pruning'[u] = NotPruning
    BY <1>3, <1>4, <1>9 DEF ReplaceLog
  <2>2. \/ lastHash'[u] = lastHash[u]
        \/ setup.kind = "file" /\ s # <<>> /\ lastHash'[u] = s[Len(s)].id
    BY <1>4, <1>9 DEF ReplaceLog
  <2>3. Genuine(s, audited)
    BY <1>4
  <2> HIDE DEF s
  <2>4. setup.kind = "file" /\ s # <<>> => s[Len(s)].id = Len(audited)
    BY <1>4, <2>1, <2>3, LastIsNewest
  <2> QED
    BY <1>3, <2>1, <2>2, <2>4
<1>10. CASE Restart(u)
  <2>1. audited' = audited /\ lastHash'[u] = NoHash /\ pruning'[u] = NotPruning
    BY <1>4, <1>10 DEF Restart
  <2>2. log' \in {log, <<>>}
    BY <1>10 DEF Restart, Orderly
  <2> QED
    BY <1>3, <2>1, <2>2, NothingIsTidy
<1>11. CASE UNCHANGED vars
  BY <1>3, <1>11 DEF vars
<1>12. ~StoreFails(u) /\ "sink" \notin setup.via
  BY DEF StoreFails, Orderly
<1> QED
  BY <1>2, <1>7, <1>8, <1>9, <1>10, <1>11, <1>12 DEF Next

LEMMA OrderlyInvHolds == Spec => []OrderlyInv
<1>1. Init => OrderlyInv
  <2> SUFFICES ASSUME Init
               PROVE  OrderlyInv
    OBVIOUS
  <2>1. /\ log = <<>> /\ audited = <<>>
        /\ \A i \in Repository : lastHash[i] = NoHash /\ pruning[i] = NotPruning
    BY DEF Init
  <2>2. Chained(audited) /\ Tidy(log, audited, setup.kind)
    BY <2>1, NothingIsTidy DEF Chained
  <2>3. setup.users \subseteq Repository
    BY RepositoryAssumption DEF Init
  <2> QED
    BY <2>1, <2>2, <2>3 DEF OrderlyInv
<1> QED
  BY <1>1, OrderlyStep, RepositoryInvHolds, PTL DEF Spec

(* OldestGoFirst for every repository object, limit and cutoff: retention  *)
(* of one repository by age and by volume leaves an end of what it has     *)
(* been given, in a file and in memory.                                    *)
THEOREM OldestGoFirstHolds == Spec => []OldestGoFirst
<1>1. RepositoryInv /\ OrderlyInv => OldestGoFirst
  <2> SUFFICES ASSUME RepositoryInv, OrderlyInv, Orderly,
                      NEW k \in DOMAIN audited, NEW m \in DOMAIN audited,
                      k < m, audited[k] \in InLog
               PROVE  audited[m] \in InLog
    BY DEF OldestGoFirst
  <2>1. /\ Trail(audited) /\ Newer(log, audited) /\ DOMAIN audited = 1..Len(audited)
        /\ Len(audited) \in Nat
    BY DEF RepositoryInv, OrderlyInv, Trail, Tidy
  <2>2. PICK j \in DOMAIN log : audited[k] = log[j]
    BY DEF InLog
  <2>3. log[j].id = k /\ m \in k..Len(audited)
    BY <2>1, <2>2 DEF Trail
  <2>4. \E x \in DOMAIN log : log[x] = audited[m]
    BY <2>1, <2>3 DEF Newer
  <2> QED
    BY <2>4 DEF InLog
<1> QED
  BY <1>1, RepositoryInvHolds, OrderlyInvHolds, PTL

(* In a sorted part of a chain that leaves out none that is newer, each    *)
(* record names the one before it, or none.                                *)
LEMMA SortedVerifies ==
    ASSUME NEW done, Trail(done), Chained(done), NEW s, Genuine(s, done), Legible(s),
           Newer(s, done), Sorted(s), NEW k \in 2..Len(s)
    PROVE  s[k].prev \in {NoHash, s[k - 1].id}
<1> DEFINE a == s[k - 1].id
           b == s[k].id
<1>1. Len(s) \in Nat /\ DOMAIN s = 1..Len(s) /\ k \in DOMAIN s /\ k - 1 \in DOMAIN s
  BY GenuineRecords
<1>2. a \in 1..Len(done) /\ b \in 1..Len(done) /\ s[k] = done[b] /\ a < b
  BY <1>1, GenuineRecords DEF Sorted
<1>3. s[k].prev \in {NoHash, b - 1}
  <2>1. \A n \in 1..Len(done) : done[n].prev \in {NoHash, n - 1}
    BY DEF Chained
  <2> HIDE DEF b
  <2> QED
    BY <1>2, <2>1
<1>4. PICK j \in DOMAIN s : s[j] = done[b - 1]
  <2>1. b - 1 \in a..Len(done)
    BY <1>2
  <2> QED
    BY <1>1, <2>1 DEF Newer
<1>5. s[j].id = b - 1
  BY <1>2, <1>4 DEF Trail
<1>6. ASSUME j < k - 1
      PROVE  FALSE
  <2>1. s[j].id < a
    BY <1>1, <1>6 DEF Sorted
  <2> QED
    BY <1>2, <1>5, <2>1
<1>7. ASSUME j >= k
      PROVE  FALSE
  <2>1. j = k \/ b < s[j].id
    BY <1>1, <1>7 DEF Sorted
  <2> QED
    BY <1>2, <1>5, <2>1
<1>8. j = k - 1
  BY <1>1, <1>6, <1>7
<1> QED
  BY <1>3, <1>5, <1>8

(* IntegrityHolds for every repository object, limit and cutoff: after any *)
(* stores, retentions and restarts of one repository its log verifies.     *)
THEOREM IntegrityHoldsAlways == Spec => []IntegrityHolds
<1>1. RepositoryInv /\ OrderlyInv => IntegrityHolds
  <2> SUFFICES ASSUME RepositoryInv, OrderlyInv, Orderly
               PROVE  Verified(log)
    BY DEF IntegrityHolds
  <2> DEFINE listed == IF setup.kind = "file" THEN log ELSE InTimeOrder(log, DOMAIN log)
             H == {i \in DOMAIN listed : listed[i].hashed}
             chain == Hashed(listed)
  <2>1. /\ Trail(audited) /\ Chained(audited) /\ Genuine(log, audited)
        /\ Legible(log) /\ Newer(log, audited) /\ (setup.kind = "file" => Sorted(log))
    BY DEF RepositoryInv, OrderlyInv, Tidy, Legible
  <2>2. /\ Len(log) \in Nat /\ DOMAIN log = 1..Len(log)
        /\ \A k \in DOMAIN log : log[k].time \in Nat
    BY <2>1, GenuineRecords
  <2>3. /\ Genuine(listed, audited) /\ Legible(listed) /\ Newer(listed, audited) /\ Sorted(listed)
    <3>1. CASE setup.kind = "file"
      BY <2>1, <3>1
    <3>2. CASE setup.kind # "file"
      <4> DEFINE D == DOMAIN log
                 t == InTimeOrder(log, D)
      <4>1. D \subseteq DOMAIN log /\ D \subseteq 1..Len(log) /\ \A i \in D : log[i].time \in Nat
        BY <2>2
      <4>2. \A i \in D, j \in DOMAIN log : log[j].time > log[i].time => j \in D
        OBVIOUS
      <4> HIDE DEF D
      <4>3. Lists(t, log, D)
        BY <2>2, <4>1, TimeOrderLists
      <4>4. Sorted(t)
        BY <2>1, <4>1, TimeOrderIsSorted
      <4> HIDE DEF t
      <4>5. Genuine(t, audited) /\ Legible(t) /\ Newer(t, audited)
        BY <2>1, <4>1, <4>2, <4>3, PartsAreGenuine, PartsAreLegible, PartsAreNewer
      <4> QED
        BY <3>2, <4>4, <4>5 DEF t, D
    <3> QED
      BY <3>1, <3>2
  <2> HIDE DEF listed
  <2>4. /\ Len(listed) \in Nat /\ DOMAIN listed = 1..Len(listed)
        /\ \A i \in DOMAIN listed : listed[i].hashed
    <3>1. \A k \in DOMAIN listed : listed[k].id \in 1..Len(audited) /\ listed[k] = audited[listed[k].id]
      BY <2>1, <2>3, GenuineRecords
    <3> QED
      BY <2>1, <2>3, <3>1, GenuineRecords DEF Chained
  <2>5. H = DOMAIN listed
    BY <2>4
  <2>6. chain = Kept(listed, H)
    BY DEF Hashed
  <2> HIDE DEF H, chain
  <2>7. Lists(chain, listed, H) /\ Sorted(chain)
    BY <2>3, <2>4, <2>5, <2>6, KeptLists, KeptStaysSorted
  <2>8. \A i \in H, j \in DOMAIN listed : listed[j].time > listed[i].time => j \in H
    BY <2>5
  <2>9. Genuine(chain, audited) /\ Legible(chain) /\ Newer(chain, audited)
    BY <2>1, <2>3, <2>5, <2>7, <2>8, PartsAreGenuine, PartsAreLegible, PartsAreNewer
  <2>10. \A k \in 2..Len(chain) : chain[k].prev \in {NoHash, chain[k - 1].id}
    BY <2>1, <2>7, <2>9, SortedVerifies
  <2>11. \A i \in DOMAIN log : log[i] # Unreadable
    BY <2>1 DEF Legible
  <2> QED
    BY <2>10, <2>11 DEF Verified, chain, listed
<1> QED
  BY <1>1, RepositoryInvHolds, OrderlyInvHolds, PTL

-----------------------------------------------------------------------------
(* The audit service and its sinks.                                        *)

Clean(record) == (record.summary \cup record.details \cup record.metadata) \cap Secrets = {}

(* What has been redacted holds nothing that the redactor recognises, and  *)
(* stays as it is when it is redacted again.                               *)
LEMMA RedactedOnce ==
    ASSUME NEW values
    PROVE  Redact(values) \cap Secrets = {} /\ Redact(Redact(values)) = Redact(values)
BY DEF Redact, Secrets

(* The sinks sanitize again what emit_record has redacted: to no effect.   *)
LEMMA SanitizedOnce ==
    ASSUME NEW entry
    PROVE  /\ Clean(Emitted(entry)) /\ Emitted(entry).entry = entry
           /\ Sanitize(Emitted(entry)) = Emitted(entry)
<1> DEFINE payload == PayloadOf[entry]
           record == Emitted(entry)
<1>1. /\ record.summary = Redact(payload.summary)
      /\ record.details = Redact(payload.details)
      /\ record.metadata = Redact(payload.metadata)
      /\ record.entry = entry
  BY DEF Emitted
<1>2. Clean(record)
  <2>1. record.summary \cap Secrets = {}
    BY <1>1, RedactedOnce
  <2>2. record.details \cap Secrets = {}
    BY <1>1, RedactedOnce
  <2>3. record.metadata \cap Secrets = {}
    BY <1>1, RedactedOnce
  <2>4. QED
    BY <2>1, <2>2, <2>3 DEF Clean
<1>3. ~Modified(record)
  <2>1. Redact(record.summary) = record.summary
    BY <1>1, RedactedOnce
  <2>2. Redact(record.details) = record.details
    BY <1>1, RedactedOnce
  <2>3. Redact(record.metadata) = record.metadata
    BY <1>1, RedactedOnce
  <2> HIDE DEF record
  <2>4. QED
    BY <2>1, <2>2, <2>3 DEF Modified
<1>4. Sanitize(record) = record
  BY <1>3 DEF Sanitize
<1>5. QED
  BY <1>1, <1>2, <1>4

(* The sink of service s at position i has been given the record of the    *)
(* entry, or raised.                                                       *)
Reached(given, raised, entry, s, i) ==
    \/ <<entry, s.sinks[i]>> \in raised
    \/ \E r \in given[s][s.sinks[i]] : r.entry = entry

(* What a thread in a log_ method holds.                                   *)
IsLogging(l) ==
    /\ l = [at |-> l.at, entry |-> l.entry, service |-> l.service, record |-> l.record,
            next |-> l.next]
    /\ l.service \in Setup /\ l.next \in Nat /\ l.next >= 1
    /\ l.record = Emitted(l.entry)

SinkInv ==
    /\ service \in Setup
    /\ logging = [t \in Logger |-> logging[t]]
    /\ stored = [s \in Setup |-> stored[s]]
    /\ delivered = [s \in Setup |-> [k \in SinkKind |-> delivered[s][k]]]
    /\ \A t \in Logger : logging[t].at # "idle" =>
        /\ IsLogging(logging[t])
        /\ \A i \in DOMAIN logging[t].service.sinks : i < logging[t].next =>
                Reached(delivered, failures, logging[t].entry, logging[t].service, i)
    /\ \A l \in logged :
        /\ l.service \in Setup
        /\ \A i \in DOMAIN l.service.sinks : Reached(delivered, failures, l.entry, l.service, i)
    /\ \A s \in Setup : \A r \in stored[s] : Clean(r)
    /\ \A s \in Setup : \A k \in SinkKind : \A r \in delivered[s][k] : Clean(r)

LEMMA SinksOfSetup ==
    ASSUME NEW s \in Setup
    PROVE  s.sinks \in Seq(SinkKind)
BY SinkAssumption DEF SinkKind

(* The sink a thread faces is one of its service's.                        *)
LEMMA FacesASink ==
    ASSUME SinkInv, NEW t \in Logger, HasSink(t)
    PROVE  /\ IsLogging(logging[t]) /\ Facing(t) \in SinkKind
           /\ logging[t].next \in DOMAIN logging[t].service.sinks
           /\ logging[t].at = "broadcast"
<1>1. logging[t].at = "broadcast" /\ IsLogging(logging[t])
  BY DEF HasSink, SinkInv
<1>2. logging[t].next \in 1..Len(logging[t].service.sinks)
  BY <1>1, SinksOfSetup DEF HasSink, IsLogging
<1>3. QED
  BY <1>1, <1>2, SinksOfSetup DEF Facing, IsLogging

(* A step in which a thread passes the sink it faces, by giving it its     *)
(* record or because it raised, preserves the invariant.                   *)
LEMMA SinkPassed ==
    ASSUME SinkInv, NEW t \in Logger, HasSink(t),
           UNCHANGED <<service, stored, logged>>,
           \/ logging' = [logging EXCEPT ![t].next = @ + 1]
           \/ logging' = [logging EXCEPT ![t].at = "flushing"],
           failures \subseteq failures',
           delivered' = [s \in Setup |-> [k \in SinkKind |-> delivered'[s][k]]],
           \A s \in Setup : \A k \in SinkKind :
                /\ delivered[s][k] \subseteq delivered'[s][k]
                /\ \A r \in delivered'[s][k] : Clean(r),
           Reached(delivered', failures', logging[t].entry, logging[t].service, logging[t].next)
    PROVE  SinkInv'
<1>1. ASSUME NEW entry, NEW s \in Setup, NEW i \in DOMAIN s.sinks,
             Reached(delivered, failures, entry, s, i)
      PROVE  Reached(delivered', failures', entry, s, i)
  <2>1. s.sinks[i] \in SinkKind
    BY SinksOfSetup
  <2>2. QED
    BY <1>1, <2>1 DEF Reached
<1>2. IsLogging(logging[t]) /\ logging[t].at = "broadcast"
  BY FacesASink
<1>3. ASSUME NEW u \in Logger, u # t PROVE logging'[u] = logging[u]
  BY <1>3 DEF SinkInv
<1>4. /\ logging'[t].entry = logging[t].entry /\ logging'[t].service = logging[t].service
      /\ logging'[t].next \in {logging[t].next, logging[t].next + 1}
      /\ IsLogging(logging'[t])
  <2>1. CASE logging' = [logging EXCEPT ![t].next = @ + 1]
    <3>1. logging'[t] = [logging[t] EXCEPT !.next = @ + 1]
      BY <2>1 DEF SinkInv
    <3>2. QED
      BY <1>2, <3>1 DEF IsLogging
  <2>2. CASE logging' = [logging EXCEPT ![t].at = "flushing"]
    <3>1. logging'[t] = [logging[t] EXCEPT !.at = "flushing"]
      BY <2>2 DEF SinkInv
    <3>2. QED
      BY <1>2, <3>1 DEF IsLogging
  <2>3. QED
    BY <2>1, <2>2
<1>5. ASSUME NEW u \in Logger, logging'[u].at # "idle",
             NEW i \in DOMAIN logging'[u].service.sinks, i < logging'[u].next
      PROVE  Reached(delivered', failures', logging'[u].entry, logging'[u].service, i)
  <2>1. CASE u = t
    <3>1. logging[t].service \in Setup /\ logging[t].next \in Nat
      BY <1>2 DEF IsLogging
    <3>2. i \in Nat
      BY <1>4, <2>1, <3>1, SinksOfSetup
    <3>3. CASE i = logging[t].next
      BY <1>4, <2>1, <3>3
    <3>4. CASE i < logging[t].next
      <4>1. Reached(delivered, failures, logging[t].entry, logging[t].service, i)
        BY <1>2, <1>4, <2>1, <3>4 DEF SinkInv
      <4>2. QED
        BY <1>1, <1>4, <2>1, <3>1, <4>1
    <3>5. i = logging[t].next \/ i < logging[t].next
      <4>1. i < logging'[t].next
        BY <1>5, <2>1
      <4>2. logging'[t].next = logging[t].next \/ logging'[t].next = logging[t].next + 1
        BY <1>4
      <4>3. \A n, j \in Nat : j < n + 1 => j = n \/ j < n
        OBVIOUS
      <4>4. i < logging[t].next \/ i < logging[t].next + 1
        BY <4>1, <4>2
      <4>5. QED
        BY <3>1, <3>2, <4>3, <4>4
    <3>6. QED
      BY <2>1, <3>3, <3>4, <3>5
  <2>2. CASE u # t
    <3>1. logging[u].service \in Setup
      BY <1>3, <1>5, <2>2 DEF SinkInv, IsLogging
    <3>2. Reached(delivered, failures, logging[u].entry, logging[u].service, i)
      BY <1>3, <1>5, <2>2 DEF SinkInv
    <3>3. QED
      BY <1>1, <1>3, <2>2, <3>1, <3>2
  <2>3. QED
    BY <2>1, <2>2
<1>6. ASSUME NEW u \in Logger, logging'[u].at # "idle" PROVE IsLogging(logging'[u])
  BY <1>3, <1>4, <1>6 DEF SinkInv
<1>7. ASSUME NEW l \in logged, NEW i \in DOMAIN l.service.sinks
      PROVE  Reached(delivered', failures', l.entry, l.service, i)
  BY <1>1 DEF SinkInv
<1>8. logging' = [u \in Logger |-> logging'[u]]
  BY DEF SinkInv
<1>9. QED
  BY <1>5, <1>6, <1>7, <1>8 DEF SinkInv

(* Delivers gives the sink that the thread faces its record and leaves     *)
(* what the sinks had.                                                     *)
LEMMA DeliveryReaches ==
    ASSUME SinkInv, NEW t \in Logger, HasSink(t), Delivers(t, Facing(t))
    PROVE  /\ delivered' = [s \in Setup |-> [k \in SinkKind |-> delivered'[s][k]]]
           /\ \A s \in Setup : \A k \in SinkKind :
                /\ delivered[s][k] \subseteq delivered'[s][k]
                /\ \A r \in delivered'[s][k] : Clean(r)
           /\ \A raised : Reached(delivered', raised, logging[t].entry, logging[t].service,
                                  logging[t].next)
<1> DEFINE record == Emitted(logging[t].entry)
           here == logging[t].service
           kind == Facing(t)
<1>1. IsLogging(logging[t]) /\ kind \in SinkKind /\ here \in Setup
  BY FacesASink DEF IsLogging
<1>2. Sanitize(logging[t].record) = record /\ Clean(record) /\ record.entry = logging[t].entry
  BY <1>1, SanitizedOnce DEF IsLogging
<1>3. kind = here.sinks[logging[t].next]
  BY DEF Facing
<1>4. delivered' = [delivered EXCEPT ![here][kind] = @ \cup {record}]
  BY <1>2 DEF Delivers
<1> HIDE DEF record, here, kind
<1>5. \A s \in Setup : \A k \in SinkKind :
        delivered'[s][k] = delivered[s][k] \cup (IF s = here /\ k = kind THEN {record} ELSE {})
  BY <1>1, <1>4 DEF SinkInv
<1>6. delivered' = [s \in Setup |-> [k \in SinkKind |-> delivered'[s][k]]]
  BY <1>1, <1>4 DEF SinkInv
<1>7. \A s \in Setup : \A k \in SinkKind : \A r \in delivered'[s][k] : Clean(r)
  BY <1>2, <1>5 DEF SinkInv
<1>8. record \in delivered'[here][kind]
  BY <1>1, <1>5
<1>9. ASSUME NEW raised
      PROVE  Reached(delivered', raised, logging[t].entry, here, logging[t].next)
  BY <1>2, <1>3, <1>8 DEF Reached
<1>10. QED
  BY <1>5, <1>6, <1>7, <1>9 DEF here

(* DeliveredRedacted for any entries, services and threads, whatever their *)
(* interleaving and whenever the default service is replaced: a call that  *)
(* has returned has reached every sink that did not raise, and no sink and *)
(* no repository holds what the redactor recognises.                       *)
THEOREM DeliveredRedactedHolds == SinkSpec => []DeliveredRedacted
<1>1. SinkInit => SinkInv
  BY DEF SinkInit, SinkInv, NotLogging
<1>2. SinkInv /\ [SinkNext]_sinkVars => SinkInv'
  <2> SUFFICES ASSUME SinkInv, [SinkNext]_sinkVars PROVE SinkInv'
    OBVIOUS
  <2>1. ASSUME NEW t \in Logger, NEW entry \in Entry, Log(t, entry) PROVE SinkInv'
    <3> DEFINE l == [at |-> "broadcast", entry |-> entry, service |-> service,
                     record |-> Sanitize(Emitted(entry)), next |-> 1]
    <3>1. logging'[t] = l /\ logging' = [u \in Logger |-> logging'[u]]
      BY <2>1 DEF Log, SinkInv
    <3>2. IsLogging(l) /\ l.service \in Setup /\ l.next = 1
      BY SanitizedOnce DEF IsLogging, SinkInv
    <3> HIDE DEF l
    <3>3. ASSUME NEW u \in Logger, u # t PROVE logging'[u] = logging[u]
      BY <2>1, <3>3 DEF Log, SinkInv
    <3>4. \A i \in DOMAIN l.service.sinks : ~(i < 1)
      BY <3>2, SinksOfSetup
    <3>5. ASSUME NEW u \in Logger, logging'[u].at # "idle"
          PROVE  /\ IsLogging(logging'[u])
                 /\ \A i \in DOMAIN logging'[u].service.sinks : i < logging'[u].next =>
                        Reached(delivered, failures, logging'[u].entry, logging'[u].service, i)
      BY <3>1, <3>2, <3>3, <3>4, <3>5 DEF SinkInv
    <3>6. UNCHANGED <<service, delivered, stored, failures, logged>>
      BY <2>1 DEF Log
    <3>7. QED
      BY <3>1, <3>5, <3>6 DEF SinkInv
  <2>2. ASSUME NEW t \in Logger, EmitTo(t) PROVE SinkInv'
    BY <2>2, SinkPassed, DeliveryReaches DEF EmitTo, Proceeds
  <2>3. ASSUME NEW t \in Logger, EmitToPostgres(t) PROVE SinkInv'
    <3>1. HasSink(t) /\ Delivers(t, Facing(t)) /\ UNCHANGED <<service, stored, logged, failures>>
      BY <2>3 DEF EmitToPostgres
    <3>2. \/ logging' = [logging EXCEPT ![t].next = @ + 1]
          \/ logging' = [logging EXCEPT ![t].at = "flushing"]
      BY <2>3 DEF EmitToPostgres, Proceeds
    <3>3. QED
      BY <3>1, <3>2, SinkPassed, DeliveryReaches
  <2>4. ASSUME NEW t \in Logger, SinkRaises(t) PROVE SinkInv'
    <3>1. <<logging[t].entry, Facing(t)>> \in failures'
      BY <2>4 DEF SinkRaises
    <3>2. Reached(delivered', failures', logging[t].entry, logging[t].service, logging[t].next)
      BY <3>1 DEF Reached, Facing
    <3>3. HasSink(t) /\ UNCHANGED <<service, stored, logged, delivered>>
            /\ failures \subseteq failures' /\ logging' = [logging EXCEPT ![t].next = @ + 1]
      BY <2>4 DEF SinkRaises, Proceeds
    <3>4. \A s \in Setup : \A k \in SinkKind :
                /\ delivered[s][k] \subseteq delivered'[s][k]
                /\ \A r \in delivered'[s][k] : Clean(r)
      BY <3>3 DEF SinkInv
    <3>5. delivered' = [s \in Setup |-> [k \in SinkKind |-> delivered'[s][k]]]
      BY <3>3 DEF SinkInv
    <3>6. QED
      BY <3>2, <3>3, <3>4, <3>5, SinkPassed
  <2>5. ASSUME NEW t \in Logger, StoreRecord(t) PROVE SinkInv'
    <3> DEFINE here == logging[t].service
               entry == logging[t].entry
    <3>1. IsLogging(logging[t]) /\ here \in Setup /\ logging[t].at = "broadcast" /\ ~HasSink(t)
      BY <2>5 DEF StoreRecord, SinkInv, IsLogging
    <3>2. ASSUME NEW i \in DOMAIN here.sinks PROVE Reached(delivered, failures, entry, here, i)
      <4>1. i \in Nat /\ i <= Len(here.sinks) /\ logging[t].next > Len(here.sinks)
        BY <3>1, SinksOfSetup DEF HasSink, IsLogging
      <4>2. i < logging[t].next
        BY <3>1, <4>1, SinksOfSetup DEF IsLogging
      <4>3. QED
        BY <3>1, <4>2 DEF SinkInv
    <3>3. Clean(logging[t].record)
      BY <3>1, SanitizedOnce DEF IsLogging
    <3>4. ASSUME NEW s \in Setup, NEW r \in stored'[s] PROVE Clean(r)
      <4>1. CASE r \in stored[s]
        BY <4>1 DEF SinkInv
      <4>2. CASE r \notin stored[s]
        <5>1. stored' = [stored EXCEPT ![here] = @ \cup {logging[t].record}]
          BY <2>5, <3>4, <4>2 DEF StoreRecord
        <5>2. r = logging[t].record
          BY <3>1, <3>4, <4>2, <5>1 DEF SinkInv
        <5>3. QED
          BY <3>3, <5>2
      <4>3. QED
        BY <4>1, <4>2
    <3>5. stored' = [s \in Setup |-> stored'[s]]
      BY <2>5 DEF StoreRecord, SinkInv
    <3>6. ASSUME NEW l \in logged'
          PROVE  /\ l.service \in Setup
                 /\ \A i \in DOMAIN l.service.sinks :
                        Reached(delivered, failures, l.entry, l.service, i)
      <4>1. CASE l \in logged
        BY <4>1 DEF SinkInv
      <4>2. CASE l = [entry |-> entry, service |-> here]
        BY <3>1, <3>2, <4>2
      <4>3. QED
        BY <2>5, <3>6, <4>1, <4>2 DEF StoreRecord
    <3>7. logging'[t].at = "idle" /\ logging' = [u \in Logger |-> logging'[u]]
      BY <2>5 DEF StoreRecord, NotLogging, SinkInv
    <3>8. ASSUME NEW u \in Logger, u # t PROVE logging'[u] = logging[u]
      BY <2>5, <3>8 DEF StoreRecord, SinkInv
    <3>9. ASSUME NEW u \in Logger, logging'[u].at # "idle" PROVE logging'[u] = logging[u]
      BY <3>7, <3>8, <3>9
    <3>10. UNCHANGED <<service, delivered, failures>>
      BY <2>5 DEF StoreRecord
    <3>11. QED
      BY <3>4, <3>5, <3>6, <3>7, <3>9, <3>10 DEF SinkInv
  <2>6. ASSUME NEW s \in Setup, Flush(s) \/ SetDefault(s) PROVE SinkInv'
    BY <2>6 DEF Flush, SetDefault, SinkInv
  <2>7. ASSUME UNCHANGED sinkVars PROVE SinkInv'
    BY <2>7 DEF SinkInv, sinkVars
  <2>8. QED
    BY <2>1, <2>2, <2>3, <2>4, <2>5, <2>6, <2>7 DEF SinkNext, LoggerStep
<1>3. SinkInv => DeliveredRedacted
  <2> SUFFICES ASSUME SinkInv PROVE DeliveredRedacted
    OBVIOUS
  <2>1. ASSUME NEW l \in logged, NEW i \in DOMAIN l.service.sinks
        PROVE  \/ <<l.entry, l.service.sinks[i]>> \in failures
               \/ \E r \in delivered[l.service][l.service.sinks[i]] : r.entry = l.entry
    BY DEF SinkInv, Reached
  <2>2. ASSUME NEW s \in Setup, NEW r \in stored[s] \cup UNION {delivered[s][k] : k \in SinkKind}
        PROVE  Clean(r)
    BY DEF SinkInv
  <2>3. QED
    BY <2>1, <2>2 DEF DeliveredRedacted, Clean
<1>4. QED
  BY <1>1, <1>2, <1>3, PTL DEF SinkSpec

-----------------------------------------------------------------------------
(* Chains of audit records.                                                *)

(* Every chain is a sequence, whatever its entries are ...                 *)
IsSequence(s) == s \in Seq(ToSet(s))

(* ... and verifies.                                                       *)
ChainVerifies(s) ==
    \A i \in DOMAIN s :
        /\ s[i].prev_hash = IF i = 1 THEN Genesis ELSE s[i - 1].hash
        /\ s[i].hash = Digest(s[i].content, s[i].prev_hash)

ChainInv ==
    /\ DOMAIN chains = AuditTenant \X AuditStage
    /\ \A p \in AuditTenant \X AuditStage : IsSequence(chains[p]) /\ ChainVerifies(chains[p])

(* Every entry is in the chain of its tenant and environment, and there    *)
(* are as many as were recorded.                                           *)
ShelfInv ==
    /\ \A x \in Positions :
            /\ x[1] \in AuditTenant \X AuditStage
            /\ EntryAt(x).content.tenant = x[1][1] /\ EntryAt(x).content.environment = x[1][2]
    /\ IsFiniteSet(Positions) /\ Cardinality(Positions) = recorded

LEMMA AppendIsSequence ==
    ASSUME NEW s, IsSequence(s), NEW e
    PROVE  /\ IsSequence(Append(s, e))
           /\ Len(s) \in Nat /\ DOMAIN s = 1..Len(s)
           /\ DOMAIN Append(s, e) = 1..Len(s) + 1
           /\ \A i \in DOMAIN s : Append(s, e)[i] = s[i]
           /\ Append(s, e)[Len(s) + 1] = e
<1> DEFINE S == ToSet(s) \cup {e}
           t == Append(s, e)
<1>1. s \in Seq(ToSet(s))
  BY DEF IsSequence
<1>2. Len(s) \in Nat /\ DOMAIN s = 1..Len(s)
  BY <1>1
<1>3. s \in Seq(S) /\ e \in S
  <2>1. \A i \in 1..Len(s) : s[i] \in S
    BY <1>1, <1>2
  <2>2. QED
    BY <1>1, <1>2, <2>1
<1> HIDE DEF S
<1>4. t \in Seq(S) /\ Len(t) = Len(s) + 1
  BY <1>3
<1>5. DOMAIN t = 1..Len(s) + 1 /\ t[Len(s) + 1] = e /\ \A i \in DOMAIN s : t[i] = s[i]
  BY <1>2, <1>3, <1>4
<1>6. \A i \in 1..Len(t) : t[i] \in ToSet(t)
  BY <1>4 DEF ToSet
<1>7. t \in Seq(ToSet(t))
  BY <1>4, <1>6
<1>8. QED
  BY <1>2, <1>5, <1>7 DEF IsSequence

(* An entry made from the last one of a chain that verifies, or from       *)
(* GENESIS_HASH, leaves a chain that verifies.                             *)
LEMMA RecordKeepsChain ==
    ASSUME NEW p \in AuditTenant \X AuditStage, IsSequence(chains[p]), ChainVerifies(chains[p]),
           NEW content, NEW e,
           e = [content |-> content, prev_hash |-> PreviousHash(p),
                hash |-> Digest(content, PreviousHash(p))]
    PROVE  IsSequence(Append(chains[p], e)) /\ ChainVerifies(Append(chains[p], e))
<1> DEFINE s == chains[p]
           t == Append(s, e)
           n == Len(s)
<1>1. /\ IsSequence(t) /\ n \in Nat /\ DOMAIN s = 1..n /\ DOMAIN t = 1..n + 1
      /\ \A i \in DOMAIN s : t[i] = s[i]
      /\ t[n + 1] = e
  BY AppendIsSequence
<1>2. /\ e.prev_hash = PreviousHash(p)
      /\ e.hash = Digest(e.content, e.prev_hash)
  OBVIOUS
<1>3. PreviousHash(p) = IF n + 1 = 1 THEN Genesis ELSE t[n].hash
  <2>1. CASE n = 0
    <3>1. s = <<>>
      BY <2>1 DEF IsSequence
    <3>2. QED
      BY <2>1, <3>1 DEF PreviousHash
  <2>2. CASE n # 0
    <3>1. s # <<>> /\ t[n] = s[n]
      BY <2>2, <1>1
    <3>2. QED
      BY <2>2, <1>1, <3>1 DEF PreviousHash, Last
  <2>3. QED
    BY <2>1, <2>2
<1> HIDE DEF s, t, n
<1>4. ASSUME NEW i \in DOMAIN t
      PROVE  /\ t[i].prev_hash = IF i = 1 THEN Genesis ELSE t[i - 1].hash
             /\ t[i].hash = Digest(t[i].content, t[i].prev_hash)
  <2>1. CASE i = n + 1
    BY <2>1, <1>1, <1>2, <1>3
  <2>2. CASE i \in 1..n
    <3>1. t[i] = s[i] /\ (i # 1 => t[i - 1] = s[i - 1])
      BY <2>2, <1>1
    <3>2. QED
      BY <2>2, <3>1, <1>1 DEF ChainVerifies, s
  <2>3. QED
    BY <1>1, <2>1, <2>2
<1>5. QED
  BY <1>1, <1>4 DEF ChainVerifies, s, t

(* What the positions are, without the sets they come from.                *)
LEMMA PositionsAre ==
    ASSUME NEW p, NEW i
    PROVE  <<p, i>> \in Positions <=> p \in DOMAIN chains /\ i \in DOMAIN chains[p]
BY DEF Positions

(* A record is one more position, of its content.                          *)
LEMMA RecordIsShelved ==
    ASSUME ChainInv, ShelfInv, NEW p \in DOMAIN chains, NEW happening \in Happening,
           RecordEntry(p, happening)
    PROVE  ShelfInv'
<1> DEFINE content == ContentOf(p[1], p[2], happening)
           e == [content |-> content, prev_hash |-> PreviousHash(p),
                 hash |-> Digest(content, PreviousHash(p))]
<1>0. PICK x : x = <<p, Len(chains[p]) + 1>>
  OBVIOUS
<1>1. p \in AuditTenant \X AuditStage /\ IsSequence(chains[p])
  BY DEF ChainInv
<1>2. chains' = [chains EXCEPT ![p] = Append(chains[p], e)] /\ recorded' = recorded + 1
  BY DEF RecordEntry
<1>3. e.content.tenant = p[1] /\ e.content.environment = p[2]
  BY DEF ContentOf
<1> HIDE DEF content, e
<1>4. /\ Len(chains[p]) \in Nat /\ DOMAIN chains[p] = 1..Len(chains[p])
      /\ DOMAIN Append(chains[p], e) = 1..Len(chains[p]) + 1
      /\ \A i \in DOMAIN chains[p] : Append(chains[p], e)[i] = chains[p][i]
      /\ Append(chains[p], e)[Len(chains[p]) + 1] = e
  BY <1>1, AppendIsSequence
<1>5. /\ DOMAIN chains' = DOMAIN chains
      /\ chains'[p] = Append(chains[p], e)
      /\ \A q \in DOMAIN chains \ {p} : chains'[q] = chains[q]
  BY <1>2
<1>6. ASSUME NEW q, NEW i
      PROVE  <<q, i>> \in Positions' <=> <<q, i>> \in Positions \/ <<q, i>> = x
  <2>1. <<q, i>> \in Positions' <=> q \in DOMAIN chains' /\ i \in DOMAIN chains'[q]
    BY DEF Positions
  <2>2. CASE q = p
    <3>1. i \in 1..Len(chains[p]) + 1 <=> i \in 1..Len(chains[p]) \/ i = Len(chains[p]) + 1
      BY <1>4
    <3> QED
      BY <1>0, <1>4, <1>5, <2>1, <2>2, <3>1, PositionsAre
  <2>3. CASE q # p
    BY <1>0, <1>5, <2>1, <2>3, PositionsAre
  <2> QED
    BY <2>2, <2>3
<1>7. x \notin Positions
  BY <1>0, <1>4, PositionsAre
<1>8. Positions' = Positions \cup {x}
  <2>1. \A y \in Positions : \E q, i : y = <<q, i>>
    BY DEF Positions
  <2>2. \A y \in Positions' : \E q, i : y = <<q, i>>
    BY DEF Positions
  <2> QED
    BY <1>0, <1>6, <2>1, <2>2
<1>9. EntryAt(x)' = e
  BY <1>0, <1>4, <1>5 DEF EntryAt
<1>10. ASSUME NEW y \in Positions
       PROVE  EntryAt(y)' = EntryAt(y)
  <2>1. PICK q, i : y = <<q, i>> /\ q \in DOMAIN chains /\ i \in DOMAIN chains[q]
    BY DEF Positions
  <2> QED
    BY <1>4, <1>5, <2>1 DEF EntryAt
<1>11. ASSUME NEW y \in Positions'
       PROVE  /\ y[1] \in AuditTenant \X AuditStage
              /\ EntryAt(y)'.content.tenant = y[1][1]
              /\ EntryAt(y)'.content.environment = y[1][2]
  <2>1. CASE y = x
    BY <1>0, <1>1, <1>3, <1>9, <2>1
  <2>2. CASE y \in Positions
    BY <1>10, <2>2 DEF ShelfInv
  <2> QED
    BY <1>8, <2>1, <2>2
<1>12. IsFiniteSet(Positions') /\ Cardinality(Positions') = recorded'
  BY <1>2, <1>7, <1>8, FS_AddElement DEF ShelfInv
<1> QED
  BY <1>11, <1>12 DEF ShelfInv

(* A query without filters, with a limit that all there is does not        *)
(* exceed, answers with every entry of the environments it asks for.       *)
LEMMA QueriesShowAll ==
    ASSUME ChainInv, ShelfInv, NEW tenant, NEW stages
    PROVE  QueryRecords(tenant, stages, "any", "any", recorded) =
                {EntryAt(x) : x \in {y \in Positions : y[1][1] = tenant /\ y[1][2] \in stages}}
<1> DEFINE found == {x \in Positions :
                /\ x[1][1] = tenant /\ x[1][2] \in stages
                /\ "any" \in {EntryAt(x).content.happening.session, "any"}
                /\ "any" \in {EntryAt(x).content.happening.actor, "any"}}
           earlier(x) == {y \in found : Sooner(y, x)}
<1>1. found = {y \in Positions : y[1][1] = tenant /\ y[1][2] \in stages}
  OBVIOUS
<1>2. ASSUME NEW x \in found
      PROVE  Cardinality(earlier(x)) < recorded
  <2>1. x \in Positions /\ x[1][2] \in AuditStage
    BY DEF ShelfInv
  <2>2. ~Sooner(x, x)
    <3>1. StageOrder[x[1][2]] \in Nat
      BY <2>1, ChainAssumption
    <3>2. PICK p, i : x = <<p, i>> /\ p \in DOMAIN chains /\ i \in DOMAIN chains[p]
      BY <2>1 DEF Positions
    <3>3. ~(x[2] > x[2])
      <4>1. i \in 1..Len(chains[p]) /\ Len(chains[p]) \in Nat
        BY <3>2 DEF ChainInv, IsSequence
      <4> QED
        BY <3>2, <4>1
    <3> QED
      BY <3>1, <3>3 DEF Sooner
  <2>3. earlier(x) \in SUBSET Positions /\ earlier(x) # Positions
    BY <2>1, <2>2
  <2>4. IsFiniteSet(Positions) /\ Cardinality(Positions) = recorded
    BY DEF ShelfInv
  <2> HIDE DEF earlier
  <2>5. /\ IsFiniteSet(earlier(x)) /\ Cardinality(earlier(x)) <= Cardinality(Positions)
        /\ Cardinality(earlier(x)) # Cardinality(Positions)
    BY <2>3, <2>4, FS_Subset
  <2>6. Cardinality(earlier(x)) \in Nat /\ Cardinality(Positions) \in Nat
    BY <2>4, <2>5, FS_CardinalityType
  <2> QED
    BY <2>4, <2>5, <2>6
<1>3. QueryRecords(tenant, stages, "any", "any", recorded) =
        {EntryAt(x) : x \in {y \in found : earlier(y) = {} \/ Cardinality(earlier(y)) < recorded}}
  BY DEF QueryRecords
<1>4. {y \in found : earlier(y) = {} \/ Cardinality(earlier(y)) < recorded} = found
  <2> HIDE DEF earlier, found
  <2> QED
    BY <1>2
<1> HIDE DEF earlier, found
<1> QED
  BY <1>1, <1>3, <1>4

(* What an auditor may see of all there is, and what the queries show.     *)
LEMMA QueriesIsolate ==
    ASSUME ChainInv, ShelfInv, NEW tenant, NEW stages
    PROVE  {entry.content : entry \in QueryRecords(tenant, stages, "any", "any", recorded)} =
                {c \in AllContents : c.tenant = tenant /\ c.environment \in stages}
<1>1. \A x \in Positions :
        /\ EntryAt(x).content.tenant = x[1][1] /\ EntryAt(x).content.environment = x[1][2]
  BY DEF ShelfInv
<1> QED
  BY <1>1, QueriesShowAll DEF AllContents

LEMMA AuditorsSee ==
    ASSUME NEW tenant, NEW e
    PROVE  FilterByContext(Auditor(tenant, e), AllContents) =
                {c \in AllContents : c.tenant = tenant /\ c.environment \in {e}}
<1>1. /\ "super_admin" \notin Auditor(tenant, e).roles
      /\ Auditor(tenant, e).tenant = tenant /\ Auditor(tenant, e).environment = e
  BY DEF Auditor
<1> QED
  BY <1>1 DEF FilterByContext, EnforceEnvironment

LEMMA AuditorsMayAccess ==
    ASSUME ShelfInv, NEW tenant
    PROVE  {c \in AllContents : EnforceAccess(Auditor(tenant, "any"), c.tenant)} =
                {c \in AllContents : c.tenant = tenant /\ c.environment \in AuditStage}
<1>1. \A c \in AllContents : c.environment \in AuditStage
  BY DEF AllContents, ShelfInv
<1>2. /\ "super_admin" \notin Auditor(tenant, "any").roles
      /\ Auditor(tenant, "any").tenant = tenant
  BY DEF Auditor
<1> QED
  BY <1>1, <1>2 DEF EnforceAccess

(* However the records of tenants and environments interleave, every chain *)
(* verifies - verify_chain answers True - for any tenants, environments    *)
(* and entries, and the queries show an auditor the records of the tenant  *)
(* that isolation leaves of all there are, and no other.                   *)
THEOREM ChainsVerifyHolds == ChainSpec => []ChainsVerify
<1>1. ChainInit => ChainInv
  <2>1. <<>> \in Seq(ToSet(<<>>))
    OBVIOUS
  <2>2. QED
    BY <2>1 DEF ChainInit, ChainInv, IsSequence, ChainVerifies
<1>2. ChainInv /\ [ChainNext]_chainVars => ChainInv'
  <2>1. ASSUME ChainInv, NEW p \in DOMAIN chains, NEW happening \in Happening,
               RecordEntry(p, happening)
        PROVE  ChainInv'
    <3> DEFINE content == ContentOf(p[1], p[2], happening)
               e == [content |-> content, prev_hash |-> PreviousHash(p),
                     hash |-> Digest(content, PreviousHash(p))]
    <3>1. p \in AuditTenant \X AuditStage
      BY <2>1 DEF ChainInv
    <3>2. chains' = [chains EXCEPT ![p] = Append(chains[p], e)]
      BY <2>1 DEF RecordEntry
    <3> HIDE DEF content
    <3>3. IsSequence(Append(chains[p], e)) /\ ChainVerifies(Append(chains[p], e))
      BY <2>1, <3>1, RecordKeepsChain DEF ChainInv
    <3> HIDE DEF e
    <3>4. \A q \in AuditTenant \X AuditStage :
            chains'[q] = IF q = p THEN Append(chains[p], e) ELSE chains[q]
      BY <2>1, <3>2 DEF ChainInv
    <3>5. DOMAIN chains' = AuditTenant \X AuditStage
      BY <2>1, <3>2 DEF ChainInv
    <3>6. \A q \in AuditTenant \X AuditStage :
            IsSequence(chains'[q]) /\ ChainVerifies(chains'[q])
      BY <2>1, <3>3, <3>4 DEF ChainInv
    <3>7. QED
      BY <3>5, <3>6 DEF ChainInv, IsSequence, ChainVerifies
  <2>2. ASSUME ChainInv, UNCHANGED chainVars
        PROVE  ChainInv'
    BY <2>2 DEF ChainInv, chainVars, ChainVerifies
  <2>3. QED
    BY <2>1, <2>2 DEF ChainNext
<1>3. ChainInit => ShelfInv
  <2> SUFFICES ASSUME ChainInit
               PROVE  ShelfInv
    OBVIOUS
  <2>1. Positions = {}
    BY DEF ChainInit, Positions
  <2>2. recorded = 0
    BY DEF ChainInit
  <2> QED
    BY <2>1, <2>2, FS_EmptySet DEF ShelfInv
<1>4. ChainInv /\ ShelfInv /\ [ChainNext]_chainVars => ShelfInv'
  <2> SUFFICES ASSUME ChainInv, ShelfInv, [ChainNext]_chainVars
               PROVE  ShelfInv'
    OBVIOUS
  <2>1. CASE UNCHANGED chainVars
    BY <2>1 DEF chainVars, ShelfInv, Positions, EntryAt
  <2>2. CASE ChainNext
    BY <2>2, RecordIsShelved DEF ChainNext
  <2> QED
    BY <2>1, <2>2
<1>5. ChainInv /\ ShelfInv => ChainsVerify
  <2> SUFFICES ASSUME ChainInv, ShelfInv, NEW tenant \in AuditTenant
               PROVE  /\ \A e \in AuditStage :
                            /\ VerifyChain(<<tenant, e>>)
                            /\ {entry.content : entry \in
                                    QueryRecords(tenant, {e}, "any", "any", recorded)}
                                = FilterByContext(Auditor(tenant, e), AllContents)
                      /\ {entry.content : entry \in
                                    QueryRecords(tenant, AuditStage, "any", "any", recorded)}
                            = {c \in AllContents :
                                    EnforceAccess(Auditor(tenant, "any"), c.tenant)}
    BY DEF ChainsVerify
  <2>1. ASSUME NEW e \in AuditStage
        PROVE  VerifyChain(<<tenant, e>>)
    BY DEF ChainInv, ChainVerifies, VerifyChain
  <2>2. ASSUME NEW e \in AuditStage
        PROVE  {entry.content : entry \in QueryRecords(tenant, {e}, "any", "any", recorded)}
                    = FilterByContext(Auditor(tenant, e), AllContents)
    <3> DEFINE kept == {c \in AllContents : c.tenant = tenant /\ c.environment \in {e}}
    <3>1. {entry.content : entry \in QueryRecords(tenant, {e}, "any", "any", recorded)} = kept
      <4>1. PICK stages : stages = {e}
        OBVIOUS
      <4>2. {entry.content : entry \in QueryRecords(tenant, stages, "any", "any", recorded)} =
                {c \in AllContents : c.tenant = tenant /\ c.environment \in stages}
        BY QueriesIsolate
      <4> QED
        BY <4>1, <4>2
    <3>2. FilterByContext(Auditor(tenant, e), AllContents) = kept
      BY AuditorsSee
    <3> HIDE DEF kept
    <3> QED
      BY <3>1, <3>2
  <2>3. {entry.content : entry \in QueryRecords(tenant, AuditStage, "any", "any", recorded)}
            = {c \in AllContents : EnforceAccess(Auditor(tenant, "any"), c.tenant)}
    <3> DEFINE kept == {c \in AllContents : c.tenant = tenant /\ c.environment \in AuditStage}
    <3>1. {entry.content : entry \in QueryRecords(tenant, AuditStage, "any", "any", recorded)} = kept
      BY QueriesIsolate
    <3>2. {c \in AllContents : EnforceAccess(Auditor(tenant, "any"), c.tenant)} = kept
      BY AuditorsMayAccess
    <3> HIDE DEF kept
    <3> QED
      BY <3>1, <3>2
  <2> QED
    BY <2>1, <2>2, <2>3
<1> QED
  BY <1>1, <1>2, <1>3, <1>4, <1>5, PTL DEF ChainSpec
=============================================================================
