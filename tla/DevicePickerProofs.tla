--------------------------- MODULE DevicePickerProofs ---------------------------
(***************************************************************************)
(* The list of devices, its threads and the windows over it, for any TVs,  *)
(* addresses and probes: the list never holds a TV twice while every TV    *)
(* keeps its address, nothing is left running once Stop has returned, and  *)
(* the windows end up with the engine's list and a selection that can be   *)
(* cast to.                                                                *)
(***************************************************************************)
EXTENDS DevicePicker, SequenceTheorems, FiniteSetTheorems, WellFoundedInduction, TLAPS

\* The premise of UniqueEntries: every TV keeps the address it has to itself, and
\* names itself by no id of another one.
OwnNames(tv) == {tv} \cup Reports[tv]
KeepsAddress ==
  \A tv, other \in TVs :
    /\ \A a \in Leases[tv], b \in Leases[other] : tv = other <=> a = b
    /\ tv # other => OwnNames(tv) \cap OwnNames(other) \subseteq {Unnamed}

NetworkType ==
  /\ where \in [TVs -> Addresses \cup {None}]
  /\ inbox \subseteq [id : TVs, ip : Addresses]

ThreadType ==
  /\ scanEnabled \in BOOLEAN /\ running \in BOOLEAN
  /\ app \in {"idle", "starting", "stopping", "added", "removed"}
  /\ loop \in {"off", "top", "receive", "record"}
  /\ force \in BOOLEAN /\ socket \in BOOLEAN
  /\ heard \in TVs \cup {None} /\ (loop = "record" => heard # None)
  /\ probe \in [Probers -> Prober]

ListType ==
  /\ devices \in Seq(Entry) /\ mdnsIds \subseteq Ids
  /\ copy \in [Actors -> Seq(Shown) \cup {None}]

\* What runs after Stop has returned, and who can have something to announce.
LoopCopy == loop \in {"off", "top"} => copy[LoopThread] = None
TaskCopy ==
  \A p \in Probers : probe[p].pc # "wait" =>
    \A a \in Addresses : probe[p].task[a] = "none" /\ copy[<<p, a>>] = None
Stands == (app = "stopping" => ~running) /\ (app = "starting" => running)
Joined ==
  app = "starting" \/ (~running /\ app # "stopping") =>
    loop = "off" /\ \A p \in Probers : p = "subnet" => probe[p].pc = "off"

ThreadInv == NetworkType /\ ThreadType /\ ListType /\ LoopCopy /\ TaskCopy /\ Stands /\ Joined

\* An entry is that of a typed or probed address, or of a TV at an address it
\* may have; so is everything that will become one.
Belongs(id, ip) == id = ip \/ \E tv \in TVs : id \in OwnNames(tv) /\ ip \in Leases[tv]
Placed ==
  /\ \A tv \in TVs : where[tv] # None => where[tv] \in Leases[tv]
  /\ \A packet \in inbox : Belongs(packet.id, packet.ip)
  /\ \A i \in DOMAIN devices : Belongs(devices[i].id, devices[i].ip)

ListInv == ThreadInv /\ Placed /\ UniqueEntries

\* The windows' own state.
WindowType ==
  /\ <<frontEnd, scanEnabled>> \in Profiles
  /\ posts \in Seq(Nat) /\ Len(posts) <= MaxPosts
  /\ selected \in Ids \cup {None} /\ row \in Ids \cup {None}
  /\ saved \in Item \cup {None} /\ adding \in Ids \cup {None}
  /\ manual \subseteq Addresses /\ IsFiniteSet(manual)
  /\ cached \in Seq(Shown) /\ calling \subseteq Actors
  /\ shownList \in Seq(IF frontEnd = "gtk" THEN Shown ELSE Item)
  /\ reading \in [count : Nat, next : Nat, incoming : Seq(Item)]
  /\ reading.next <= reading.count + 1
AddsAddress == app = "added" => adding \in Addresses

\* A change of the list that the GTK window does not show is on its way to it.
GtkShows == Gtk /\ (\A t \in Actors : copy[t] = None) /\ posts = <<>> => shownList = Listing(devices)

\* With no call waiting and none about to be posted, what is being read is the
\* copy as it is, up to the count of the call.
AsCached(i) == [id |-> cached[i].id, ip |-> cached[i].ip]
Settled == Win /\ calling = {} /\ posts = <<>>
ReadsCached ==
  Settled /\ reading.next > 0 =>
    /\ Len(reading.incoming) = IF reading.next - 1 <= Len(cached) THEN reading.next - 1 ELSE Len(cached)
    /\ \A i \in DOMAIN reading.incoming : reading.incoming[i] = AsCached(i)

\* And with nothing being read the window shows what the last call asked for
\* and the typed addresses, which are none of that.
WinShows ==
  Settled /\ reading.next = 0 =>
    Listed(shownList) = AskedFor \cup manual /\ manual \cap AskedFor = {}

\* A selection is listed, or an address; the command line keeps none.
Selectable == selected \in {None} \cup Addresses \cup Listed(shownList)
SelectsNothing == Cli => selected = None

WindowInv ==
  /\ ThreadInv /\ WindowType /\ AddsAddress
  /\ GtkShows /\ ReadsCached /\ WinShows
  /\ Selectable /\ SelectsNothing

-----------------------------------------------------------------------------
(* Sequences and their indices.                                              *)

\* A set of numbers that is not empty has a least one, and First is it.
LEMMA FirstIsLeast ==
  ASSUME NEW S \in SUBSET Nat, S # {}
  PROVE  First(S) \in S /\ \A j \in S : First(S) <= j
<1>1. PICK a \in S : TRUE
  OBVIOUS
<1> DEFINE R == {x \in S : x <= a}
           below(x) == {y \in R : y < x}
           T == {below(x) : x \in R}
<1>2. IsFiniteSet(R)
  <2>1. R \in SUBSET Nat /\ a \in Nat /\ \A x \in R : x <= a
    OBVIOUS
  <2> HIDE DEF R
  <2> QED
    BY <2>1, FS_BoundedSetOfNaturals
<1>3. IsWellFoundedOn(StrictSubsetOrdering(R), SUBSET R)
  <2> HIDE DEF R
  <2> QED
    BY <1>2, FS_StrictSubsetOrderingWellFounded, FS_FiniteSubsetsOfFinite
<1>4. PICK b \in T : \A c \in T : ~(<<c, b>> \in StrictSubsetOrdering(R))
  <2>1. \A x \in R : below(x) \in SUBSET R
    OBVIOUS
  <2>2. a \in R
    OBVIOUS
  <2>3. T \subseteq SUBSET R /\ T # {}
    BY <2>1, <2>2
  <2> HIDE DEF T, R
  <2> QED
    BY <1>3, <2>3, WFMin
<1>5. PICK x \in R : b = below(x)
  BY <1>4
<1>6. ASSUME NEW y \in R, y < x PROVE FALSE
  <2>1. \A z \in R : z < y => z < x
    BY <1>6
  <2>2. below(y) \subseteq below(x) /\ y \in below(x) /\ below(x) \subseteq R
    BY <1>6, <2>1
  <2>4. y \notin below(y)
    OBVIOUS
  <2>3. below(y) \in T /\ <<below(y), below(x)>> \in StrictSubsetOrdering(R)
    BY <2>2, <2>4 DEF StrictSubsetOrdering
  <2> QED
    BY <1>4, <1>5, <2>3
<1>7. \A y \in S : x <= y
  BY <1>6
<1> QED
  BY <1>7 DEF First

\* Only keeps what is at the indices kept, each once.
LEMMA OnlyIs ==
  ASSUME NEW X, NEW ds \in Seq(X), NEW kept \in SUBSET DOMAIN ds
  PROVE  \E at \in [1..Len(Only(ds, kept)) -> kept] :
           /\ Only(ds, kept) \in Seq(X)
           /\ DOMAIN Only(ds, kept) = 1..Len(Only(ds, kept))
           /\ \A k \in DOMAIN Only(ds, kept) : Only(ds, kept)[k] = ds[at[k]]
           /\ \A k, l \in DOMAIN Only(ds, kept) : at[k] = at[l] => k = l
           /\ \A i \in kept : \E k \in DOMAIN Only(ds, kept) : at[k] = i
<1> DEFINE upto(i) == {j \in kept : j <= i}
           rank == [i \in kept |-> Cardinality(upto(i))]
           n == Cardinality(kept)
           pick(k) == CHOOSE i \in kept : Cardinality(upto(i)) = k
           at == [k \in 1..n |-> pick(k)]
           s == Only(ds, kept)
<1>1. Len(ds) \in Nat /\ DOMAIN ds = 1..Len(ds) /\ \A i \in DOMAIN ds : ds[i] \in X
  OBVIOUS
<1>2. IsFiniteSet(kept) /\ n \in Nat /\ \A i \in kept : i \in Nat
  <2>1. IsFiniteSet(1..Len(ds))
    BY <1>1, FS_Interval
  <2> QED
    BY <1>1, <2>1, FS_Subset, FS_CardinalityType
<1>3. ASSUME NEW i \in kept
      PROVE  IsFiniteSet(upto(i)) /\ Cardinality(upto(i)) \in 1..n
  <2>1. upto(i) \in SUBSET kept /\ i \in upto(i)
    BY <1>2
  <2> HIDE DEF upto
  <2>2. IsFiniteSet(upto(i)) /\ Cardinality(upto(i)) <= n
    BY <1>2, <2>1, FS_Subset
  <2>3. Cardinality(upto(i)) \in Nat /\ Cardinality(upto(i)) # 0
    BY <2>1, <2>2, FS_CardinalityType, FS_EmptySet
  <2> QED
    BY <1>2, <2>2, <2>3
<1>4. ASSUME NEW i \in kept, NEW j \in kept, i < j
      PROVE  Cardinality(upto(i)) # Cardinality(upto(j))
  <2>1. upto(i) \in SUBSET upto(j) /\ j \in upto(j) /\ j \notin upto(i)
    BY <1>2, <1>4
  <2> HIDE DEF upto
  <2> QED
    BY <1>3, <2>1, FS_Subset
<1>5. \A i, j \in kept : rank[i] = rank[j] => i = j
  <2>1. \A i \in kept : rank[i] = Cardinality(upto(i))
    OBVIOUS
  <2> HIDE DEF rank, upto
  <2>2. ASSUME NEW i \in kept, NEW j \in kept, rank[i] = rank[j], i # j PROVE FALSE
    <3>1. i < j \/ j < i
      BY <1>2, <2>2
    <3> QED
      BY <1>4, <2>1, <2>2, <3>1
  <2> QED
    BY <2>2
<1>6. \A k \in 1..n : \E i \in kept : rank[i] = k
  <2>1. rank \in Injection(kept, 1..n)
    BY <1>3, <1>5 DEF Injection, IsInjective
  <2>2. IsFiniteSet(1..n) /\ Cardinality(1..n) = n
    BY <1>2, FS_Interval
  <2> HIDE DEF rank
  <2>3. rank \in Surjection(kept, 1..n)
    BY <1>2, <2>1, <2>2, FS_Injection
  <2> QED
    BY <2>3 DEF Surjection
<1>7. \A k \in 1..n : pick(k) \in kept /\ rank[pick(k)] = k
  BY <1>6
<1>8. s = [k \in 1..n |-> ds[pick(k)]]
  BY DEF Only
<1> HIDE DEF pick, n
<1>9. s \in Seq(X) /\ Len(s) = n /\ DOMAIN s = 1..n /\ \A k \in 1..n : s[k] = ds[at[k]]
  <2>1. \A k \in 1..n : ds[pick(k)] \in X /\ ds[at[k]] = ds[pick(k)]
    BY <1>1, <1>7
  <2> HIDE DEF at, s
  <2> QED
    BY <1>2, <1>8, <2>1
<1>10. \A k, l \in 1..n : at[k] = at[l] => k = l
  <2> HIDE DEF rank
  <2> QED
    BY <1>7
<1>11. \A i \in kept : \E k \in 1..n : at[k] = i
  <2>1. \A i \in kept : rank[i] \in 1..n
    BY <1>3
  <2> HIDE DEF rank
  <2>2. \A i \in kept : at[rank[i]] = i
    BY <1>5, <1>7, <2>1
  <2> QED
    BY <2>1, <2>2
<1>12. at \in [1..n -> kept]
  BY <1>7
<1>13. at \in [1..Len(Only(ds, kept)) -> kept]
  <2> HIDE DEF at
  <2> QED
    BY <1>9, <1>12
<1>14. /\ Only(ds, kept) \in Seq(X)
       /\ DOMAIN Only(ds, kept) = 1..Len(Only(ds, kept)) /\ DOMAIN Only(ds, kept) = 1..n
  BY <1>9
<1>15. /\ \A k \in DOMAIN Only(ds, kept) : Only(ds, kept)[k] = ds[at[k]]
       /\ \A k, l \in DOMAIN Only(ds, kept) : at[k] = at[l] => k = l
       /\ \A i \in kept : \E k \in DOMAIN Only(ds, kept) : at[k] = i
  <2> HIDE DEF at
  <2> QED
    BY <1>9, <1>10, <1>11, <1>14
<1> WITNESS at \in [1..Len(Only(ds, kept)) -> kept]
<1> HIDE DEF at
<1> QED
  BY <1>14, <1>15

\* The entries of a list that is filtered.
LEMMA OnlyEntries ==
  ASSUME NEW X, NEW ds \in Seq(X), NEW kept \in SUBSET DOMAIN ds
  PROVE  /\ Only(ds, kept) \in Seq(X)
         /\ \A k \in DOMAIN Only(ds, kept) : \E i \in kept : Only(ds, kept)[k] = ds[i]
         /\ \A i \in kept : \E k \in DOMAIN Only(ds, kept) : Only(ds, kept)[k] = ds[i]
<1>1. PICK at \in [1..Len(Only(ds, kept)) -> kept] :
           /\ Only(ds, kept) \in Seq(X)
           /\ DOMAIN Only(ds, kept) = 1..Len(Only(ds, kept))
           /\ \A k \in DOMAIN Only(ds, kept) : Only(ds, kept)[k] = ds[at[k]]
           /\ \A i \in kept : \E k \in DOMAIN Only(ds, kept) : at[k] = i
  BY OnlyIs
<1>2. \A k \in DOMAIN Only(ds, kept) : at[k] \in kept
  BY <1>1
<1> HIDE DEF Only
<1> QED
  BY <1>1, <1>2

\* Ids of a list that is filtered.
LEMMA OnlyListed ==
  ASSUME NEW X, NEW ds \in Seq(X), NEW kept \in SUBSET DOMAIN ds
  PROVE  Listed(Only(ds, kept)) = {ds[i].id : i \in kept}
BY OnlyEntries DEF Listed

-----------------------------------------------------------------------------
(* The list.                                                                 *)

NoTwice(ds) ==
  \A i, j \in DOMAIN ds : i # j => (ds[i].id # ds[j].id \/ ds[i].id = Unnamed) /\ ds[i].ip # ds[j].ip
AllBelong(ds) == \A i \in DOMAIN ds : Belongs(ds[i].id, ds[i].ip)

\* What becomes of an entry the device d is merged over: d under one of the ids.
Over(e, d) == IF d.id = Unnamed THEN [d EXCEPT !.id = e.id] ELSE d

LEMMA OverIs ==
  ASSUME NEW e \in Entry, NEW d \in Entry
  PROVE  Over(e, d) \in Entry /\ Over(e, d).ip = d.ip /\ Over(e, d).custom = d.custom
         /\ Over(e, d).id = IF d.id = Unnamed THEN e.id ELSE d.id
BY DEF Over, Entry

\* A device is merged into the list at its end or over an entry it matches.
LEMMA MergedIs ==
  ASSUME NEW ds \in Seq(Entry), NEW d \in Entry
  PROVE  /\ Merged(ds, d) \in Seq(Entry)
         /\ \/ Matches(ds, d) = {} /\ Merged(ds, d) = Append(ds, d)
            \/ \E i \in Matches(ds, d) : Merged(ds, d) = [ds EXCEPT ![i] = Over(ds[i], d)]
<1>1. Matches(ds, d) \subseteq DOMAIN ds /\ Matches(ds, d) \in SUBSET Nat
  BY DEF Matches
<1>2. CASE Matches(ds, d) = {}
  <2>1. Merged(ds, d) = Append(ds, d)
    BY <1>2 DEF Merged
  <2> QED
    BY <1>2, <2>1
<1>3. CASE Matches(ds, d) # {}
  <2> DEFINE i == First(Matches(ds, d))
  <2>1. i \in Matches(ds, d)
    BY <1>1, <1>3, FirstIsLeast
  <2>2. Merged(ds, d) = [ds EXCEPT ![i] = Over(ds[i], d)]
    BY <1>3 DEF Merged, First, Over
  <2> HIDE DEF i
  <2>3. Over(ds[i], d) \in Entry
    BY <1>1, <2>1, OverIs
  <2>4. [ds EXCEPT ![i] = Over(ds[i], d)] \in Seq(Entry)
    BY <1>1, <2>1, <2>3
  <2> QED
    BY <2>1, <2>2, <2>4
<1> QED
  BY <1>2, <1>3

\* Where the address decides the id, merging keeps the list without doubles.
LEMMA MergedOnce ==
  ASSUME NEW ds \in Seq(Entry), NEW d \in Entry, KeepsAddress,
         AllBelong(ds), NoTwice(ds), Belongs(d.id, d.ip)
  PROVE  AllBelong(Merged(ds, d)) /\ NoTwice(Merged(ds, d))
<1>0. DOMAIN ds = 1..Len(ds) /\ Len(ds) \in Nat /\ \A i \in DOMAIN ds : ds[i] \in Entry
  OBVIOUS
<1>1. ASSUME NEW e \in Entry, Belongs(e.id, e.ip), e.id = d.id, d.id # Unnamed PROVE e.ip = d.ip
  <2>1. e.id \in Ids /\ d.id \in Ids /\ e.ip \in Addresses /\ d.ip \in Addresses
    BY DEF Entry
  <2>2. \A tv \in TVs : OwnNames(tv) \cap Addresses = {}
    BY DiscoveryAssumption DEF OwnNames
  <2>3. CASE d.id \in Addresses
    BY <1>1, <2>2, <2>3 DEF Belongs
  <2>4. CASE d.id \notin Addresses
    <3>1. PICK tv \in TVs : d.id \in OwnNames(tv) /\ d.ip \in Leases[tv]
      BY <2>1, <2>4 DEF Belongs
    <3>2. PICK other \in TVs : d.id \in OwnNames(other) /\ e.ip \in Leases[other]
      BY <1>1, <2>1, <2>4 DEF Belongs
    <3>3. tv = other
      BY <1>1, <3>1, <3>2 DEF KeepsAddress
    <3> QED
      BY <3>1, <3>2, <3>3 DEF KeepsAddress
  <2> QED
    BY <2>3, <2>4
<1>2. \A i \in DOMAIN ds : ds[i].id = d.id /\ d.id # Unnamed => ds[i].ip = d.ip
  BY <1>0, <1>1 DEF AllBelong
<1>3. CASE Matches(ds, d) = {} /\ Merged(ds, d) = Append(ds, d)
  <2>1. \A i \in DOMAIN ds : (ds[i].id # d.id \/ d.id = Unnamed) /\ ds[i].ip # d.ip
    BY <1>3 DEF Matches
  <2>2. DOMAIN Append(ds, d) = 1..(Len(ds) + 1) /\ Append(ds, d)[Len(ds) + 1] = d
    OBVIOUS
  <2>3. \A i \in DOMAIN ds : Append(ds, d)[i] = ds[i]
    OBVIOUS
  <2>4. \A i \in DOMAIN Append(ds, d) : i \in DOMAIN ds \/ i = Len(ds) + 1
    BY <1>0, <2>2
  <2> DEFINE q == Append(ds, d)
  <2> HIDE DEF q
  <2>5. AllBelong(q)
    BY <2>2, <2>3, <2>4 DEF AllBelong, q
  <2>6. NoTwice(q)
    BY <2>1, <2>2, <2>3, <2>4 DEF NoTwice, q
  <2> QED
    BY <1>3, <2>5, <2>6 DEF q
<1>4. ASSUME NEW i \in Matches(ds, d), Merged(ds, d) = [ds EXCEPT ![i] = Over(ds[i], d)]
      PROVE  AllBelong(Merged(ds, d)) /\ NoTwice(Merged(ds, d))
  <2>1. i \in DOMAIN ds /\ ds[i].ip = d.ip /\ ds[i] \in Entry
    BY <1>0, <1>2 DEF Matches
  <2> DEFINE e == Over(ds[i], d)
  <2>0. e.ip = d.ip /\ e.id = (IF d.id = Unnamed THEN ds[i].id ELSE d.id) /\ Belongs(e.id, e.ip)
    BY <2>1, OverIs DEF AllBelong
  <2> HIDE DEF e
  <2>2. ASSUME NEW j \in DOMAIN ds, j # i
        PROVE  ds[j].ip # e.ip /\ (ds[j].id # e.id \/ ds[j].id = Unnamed)
    <3>1. ds[j].ip # d.ip /\ (ds[j].id # ds[i].id \/ ds[j].id = Unnamed)
      BY <2>1, <2>2 DEF NoTwice
    <3>2. ds[j].id # d.id \/ d.id = Unnamed
      BY <1>2, <3>1
    <3> QED
      BY <2>0, <3>1, <3>2
  <2> DEFINE q == Merged(ds, d)
  <2>3. DOMAIN q = DOMAIN ds /\ q[i] = e /\ \A j \in DOMAIN ds : j # i => q[j] = ds[j]
    BY <1>4, <2>1 DEF e
  <2> HIDE DEF q
  <2>4. AllBelong(q)
    BY <2>0, <2>3 DEF AllBelong
  <2>5. NoTwice(q)
    <3> SUFFICES ASSUME NEW k \in DOMAIN ds, NEW l \in DOMAIN ds, k # l
                 PROVE  (q[k].id # q[l].id \/ q[k].id = Unnamed) /\ q[k].ip # q[l].ip
      BY <2>3 DEF NoTwice
    <3>1. CASE k # i /\ l # i
      BY <2>3, <3>1 DEF NoTwice
    <3>2. CASE k = i
      BY <2>2, <2>3, <3>2
    <3>3. CASE l = i
      BY <2>2, <2>3, <3>3
    <3> QED
      BY <3>1, <3>2, <3>3
  <2> QED
    BY <2>4, <2>5 DEF q
<1> QED
  BY <1>3, <1>4, MergedIs

\* So does leaving entries out.
LEMMA OnlyOnce ==
  ASSUME NEW ds \in Seq(Entry), NEW kept \in SUBSET DOMAIN ds, AllBelong(ds), NoTwice(ds)
  PROVE  AllBelong(Only(ds, kept)) /\ NoTwice(Only(ds, kept))
<1>1. PICK at \in [1..Len(Only(ds, kept)) -> kept] :
           /\ DOMAIN Only(ds, kept) = 1..Len(Only(ds, kept))
           /\ \A k \in DOMAIN Only(ds, kept) : Only(ds, kept)[k] = ds[at[k]]
           /\ \A k, l \in DOMAIN Only(ds, kept) : at[k] = at[l] => k = l
  BY OnlyIs
<1> DEFINE q == Only(ds, kept)
<1>2. \A k \in DOMAIN q : at[k] \in DOMAIN ds /\ q[k] = ds[at[k]]
  BY <1>1
<1>3. \A k, l \in DOMAIN q : k # l => at[k] # at[l]
  BY <1>1
<1> HIDE DEF q
<1>4. AllBelong(q) /\ NoTwice(q)
  BY <1>2, <1>3 DEF AllBelong, NoTwice
<1> QED
  BY <1>4 DEF q

\* What a sweep keeps.
LEMMA KeptIs ==
  \E kept \in SUBSET DOMAIN devices : Kept(devices) = Only(devices, kept)
<1> DEFINE first(i) == \A j \in 1..(i - 1) : ~(devices[j].id = devices[i].id /\ Stale(devices[j]))
           kept == {i \in DOMAIN devices : ~(Stale(devices[i]) /\ first(i))}
<1>1. Kept(devices) = Only(devices, kept)
  BY DEF Kept
<1>2. kept \in SUBSET DOMAIN devices
  OBVIOUS
<1> HIDE DEF kept
<1> QED
  BY <1>1, <1>2

\* What is shown of a list is a list.
LEMMA ListingIs ==
  ASSUME NEW ds \in Seq(Entry)
  PROVE  /\ Listing(ds) \in Seq(Shown) /\ Listing(ds) # None
         /\ Len(Listing(ds)) = Len(ds) /\ DOMAIN Listing(ds) = DOMAIN ds
         /\ \A i \in DOMAIN ds :
              Listing(ds)[i] = [id |-> ds[i].id, ip |-> ds[i].ip, custom |-> ds[i].custom]
<1>1. DOMAIN ds = 1..Len(ds) /\ Len(ds) \in Nat /\ \A i \in DOMAIN ds : ds[i] \in Entry
  OBVIOUS
<1>2. \A i \in 1..Len(ds) :
        [id |-> ds[i].id, ip |-> ds[i].ip, custom |-> ds[i].custom] \in Shown
  BY <1>1 DEF Entry, Shown
<1>3. Listing(ds) = [i \in 1..Len(ds) |-> [id |-> ds[i].id, ip |-> ds[i].ip, custom |-> ds[i].custom]]
  BY <1>1 DEF Listing
<1>4. Listing(ds) \in Seq(Shown) /\ Len(Listing(ds)) = Len(ds)
  BY <1>1, <1>2, <1>3
<1>5. None \notin Seq(Shown)
  BY DiscoveryAssumption DEF Shown, Ids
<1> QED
  BY <1>1, <1>3, <1>4, <1>5

-----------------------------------------------------------------------------
(* What a step of a program does to DeviceDiscovery.                         *)

AppAdds(a, custom) ==
  /\ app = "idle" /\ copy[AppThread] = None
  /\ AddOrUpdateDevice(AppThread, Device(a, a, custom))
  /\ app' \in {app, "added"}
  /\ UNCHANGED <<environment, scanEnabled, running, mdnsIds, loopVars, probe>>

AppRemoves(id) ==
  /\ app = "idle" /\ copy[AppThread] = None
  /\ RemoveDevice(AppThread, id)
  /\ app' = "removed"
  /\ UNCHANGED <<environment, scanEnabled, running, loopVars, probe>>

AppGoesOn ==
  /\ app \in {"added", "removed"} /\ app' = "idle"
  /\ UNCHANGED <<environment, scanEnabled, running, list, loopVars, probe, copy>>

Works ==
  \/ Loop \/ Stopped \/ Start \/ Started \/ Stop \/ Environment \/ TriggerScan
  \/ \E p \in Probers : Probe(p)
  \/ \E a \in Addresses, custom \in BOOLEAN : AppAdds(a, custom)
  \/ \E id : AppRemoves(id)
  \/ AppGoesOn \/ UNCHANGED discoveryVars

EngineStep == Works \/ \E t \in Actors : Announce(t)

\* Whatever program takes it, a step is one of these.
LEMMA StepsOfTheEngine == ASSUME [Next]_vars PROVE EngineStep
<1>1. CASE UNCHANGED vars
  BY <1>1 DEF vars, EngineStep, Works
<1>2. CASE Loop \/ Stopped \/ Start \/ Started \/ Stop \/ Environment \/ \E p \in Probers : Probe(p)
  BY <1>2 DEF EngineStep, Works
<1>3. ASSUME NEW t \in Actors, Announced(t) PROVE EngineStep
  <2>1. AppThread \in Actors
    BY DEF Actors
  <2> QED
    BY <1>3, <2>1 DEF Announced, GtkPosted, GtkAnnounced, WinCached, WinPosted, EngineStep, Works
<1>4. CASE CliNext
  <2>1. CASE TriggerScan
    BY <2>1 DEF EngineStep, Works
  <2>2. ASSUME NEW a \in Addresses,
               app = "idle" /\ copy[AppThread] = None,
               AddOrUpdateDevice(AppThread, Device(a, a, FALSE)),
               UNCHANGED <<environment, scanEnabled, running, mdnsIds, loopVars, probe, app>>
        PROVE  EngineStep
    <3>1. AppAdds(a, FALSE)
      BY <2>2 DEF AppAdds
    <3> QED
      BY <3>1 DEF EngineStep, Works
  <2> QED
    BY <1>4, <2>1, <2>2 DEF CliNext
<1>5. CASE GtkRefresh \/ GtkSelect
  BY <1>5 DEF GtkRefresh, GtkSelect, EngineStep, Works
<1>6. CASE GtkRescan
  BY <1>6 DEF GtkRescan, EngineStep, Works
<1>7. CASE GtkAdded \/ GtkRemoved
  <2>1. AppGoesOn
    BY <1>7 DEF GtkAdded, GtkRemoved, AppGoesOn
  <2> QED
    BY <2>1 DEF EngineStep, Works
<1>8. CASE GtkRemove
  <2>1. AppRemoves(selected)
    BY <1>8 DEF GtkRemove, AppRemoves
  <2> QED
    BY <2>1 DEF EngineStep, Works
<1>9. ASSUME NEW a \in Addresses, GtkAdd(a) PROVE EngineStep
  <2>1. AppAdds(a, TRUE)
    BY <1>9 DEF GtkAdd, AppAdds
  <2> QED
    BY <2>1 DEF EngineStep, Works
<1>10. CASE WinApply \/ WinRead \/ WinApplied \/ WinSelect \/ \E a \in Addresses : WinAdd(a) \/ WinRemove(a)
  BY <1>10 DEF WinApply, WinRead, WinApplied, WinSelect, WinAdd, WinRemove, EngineStep, Works
<1>11. CASE WinRescan
  BY <1>11 DEF WinRescan, EngineStep, Works
<1>12. CASE WinCast
  <2>1. AppAdds(selected, FALSE) /\ selected \in Addresses
    BY <1>12 DEF WinCast, AppAdds
  <2> QED
    BY <2>1 DEF EngineStep, Works
<1> QED
  BY <1>1, <1>2, <1>3, <1>4, <1>5, <1>6, <1>7, <1>8, <1>9, <1>10, <1>11, <1>12
     DEF Next, GtkNext, WinNext

\* The threads that may have something to announce are different ones.
LEMMA ActorsAre ==
  /\ LoopThread \in Actors /\ AppThread \in Actors /\ LoopThread # AppThread
  /\ \A p \in Probers, a \in Addresses :
       <<p, a>> \in Actors /\ <<p, a>> # LoopThread /\ <<p, a>> # AppThread
<1>1. ASSUME NEW p \in Probers, NEW a \in Addresses
      PROVE  <<p, a>> # LoopThread /\ <<p, a>> # AppThread
  BY DiscoveryAssumption DEF LoopThread, AppThread
<1> QED
  BY <1>1 DEF Actors, LoopThread, AppThread, Tasks

\* Thread t left the list as it was, or has the new one to announce.
Changed(t) ==
  /\ devices' \in Seq(Entry) /\ copy' \in [Actors -> Seq(Shown) \cup {None}]
  /\ \A u \in Actors : u # t => copy'[u] = copy[u]
  /\ \/ devices' = devices /\ copy' = copy
     \/ copy'[t] = Listing(devices') /\ copy'[t] # None

\* So does every operation of the list.
LEMMA AddingIs ==
  ASSUME ListType, NEW t \in Actors, NEW d \in Entry, AddOrUpdateDevice(t, d)
  PROVE  Changed(t) /\ copy'[t] # None /\ devices' = Merged(devices, d)
<1>1. devices' = Merged(devices, d) /\ devices' \in Seq(Entry)
  BY MergedIs DEF AddOrUpdateDevice, ListType
<1>2. Listing(devices') \in Seq(Shown) /\ Listing(devices') # None
  BY <1>1, ListingIs
<1>3. copy' = [copy EXCEPT ![t] = Listing(devices')]
  BY DEF AddOrUpdateDevice
<1> QED
  BY <1>1, <1>2, <1>3 DEF Changed, ListType

LEMMA RemovingIs ==
  ASSUME ListType, NEW t \in Actors, NEW id, RemoveDevice(t, id)
  PROVE  Changed(t) /\ mdnsIds' = mdnsIds
         /\ \E kept \in SUBSET DOMAIN devices : devices' = Only(devices, kept)
<1> DEFINE kept == {i \in DOMAIN devices : devices[i].id # id}
<1>1. kept \in SUBSET DOMAIN devices /\ devices' = Only(devices, kept)
  BY DEF RemoveDevice
<1>2. devices' \in Seq(Entry)
  BY <1>1, OnlyEntries DEF ListType
<1> HIDE DEF kept
<1>3. Listing(devices') \in Seq(Shown) /\ Listing(devices') # None
  BY <1>2, ListingIs
<1>4. (devices' = devices /\ copy' = copy) \/ copy' = [copy EXCEPT ![t] = Listing(devices')]
  BY DEF RemoveDevice
<1>5. Changed(t)
  BY <1>2, <1>3, <1>4 DEF Changed, ListType
<1> QED
  BY <1>1, <1>5 DEF RemoveDevice

LEMMA ExpiringIs ==
  ASSUME ListType, ExpireStaleDevices
  PROVE  Changed(LoopThread) /\ mdnsIds' \subseteq mdnsIds
         /\ \E kept \in SUBSET DOMAIN devices : devices' = Only(devices, kept)
<1>1. PICK kept \in SUBSET DOMAIN devices : devices' = Only(devices, kept)
  BY KeptIs DEF ExpireStaleDevices
<1>2. devices' \in Seq(Entry)
  BY <1>1, OnlyEntries DEF ListType
<1>3. Listing(devices') \in Seq(Shown) /\ Listing(devices') # None
  BY <1>2, ListingIs
<1>4. (devices' = devices /\ copy' = copy) \/ copy' = [copy EXCEPT ![LoopThread] = Listing(devices')]
  BY DEF ExpireStaleDevices
<1>5. Changed(LoopThread)
  BY <1>2, <1>3, <1>4, ActorsAre DEF Changed, ListType
<1> QED
  BY <1>1, <1>5 DEF ExpireStaleDevices

\* Growing old is not shown.
LEMMA AgingIs ==
  ASSUME ListType, NEW i \in DOMAIN devices, Ages(i)
  PROVE  /\ devices' \in Seq(Entry) /\ DOMAIN devices' = DOMAIN devices
         /\ Listing(devices') = Listing(devices) /\ copy' = copy /\ mdnsIds' = mdnsIds
         /\ \A j \in DOMAIN devices : devices'[j].id = devices[j].id /\ devices'[j].ip = devices[j].ip
<1>1. DOMAIN devices = 1..Len(devices) /\ \A j \in DOMAIN devices : devices[j] \in Entry
  BY DEF ListType
<1>2. devices' = [devices EXCEPT ![i].stale = TRUE] /\ copy' = copy /\ mdnsIds' = mdnsIds
  BY DEF Ages
<1> DEFINE e == [devices[i] EXCEPT !.stale = TRUE]
<1>3. devices' = [devices EXCEPT ![i] = e]
  BY <1>2
<1>4. e \in Entry /\ e.id = devices[i].id /\ e.ip = devices[i].ip /\ e.custom = devices[i].custom
  BY <1>1 DEF Entry
<1> HIDE DEF e
<1>5. devices' \in Seq(Entry) /\ DOMAIN devices' = DOMAIN devices
  BY <1>1, <1>3, <1>4 DEF ListType
<1>6. \A j \in DOMAIN devices : devices'[j] = IF j = i THEN e ELSE devices[j]
  BY <1>1, <1>3
<1>7. \A j \in DOMAIN devices : /\ devices'[j].id = devices[j].id /\ devices'[j].ip = devices[j].ip
                               /\ devices'[j].custom = devices[j].custom
  BY <1>4, <1>6
<1>8. Listing(devices') = Listing(devices)
  BY <1>5, <1>7 DEF Listing
<1> QED
  BY <1>2, <1>5, <1>7, <1>8

-----------------------------------------------------------------------------
(* The threads of DeviceDiscovery.                                           *)

LEMMA DeviceIs ==
  ASSUME NEW id \in Ids, NEW ip \in Addresses, NEW custom \in BOOLEAN
  PROVE  Device(id, ip, custom) \in Entry /\ Device(id, ip, custom).id = id
         /\ Device(id, ip, custom).ip = ip
BY DEF Device, Entry

\* A step of the loop writes no other thread's copy and no probe; what
\* becomes of the list.
LEMMA LoopSteps ==
  ASSUME NetworkType, ThreadType, ListType, Loop
  PROVE  /\ Changed(LoopThread) /\ mdnsIds' \subseteq Ids
         /\ UNCHANGED <<where, scanEnabled, running, probe, app>>
         /\ inbox' \subseteq [id : TVs, ip : Addresses]
         /\ loop' \in {"off", "top", "receive", "record"} /\ force' \in BOOLEAN /\ socket' \in BOOLEAN
         /\ heard' \in TVs \cup {None} /\ (loop' = "record" => heard' # None)
         /\ loop # "off" /\ (loop' \in {"off", "top"} => copy' = copy)
         /\ (loop' = "top" => copy[LoopThread] = None)
         /\ (loop' = "off" => loop = "top")
<1>0. UNCHANGED <<devices, copy>> => Changed(LoopThread)
  BY DEF Changed, ListType
<1>1. ASSUME NEW query \in BOOLEAN, NEW sweep \in BOOLEAN, NEW answering \in SUBSET TVs,
             LoopTop(query, answering, sweep)
      PROVE  /\ Changed(LoopThread) /\ mdnsIds' \subseteq Ids
             /\ UNCHANGED <<where, scanEnabled, running, probe, app, socket, heard>>
             /\ inbox' \subseteq [id : TVs, ip : Addresses] /\ force' \in BOOLEAN
             /\ loop = "top" /\ loop' = "receive"
  <2>1. /\ UNCHANGED <<where, scanEnabled, running, probe, app, socket, heard>>
        /\ loop = "top" /\ loop' = "receive"
    BY <1>1 DEF LoopTop
  <2>2. inbox' \subseteq [id : TVs, ip : Addresses] /\ force' \in BOOLEAN
    <3>1. CASE ~query
      BY <1>1, <3>1 DEF LoopTop, NetworkType, ThreadType
    <3>2. CASE query
      <4>1. SendMdnsQuery(answering)
        BY <1>1, <3>2 DEF LoopTop
      <4>2. \A tv \in answering : tv \in TVs /\ where[tv] \in Addresses
        BY <4>1 DEF SendMdnsQuery, On, NetworkType
      <4>3. {[id |-> tv, ip |-> where[tv]] : tv \in answering} \subseteq [id : TVs, ip : Addresses]
        BY <4>2
      <4>4. force' = FALSE /\ inbox' = inbox \cup {[id |-> tv, ip |-> where[tv]] : tv \in answering}
        BY <4>1 DEF SendMdnsQuery
      <4> QED
        BY <4>3, <4>4 DEF NetworkType
    <3> QED
      BY <3>1, <3>2
  <2>3. Changed(LoopThread) /\ mdnsIds' \subseteq Ids
    <3>1. CASE sweep
      <4>1. ExpireStaleDevices
        BY <1>1, <3>1 DEF LoopTop
      <4> QED
        BY <4>1, ExpiringIs DEF ListType
    <3>2. CASE ~sweep
      BY <1>0, <1>1, <3>2 DEF LoopTop, list, ListType
    <3> QED
      BY <3>1, <3>2
  <2> QED
    BY <2>1, <2>2, <2>3
<1>2. CASE LoopEnds
  BY <1>0, <1>2 DEF LoopEnds, environment, list, NetworkType, ThreadType, ListType
<1>3. CASE LoopReceives
  <2>1. PICK packet \in inbox :
          /\ AddOrUpdateDevice(LoopThread, Device(packet.id, packet.ip, FALSE))
          /\ inbox' = inbox \ {packet} /\ heard' = packet.id
    BY <1>3 DEF LoopReceives
  <2>2. packet.id \in TVs /\ packet.ip \in Addresses /\ packet.id # None
    BY DiscoveryAssumption DEF NetworkType
  <2>3. Device(packet.id, packet.ip, FALSE) \in Entry
    BY <2>2, DeviceIs DEF Ids
  <2>4. Changed(LoopThread)
    BY <2>1, <2>3, AddingIs, ActorsAre
  <2>5. inbox' \subseteq [id : TVs, ip : Addresses]
    BY <2>1 DEF NetworkType
  <2> QED
    BY <1>3, <2>1, <2>2, <2>4, <2>5 DEF LoopReceives, ThreadType, ListType
<1>4. CASE LoopReadsNothing
  BY <1>0, <1>4 DEF LoopReadsNothing, environment, list, NetworkType, ThreadType, ListType
<1>5. CASE LoopRecords
  <2>1. heard \in TVs
    BY <1>5 DEF LoopRecords, ThreadType
  <2>2. mdnsIds' \subseteq Ids
    BY <1>5, <2>1 DEF LoopRecords, ListType, Ids
  <2> QED
    BY <1>0, <1>5, <2>2 DEF LoopRecords, environment, NetworkType, ThreadType, ListType
<1>6. CASE \E query, sweep \in BOOLEAN, answering \in SUBSET TVs : LoopTop(query, answering, sweep)
  BY <1>1, <1>6 DEF ThreadType
<1> QED
  BY <1>2, <1>3, <1>4, <1>5, <1>6 DEF Loop

\* A step of a probe is a step of its own state and of one of its tasks.
LEMMA ProbeSteps ==
  ASSUME NetworkType, ThreadType, ListType, TaskCopy, NEW p \in Probers, Probe(p)
  PROVE  /\ UNCHANGED <<environment, scanEnabled, running, mdnsIds, loopVars, app>>
         /\ probe' \in [Probers -> Prober] /\ \A q \in Probers : q # p => probe'[q] = probe[q]
         /\ probe[p].pc # "off"
         /\ (UNCHANGED <<devices, copy>> \/ \E a \in Addresses : Changed(<<p, a>>) /\ probe'[p].pc = "wait")
         /\ (probe'[p].pc # "wait" =>
               \A a \in Addresses : probe'[p].task[a] = "none" /\ copy'[<<p, a>>] = None)
<1>0. probe[p] \in Prober /\ probe[p].task \in [Addresses -> {"none", "start", "open"}]
      /\ probe[p].left \in SUBSET Addresses
  BY DEF ThreadType, Prober
<1>1. CASE ProbeBatch(p)
  <2>1. UNCHANGED <<environment, scanEnabled, running, mdnsIds, loopVars, app, devices, copy>>
        /\ probe[p].pc = "next"
    BY <1>1 DEF ProbeBatch, ProbeUnchanged
  <2>2. \A a \in Addresses : copy[<<p, a>>] = None
    BY <2>1 DEF TaskCopy
  <2>3. CASE probe' = [probe EXCEPT ![p] = Idle]
    <3>1. Idle \in Prober /\ Idle.pc = "off" /\ \A a \in Addresses : Idle.task[a] = "none"
      BY DEF Idle, Prober
    <3>2. probe' \in [Probers -> Prober] /\ probe'[p] = Idle
          /\ \A q \in Probers : q # p => probe'[q] = probe[q]
      BY <2>3, <3>1 DEF ThreadType
    <3> QED
      BY <2>1, <2>2, <3>1, <3>2
  <2>4. ASSUME NEW batch \in SUBSET probe[p].left,
               probe' = [probe EXCEPT ![p].pc = "wait", ![p].left = @ \ batch,
                           ![p].task = [a \in Addresses |-> IF a \in batch THEN "start" ELSE "none"]]
        PROVE  /\ probe' \in [Probers -> Prober] /\ probe'[p].pc = "wait"
               /\ \A q \in Probers : q # p => probe'[q] = probe[q]
    <3> DEFINE task == [a \in Addresses |-> IF a \in batch THEN "start" ELSE "none"]
               r == [probe[p] EXCEPT !.pc = "wait", !.left = @ \ batch, !.task = task]
    <3>1. task \in [Addresses -> {"none", "start", "open"}]
      OBVIOUS
    <3>2. probe' = [probe EXCEPT ![p] = r]
      BY <2>4 DEF ThreadType
    <3> HIDE DEF task
    <3>3. r \in Prober /\ r.pc = "wait"
      BY <1>0, <3>1 DEF Prober
    <3> HIDE DEF r
    <3> QED
      BY <3>2, <3>3 DEF ThreadType
  <2> QED
    BY <1>1, <2>1, <2>3, <2>4 DEF ProbeBatch
<1>2. CASE ProbeBatchEnds(p)
  <2> DEFINE r == [probe[p] EXCEPT !.pc = "next"]
  <2>1. probe' = [probe EXCEPT ![p] = r]
    BY <1>2 DEF ProbeBatchEnds, ThreadType
  <2>2. r \in Prober /\ r.pc = "next" /\ r.task = probe[p].task
    BY <1>0 DEF Prober
  <2> HIDE DEF r
  <2>3. probe' \in [Probers -> Prober] /\ probe'[p] = r /\ \A q \in Probers : q # p => probe'[q] = probe[q]
    BY <2>1, <2>2 DEF ThreadType
  <2> QED
    BY <1>2, <2>2, <2>3 DEF ProbeBatchEnds, ProbeUnchanged
<1>3. ASSUME NEW a \in Addresses, NEW v \in {"none", "open"},
             probe' = [probe EXCEPT ![p].task[a] = v], probe[p].task[a] # "none"
      PROVE  /\ probe' \in [Probers -> Prober] /\ \A q \in Probers : q # p => probe'[q] = probe[q]
             /\ probe[p].pc = "wait" /\ probe'[p].pc = "wait"
  <2> DEFINE task == [probe[p].task EXCEPT ![a] = v]
             r == [probe[p] EXCEPT !.task = task]
  <2>1. probe' = [probe EXCEPT ![p] = r]
    BY <1>3 DEF ThreadType
  <2>2. task \in [Addresses -> {"none", "start", "open"}]
    BY <1>0
  <2> HIDE DEF task
  <2>3. r \in Prober /\ r.pc = probe[p].pc
    BY <1>0, <2>2 DEF Prober
  <2> HIDE DEF r
  <2>4. probe[p].pc = "wait"
    BY <1>3 DEF TaskCopy
  <2> QED
    BY <2>1, <2>3, <2>4 DEF ThreadType
<1>4. ASSUME NEW a \in Addresses, ProbeConnects(p, a)
      PROVE  /\ UNCHANGED <<environment, scanEnabled, running, mdnsIds, loopVars, app, devices, copy>>
             /\ probe' \in [Probers -> Prober] /\ \A q \in Probers : q # p => probe'[q] = probe[q]
             /\ probe[p].pc = "wait" /\ probe'[p].pc = "wait"
  <2>1. \E v \in {"none", "open"} : probe' = [probe EXCEPT ![p].task[a] = v]
    BY <1>4 DEF ProbeConnects
  <2>2. probe[p].task[a] # "none"
    BY <1>4 DEF ProbeConnects
  <2> QED
    BY <1>3, <1>4, <2>1, <2>2 DEF ProbeConnects, ProbeUnchanged
<1>5. ASSUME NEW a \in Addresses, ProbeAdds(p, a)
      PROVE  /\ UNCHANGED <<environment, scanEnabled, running, mdnsIds, loopVars, app>>
             /\ probe' \in [Probers -> Prober] /\ \A q \in Probers : q # p => probe'[q] = probe[q]
             /\ probe[p].pc = "wait" /\ probe'[p].pc = "wait" /\ Changed(<<p, a>>)
  <2>1. probe' = [probe EXCEPT ![p].task[a] = "none"] /\ probe[p].task[a] # "none"
    BY <1>5 DEF ProbeAdds
  <2>2. PICK id \in Answered(a) \cup Failed(a) : AddOrUpdateDevice(<<p, a>>, Device(id, a, FALSE))
    BY <1>5 DEF ProbeAdds
  <2>3. Device(id, a, FALSE) \in Entry
    <3>1. id \in Ids
      BY <2>2, DiscoveryAssumption DEF Answered, Failed, Ids
    <3> QED
      BY <3>1, DeviceIs
  <2>4. Changed(<<p, a>>)
    BY <2>2, <2>3, AddingIs, ActorsAre
  <2> QED
    BY <1>3, <1>5, <2>1, <2>4 DEF ProbeAdds, ProbeUnchanged
<1> QED
  BY <1>1, <1>2, <1>4, <1>5 DEF Probe

\* The list keeps its type when a thread changes it.
LEMMA ChangedIs ==
  ASSUME NEW t \in Actors, Changed(t), mdnsIds' \subseteq Ids
  PROVE  ListType'
BY DEF Changed, ListType

\* Once Stop has returned nothing of Start's runs on: the control of the
\* threads, kept by every step.
LEMMA ThreadStep ==
  ASSUME ThreadInv, EngineStep
  PROVE  ThreadInv'
<1> USE DEF ThreadInv
<1>0. UNCHANGED <<devices, copy>> => Changed(LoopThread)
  BY DEF Changed, ListType
<1>1. CASE Loop
  <2>1. /\ Changed(LoopThread) /\ mdnsIds' \subseteq Ids
        /\ UNCHANGED <<where, scanEnabled, running, probe, app>>
        /\ inbox' \subseteq [id : TVs, ip : Addresses]
        /\ loop' \in {"off", "top", "receive", "record"} /\ force' \in BOOLEAN /\ socket' \in BOOLEAN
        /\ heard' \in TVs \cup {None} /\ (loop' = "record" => heard' # None)
        /\ loop # "off" /\ (loop' \in {"off", "top"} => copy' = copy)
        /\ (loop' = "top" => copy[LoopThread] = None)
        /\ (loop' = "off" => loop = "top")
    BY <1>1, LoopSteps
  <2>2. NetworkType'
    BY <2>1 DEF NetworkType
  <2>3. ThreadType'
    BY <2>1 DEF ThreadType
  <2>4. ListType'
    BY <2>1, ActorsAre, ChangedIs
  <2>5. LoopCopy'
    BY <2>1 DEF LoopCopy
  <2>6. TaskCopy'
    BY <2>1, ActorsAre DEF TaskCopy, Changed
  <2>7. Stands' /\ Joined'
    BY <2>1 DEF Stands, Joined
  <2> QED
    BY <2>2, <2>3, <2>4, <2>5, <2>6, <2>7
<1>2. ASSUME NEW p \in Probers, Probe(p) PROVE ThreadInv'
  <2>1. /\ UNCHANGED <<where, inbox, scanEnabled, running, mdnsIds, loop, socket, heard, force, app>>
        /\ probe' \in [Probers -> Prober] /\ \A q \in Probers : q # p => probe'[q] = probe[q]
        /\ probe[p].pc # "off"
        /\ (UNCHANGED <<devices, copy>> \/ \E a \in Addresses : Changed(<<p, a>>) /\ probe'[p].pc = "wait")
        /\ (probe'[p].pc # "wait" =>
              \A a \in Addresses : probe'[p].task[a] = "none" /\ copy'[<<p, a>>] = None)
    BY <1>2, ProbeSteps DEF environment, loopVars
  <2>2. \E t \in Actors : Changed(t)
    BY <1>0, <2>1, ActorsAre
  <2>3. copy'[LoopThread] = copy[LoopThread]
    BY <2>1, ActorsAre DEF Changed
  <2>4. \A q \in Probers, a \in Addresses : q # p => copy'[<<q, a>>] = copy[<<q, a>>]
    <3>1. ASSUME NEW q \in Probers, NEW a \in Addresses, NEW b \in Addresses, q # p
          PROVE  <<q, a>> # <<p, b>>
      BY <3>1
    <3> QED
      BY <2>1, <3>1, ActorsAre DEF Changed
  <2>5. NetworkType' /\ ThreadType'
    BY <2>1 DEF NetworkType, ThreadType
  <2>6. ListType'
    BY <2>1, <2>2, ChangedIs DEF ListType
  <2>7. LoopCopy'
    BY <2>1, <2>3 DEF LoopCopy
  <2>8. TaskCopy'
    BY <2>1, <2>4 DEF TaskCopy
  <2>9. Stands' /\ Joined'
    BY <2>1 DEF Stands, Joined
  <2> QED
    BY <2>5, <2>6, <2>7, <2>8, <2>9
<1>3. ASSUME NEW t \in Actors, Announce(t) PROVE ThreadInv'
  <2>1. /\ UNCHANGED <<where, inbox, scanEnabled, running, devices, mdnsIds, loop, socket, heard, force, probe, app>>
        /\ copy' = [copy EXCEPT ![t] = None]
    BY <1>3 DEF Announce, environment, list, loopVars
  <2>2. copy' \in [Actors -> Seq(Shown) \cup {None}] /\ \A u \in Actors : copy'[u] \in {copy[u], None}
    BY <2>1 DEF ListType
  <2>3. NetworkType' /\ ThreadType' /\ ListType'
    BY <2>1, <2>2 DEF NetworkType, ThreadType, ListType
  <2>4. LoopCopy' /\ TaskCopy'
    BY <2>1, <2>2, ActorsAre DEF LoopCopy, TaskCopy
  <2> QED
    BY <2>1, <2>3, <2>4 DEF Stands, Joined
<1>4. ASSUME Changed(AppThread), mdnsIds' = mdnsIds,
             UNCHANGED <<environment, scanEnabled, running, loopVars, probe>>,
             app = "idle", app' \in {"idle", "added", "removed"}
      PROVE  ThreadInv'
  <2>1. UNCHANGED <<where, inbox, loop, socket, heard, force>>
    BY <1>4 DEF environment, loopVars
  <2>2. NetworkType' /\ ThreadType'
    BY <1>4, <2>1 DEF NetworkType, ThreadType
  <2>3. ListType'
    BY <1>4, ChangedIs, ActorsAre DEF ListType
  <2>4. LoopCopy' /\ TaskCopy'
    BY <1>4, <2>1, ActorsAre DEF LoopCopy, TaskCopy, Changed
  <2>5. Stands' /\ Joined'
    BY <1>4, <2>1 DEF Stands, Joined
  <2> QED
    BY <2>2, <2>3, <2>4, <2>5
<1>5. ASSUME NEW a \in Addresses, NEW custom \in BOOLEAN, AppAdds(a, custom) PROVE ThreadInv'
  <2>1. Device(a, a, custom) \in Entry
    BY DeviceIs DEF Ids
  <2>2. Changed(AppThread)
    BY <1>5, <2>1, AddingIs, ActorsAre DEF AppAdds
  <2> QED
    BY <1>4, <1>5, <2>2 DEF AppAdds
<1>6. ASSUME NEW id, AppRemoves(id) PROVE ThreadInv'
  <2>1. Changed(AppThread) /\ mdnsIds' = mdnsIds
    BY <1>6, RemovingIs, ActorsAre DEF AppRemoves
  <2> QED
    BY <1>4, <1>6, <2>1 DEF AppRemoves
<1>7. CASE Environment
  <2>1. ASSUME NEW i \in DOMAIN devices, Ages(i) PROVE ThreadInv'
    <3>1. UNCHANGED <<where, inbox, scanEnabled, running, mdnsIds, loop, socket, heard, force, probe, copy, app>>
      BY <2>1 DEF Ages, environment, loopVars
    <3>2. devices' \in Seq(Entry)
      BY <2>1, AgingIs
    <3>3. NetworkType' /\ ThreadType' /\ ListType'
      BY <3>1, <3>2 DEF NetworkType, ThreadType, ListType
    <3> QED
      BY <3>1, <3>3 DEF LoopCopy, TaskCopy, Stands, Joined
  <2>2. ASSUME NEW tv \in TVs, Switch(tv) PROVE ThreadInv'
    <3>1. UNCHANGED <<inbox, scanEnabled, running, devices, mdnsIds, loop, socket, heard, force, probe, copy, app>>
      BY <2>2 DEF Switch, list, loopVars
    <3>2. PICK a \in Leases[tv] \cup {None} : where' = [where EXCEPT ![tv] = a]
      BY <2>2 DEF Switch
    <3>3. a \in Addresses \cup {None}
      BY <3>2, DiscoveryAssumption
    <3>4. NetworkType'
      BY <3>1, <3>2, <3>3 DEF NetworkType
    <3>5. ThreadType' /\ ListType'
      BY <3>1 DEF ThreadType, ListType
    <3> QED
      BY <3>1, <3>4, <3>5 DEF LoopCopy, TaskCopy, Stands, Joined
  <2> QED
    BY <1>7, <2>1, <2>2 DEF Environment
<1>8. CASE Started \/ TriggerScan
  <2>1. /\ UNCHANGED <<where, inbox, scanEnabled, devices, mdnsIds, heard, copy>>
        /\ app \in {"starting", "idle"} /\ app' = "idle"
    BY <1>8 DEF Started, TriggerScan, environment, list
  <2>2. Probing \in Prober /\ Probing.pc = "next" /\ \A a \in Addresses : Probing.task[a] = "none"
    <3>1. Idle \in Prober /\ Idle.pc = "off" /\ \A a \in Addresses : Idle.task[a] = "none"
      BY DEF Idle, Prober
    <3> QED
      BY <3>1 DEF Probing, Prober
  <2>3. \A p \in Probers : probe'[p] = probe[p] \/ (probe'[p] = Probing /\ probe[p].pc = "off")
    BY <1>8 DEF Started, TriggerScan, Joined
  <2>4. DOMAIN probe' = Probers /\ probe' = [p \in Probers |-> probe'[p]]
    BY <1>8 DEF Started, TriggerScan, ThreadType
  <2>5. probe' \in [Probers -> Prober]
    BY <2>2, <2>3, <2>4 DEF ThreadType
  <2>6. running' \in BOOLEAN /\ socket' \in BOOLEAN /\ force' \in BOOLEAN /\ loop' \in {loop, "top"}
    BY <1>8 DEF Started, TriggerScan, SocketOpened, ThreadType, loopVars
  <2>7. loop' = loop \/ loop = "off"
    BY <1>8 DEF Started, TriggerScan, Joined
  <2>8. NetworkType' /\ ThreadType' /\ ListType'
    BY <2>1, <2>5, <2>6 DEF NetworkType, ThreadType, ListType
  <2>9. LoopCopy'
    BY <2>1, <2>6, <2>7 DEF LoopCopy
  <2>10. TaskCopy'
    BY <2>1, <2>2, <2>3 DEF TaskCopy
  <2>11. Stands' /\ Joined'
    <3>1. CASE Started
      <4>1. CASE running' = running
        BY <2>1, <3>1, <4>1 DEF Stands, Joined, Started
      <4>2. CASE UNCHANGED <<loop, probe>>
        BY <2>1, <3>1, <4>2 DEF Stands, Joined, Started
      <4> QED
        BY <3>1, <4>1, <4>2 DEF Started
    <3>2. CASE TriggerScan
      <4>1. UNCHANGED <<running, loop>> /\ \A p \in Probers : p = "subnet" => probe'[p] = probe[p]
        BY <3>2 DEF TriggerScan
      <4> QED
        BY <2>1, <4>1 DEF Stands, Joined
    <3> QED
      BY <1>8, <3>1, <3>2
  <2> QED
    BY <2>8, <2>9, <2>10, <2>11
<1>9. CASE Start \/ Stop \/ Stopped \/ AppGoesOn \/ UNCHANGED discoveryVars
  <2>1. /\ UNCHANGED <<where, inbox, scanEnabled, devices, mdnsIds, loop, socket, heard, force, probe, copy>>
        /\ running' \in BOOLEAN /\ app' \in {"idle", "starting", "stopping", "added", "removed"}
    BY <1>9 DEF Start, Stop, Stopped, AppGoesOn, discoveryVars, environment, list, loopVars, ThreadType
  <2>2. NetworkType' /\ ThreadType' /\ ListType' /\ LoopCopy' /\ TaskCopy'
    BY <2>1 DEF NetworkType, ThreadType, ListType, LoopCopy, TaskCopy
  <2>3. Stands' /\ Joined'
    BY <1>9, <2>1 DEF Stands, Joined, Start, Stop, Stopped, AppGoesOn, discoveryVars, ThreadType
  <2> QED
    BY <2>2, <2>3
<1> QED
  BY <1>1, <1>2, <1>3, <1>5, <1>6, <1>7, <1>8, <1>9 DEF EngineStep, Works

\* Nothing runs before the program starts discovery.
LEMMA ThreadInit == ASSUME Init PROVE ThreadInv
<1> USE DEF Init, DiscoveryInit
<1>1. NetworkType
  BY DEF NetworkType
<1>2. scanEnabled \in BOOLEAN
  <2>1. PICK profile \in Profiles : scanEnabled = profile[2]
    OBVIOUS
  <2> QED
    BY <2>1, PickerAssumption
<1>3. Idle \in Prober /\ Idle.pc = "off" /\ \A a \in Addresses : Idle.task[a] = "none"
  BY DEF Idle, Prober
<1>4. ThreadType
  BY <1>2, <1>3 DEF ThreadType
<1>5. ListType
  BY DEF ListType
<1>6. LoopCopy /\ TaskCopy
  BY <1>3, ActorsAre DEF LoopCopy, TaskCopy
<1>7. Stands /\ Joined
  BY <1>3 DEF Stands, Joined
<1> QED
  BY <1>1, <1>4, <1>5, <1>6, <1>7 DEF ThreadInv

\* For every network, any probes and any program: what DeviceDiscovery keeps
\* has its type, and its threads are where they can be.
THEOREM DiscoveryThreads == Spec => []ThreadInv
<1>1. Init => ThreadInv
  BY ThreadInit
<1>2. ThreadInv /\ [Next]_vars => ThreadInv'
  BY ThreadStep, StepsOfTheEngine
<1> QED
  BY <1>1, <1>2, PTL DEF Spec

\* For every network and any probes: once Stop has returned, neither the loop
\* nor the probe of Start runs, nor has anything left to announce
\* (DeviceDiscovery::Stop).  The detached probe of TriggerScan still may.
THEOREM StoppedQuietAlways == Spec => []StoppedQuiet
<1>1. ThreadInv => StoppedQuiet
  <2> SUFFICES ASSUME ThreadInv, ~running, app = "idle"
               PROVE  /\ loop = "off" /\ copy[LoopThread] = None
                      /\ \A p \in Probers : p = "subnet" =>
                           probe[p].pc = "off" /\ \A a \in Addresses : copy[<<p, a>>] = None
    BY DEF StoppedQuiet
  <2> QED
    BY DEF ThreadInv, Joined, LoopCopy, TaskCopy
<1> QED
  BY <1>1, DiscoveryThreads, PTL

-----------------------------------------------------------------------------
(* The list without doubles.                                                 *)

\* What is on the network belongs to a TV at its address.
LEMMA PlacedOnTheNetwork ==
  ASSUME ThreadInv, Placed, EngineStep
  PROVE  /\ \A tv \in TVs : where'[tv] # None => where'[tv] \in Leases[tv]
         /\ \A packet \in inbox' : Belongs(packet.id, packet.ip)
<1>1. CASE UNCHANGED environment
  BY <1>1 DEF environment, Placed
<1>2. ASSUME NEW query \in BOOLEAN, NEW sweep \in BOOLEAN, NEW answering \in SUBSET TVs,
             LoopTop(query, answering, sweep)
      PROVE  where' = where /\ \A packet \in inbox' : Belongs(packet.id, packet.ip)
  <2>0. where' = where
    BY <1>2 DEF LoopTop
  <2>1. CASE ~query
    BY <1>2, <2>0, <2>1 DEF LoopTop, Placed
  <2>2. CASE query
    <3>1. SendMdnsQuery(answering)
      BY <1>2, <2>2 DEF LoopTop
    <3>2. \A tv \in answering : tv \in TVs /\ where[tv] \in Leases[tv]
      BY <3>1 DEF SendMdnsQuery, On, Placed
    <3>3. inbox' = inbox \cup {[id |-> tv, ip |-> where[tv]] : tv \in answering}
      BY <3>1 DEF SendMdnsQuery
    <3>4. \A packet \in {[id |-> tv, ip |-> where[tv]] : tv \in answering} :
            Belongs(packet.id, packet.ip)
      BY <3>2 DEF Belongs, OwnNames
    <3> QED
      BY <2>0, <3>3, <3>4 DEF Placed
  <2> QED
    BY <2>1, <2>2
<1>3. CASE Loop
  <2>1. CASE LoopReceives
    BY <2>1 DEF LoopReceives, Placed
  <2>2. CASE LoopEnds \/ LoopReadsNothing \/ LoopRecords
    BY <1>1, <2>2 DEF LoopEnds, LoopReadsNothing, LoopRecords
  <2>3. CASE \E query, sweep \in BOOLEAN, answering \in SUBSET TVs : LoopTop(query, answering, sweep)
    BY <1>2, <2>3 DEF Placed
  <2> QED
    BY <1>3, <2>1, <2>2, <2>3 DEF Loop
<1>4. CASE Environment
  <2>1. ASSUME NEW i \in DOMAIN devices, Ages(i) PROVE UNCHANGED environment
    BY <2>1 DEF Ages
  <2>2. ASSUME NEW tv \in TVs, Switch(tv)
        PROVE  inbox' = inbox /\ \A other \in TVs : where'[other] # None => where'[other] \in Leases[other]
    <3>1. PICK a \in Leases[tv] \cup {None} : where' = [where EXCEPT ![tv] = a]
      BY <2>2 DEF Switch
    <3> QED
      BY <2>2, <3>1 DEF Switch, Placed, ThreadInv, NetworkType
  <2> QED
    BY <1>1, <1>4, <2>1, <2>2 DEF Environment, Placed
<1>5. CASE \/ Stopped \/ Start \/ Started \/ Stop \/ TriggerScan \/ AppGoesOn \/ UNCHANGED discoveryVars
           \/ (\E p \in Probers : Probe(p)) \/ (\E t \in Actors : Announce(t))
           \/ (\E a \in Addresses, custom \in BOOLEAN : AppAdds(a, custom)) \/ (\E id : AppRemoves(id))
  <2>1. UNCHANGED environment
    BY <1>5 DEF Stopped, Start, Started, Stop, TriggerScan, AppGoesOn, discoveryVars, Announce, AppAdds, AppRemoves,
                Probe, ProbeBatch, ProbeBatchEnds, ProbeConnects, ProbeAdds, ProbeUnchanged
  <2> QED
    BY <1>1, <2>1
<1> QED
  BY <1>3, <1>4, <1>5 DEF EngineStep, Works

\* What a step makes of the list: it merges a device that belongs there, leaves
\* entries out, lets them grow old, or leaves the list alone.
LEMMA ListChanges ==
  ASSUME ThreadInv, Placed, EngineStep
  PROVE  \/ devices' = devices
         \/ \E kept \in SUBSET DOMAIN devices : devices' = Only(devices, kept)
         \/ \E d \in Entry : devices' = Merged(devices, d) /\ Belongs(d.id, d.ip)
         \/ /\ DOMAIN devices' = DOMAIN devices
            /\ \A j \in DOMAIN devices :
                 devices'[j].id = devices[j].id /\ devices'[j].ip = devices[j].ip
<1> USE DEF ThreadInv
<1>1. ASSUME NEW t \in Actors, NEW id \in Ids, NEW ip \in Addresses, NEW custom \in BOOLEAN, Belongs(id, ip),
             AddOrUpdateDevice(t, Device(id, ip, custom))
      PROVE  \E d \in Entry : devices' = Merged(devices, d) /\ Belongs(d.id, d.ip)
  <2>1. Device(id, ip, custom) \in Entry /\ Belongs(Device(id, ip, custom).id, Device(id, ip, custom).ip)
    BY <1>1, DeviceIs
  <2> QED
    BY <1>1, <2>1 DEF AddOrUpdateDevice
<1>2. CASE Loop
  <2>1. ASSUME NEW query \in BOOLEAN, NEW sweep \in BOOLEAN, NEW answering \in SUBSET TVs,
               LoopTop(query, answering, sweep)
        PROVE  devices' = devices \/ \E kept \in SUBSET DOMAIN devices : devices' = Only(devices, kept)
    BY <2>1, ExpiringIs DEF LoopTop, list
  <2>2. CASE LoopEnds \/ LoopReadsNothing \/ LoopRecords
    BY <2>2 DEF LoopEnds, LoopReadsNothing, LoopRecords, list
  <2>3. CASE LoopReceives
    <3>1. PICK packet \in inbox : AddOrUpdateDevice(LoopThread, Device(packet.id, packet.ip, FALSE))
      BY <2>3 DEF LoopReceives
    <3>2. packet.id \in Ids /\ packet.ip \in Addresses /\ Belongs(packet.id, packet.ip)
      BY DiscoveryAssumption DEF NetworkType, Placed, Ids
    <3> QED
      BY <1>1, <3>1, <3>2, ActorsAre
  <2>4. CASE \E query, sweep \in BOOLEAN, answering \in SUBSET TVs : LoopTop(query, answering, sweep)
    BY <2>1, <2>4
  <2> QED
    BY <1>2, <2>2, <2>3, <2>4 DEF Loop
<1>3. ASSUME NEW p \in Probers, Probe(p)
      PROVE  devices' = devices \/ \E d \in Entry : devices' = Merged(devices, d) /\ Belongs(d.id, d.ip)
  <2>1. CASE ProbeBatch(p) \/ ProbeBatchEnds(p) \/ \E a \in Addresses : ProbeConnects(p, a)
    BY <2>1 DEF ProbeBatch, ProbeBatchEnds, ProbeConnects
  <2>2. ASSUME NEW a \in Addresses, ProbeAdds(p, a)
        PROVE  \E d \in Entry : devices' = Merged(devices, d) /\ Belongs(d.id, d.ip)
    <3>1. PICK id \in Answered(a) \cup Failed(a) : AddOrUpdateDevice(<<p, a>>, Device(id, a, FALSE))
      BY <2>2 DEF ProbeAdds
    <3>2. id \in Ids /\ Belongs(id, a)
      <4>1. CASE id \in Answered(a)
        <5>1. PICK tv \in TVs : where[tv] = a /\ id \in Reports[tv]
          BY <4>1 DEF Answered
        <5>2. a \in Leases[tv] /\ Reports[tv] \subseteq TVs \cup CloudIds
          BY <5>1, DiscoveryAssumption DEF Placed, NetworkType
        <5> QED
          BY <5>1, <5>2 DEF Belongs, OwnNames, Ids
      <4>2. CASE id \in Failed(a)
        BY <4>2 DEF Failed, Belongs, Ids
      <4> QED
        BY <4>1, <4>2
    <3> QED
      BY <1>1, <3>1, <3>2, ActorsAre
  <2> QED
    BY <1>3, <2>1, <2>2 DEF Probe
<1>4. ASSUME NEW a \in Addresses, NEW custom \in BOOLEAN, AppAdds(a, custom)
      PROVE  \E d \in Entry : devices' = Merged(devices, d) /\ Belongs(d.id, d.ip)
  BY <1>1, <1>4, ActorsAre DEF AppAdds, Belongs, Ids
<1>5. ASSUME NEW id, AppRemoves(id)
      PROVE  \E kept \in SUBSET DOMAIN devices : devices' = Only(devices, kept)
  BY <1>5, RemovingIs, ActorsAre DEF AppRemoves
<1>6. ASSUME NEW i \in DOMAIN devices, Ages(i)
      PROVE  /\ DOMAIN devices' = DOMAIN devices
             /\ \A j \in DOMAIN devices :
                  devices'[j].id = devices[j].id /\ devices'[j].ip = devices[j].ip
  BY <1>6, AgingIs
<1>7. CASE \/ Stopped \/ Start \/ Started \/ Stop \/ TriggerScan \/ AppGoesOn \/ UNCHANGED discoveryVars
           \/ (\E t \in Actors : Announce(t)) \/ (\E tv \in TVs : Switch(tv))
  BY <1>7 DEF Stopped, Start, Started, Stop, TriggerScan, AppGoesOn, discoveryVars, Announce, Switch, list
<1> QED
  BY <1>2, <1>3, <1>4, <1>5, <1>6, <1>7 DEF EngineStep, Works, Environment

\* So where every TV keeps its address no step brings a TV in twice.
LEMMA ListStep ==
  ASSUME KeepsAddress, ListInv, EngineStep
  PROVE  ListInv'
<1> USE DEF ListInv
<1>1. ThreadInv'
  BY ThreadStep
<1>2. devices \in Seq(Entry) /\ AllBelong(devices) /\ NoTwice(devices)
  BY DEF ThreadInv, ListType, Placed, UniqueEntries, AllBelong, NoTwice
<1>3. AllBelong(devices') /\ NoTwice(devices')
  <2>1. ASSUME NEW kept \in SUBSET DOMAIN devices, devices' = Only(devices, kept)
        PROVE  AllBelong(devices') /\ NoTwice(devices')
    BY <1>2, <2>1, OnlyOnce
  <2>2. ASSUME NEW d \in Entry, devices' = Merged(devices, d), Belongs(d.id, d.ip)
        PROVE  AllBelong(devices') /\ NoTwice(devices')
    BY <1>2, <2>2, MergedOnce
  <2>3. CASE /\ DOMAIN devices' = DOMAIN devices
             /\ \A j \in DOMAIN devices :
                  devices'[j].id = devices[j].id /\ devices'[j].ip = devices[j].ip
    BY <1>2, <2>3 DEF AllBelong, NoTwice
  <2> QED
    BY <1>2, <2>1, <2>2, <2>3, ListChanges
<1>4. Placed'
  <2>1. /\ \A tv \in TVs : where'[tv] # None => where'[tv] \in Leases[tv]
        /\ \A packet \in inbox' : Belongs(packet.id, packet.ip)
    BY PlacedOnTheNetwork
  <2> QED
    BY <1>3, <2>1 DEF Placed, AllBelong
<1>5. UniqueEntries'
  BY <1>3 DEF UniqueEntries, NoTwice
<1> QED
  BY <1>1, <1>4, <1>5

\* For any number of TVs and probes that keep their addresses: the mDNS loop,
\* the probes, the sweeps and the user, under different ids for one TV, never
\* list a TV twice (AddOrUpdateDevice).
THEOREM UniqueEntriesAlways == ASSUME KeepsAddress PROVE Spec => []UniqueEntries
<1>1. Init => ListInv
  <2> SUFFICES ASSUME Init PROVE ListInv
    OBVIOUS
  <2>1. ThreadInv
    BY ThreadInit
  <2>2. \A tv \in TVs : where[tv] # None => where[tv] \in Leases[tv]
    BY DEF Init, DiscoveryInit
  <2>3. inbox = {} /\ devices = <<>>
    BY DEF Init, DiscoveryInit
  <2> QED
    BY <2>1, <2>2, <2>3 DEF ListInv, Placed, UniqueEntries
<1>2. ListInv /\ [Next]_vars => ListInv'
  BY ListStep, StepsOfTheEngine
<1>3. ListInv => UniqueEntries
  BY DEF ListInv
<1> QED
  BY <1>1, <1>2, <1>3, PTL DEF Spec

-----------------------------------------------------------------------------
(* The windows' operators.                                                   *)

\* The ids of two lists one after the other.
LEMMA ListedConcat ==
  ASSUME NEW X, NEW s \in Seq(X), NEW r \in Seq(X)
  PROVE  Listed(s \o r) = Listed(s) \cup Listed(r)
<1>1. /\ DOMAIN s = 1..Len(s) /\ DOMAIN r = 1..Len(r) /\ DOMAIN (s \o r) = 1..(Len(s) + Len(r))
      /\ Len(s) \in Nat /\ Len(r) \in Nat
      /\ \A i \in 1..Len(s) : (s \o r)[i] = s[i]
      /\ \A i \in 1..Len(r) : (s \o r)[Len(s) + i] = r[i]
  OBVIOUS
<1> DEFINE q == s \o r
<1> HIDE DEF q
<1>2. ASSUME NEW i \in DOMAIN q PROVE q[i].id \in Listed(s) \cup Listed(r)
  <2>1. CASE i <= Len(s)
    BY <1>1, <2>1 DEF Listed, q
  <2>2. CASE i > Len(s)
    <3>1. i - Len(s) \in 1..Len(r) /\ q[Len(s) + (i - Len(s))] = r[i - Len(s)] /\ Len(s) + (i - Len(s)) = i
      BY <1>1, <2>2 DEF q
    <3> QED
      BY <1>1, <3>1 DEF Listed
  <2> QED
    BY <1>1, <1>2, <2>1, <2>2 DEF q
<1>3. ASSUME NEW i \in DOMAIN s PROVE s[i].id \in Listed(q)
  BY <1>1 DEF Listed, q
<1>4. ASSUME NEW i \in DOMAIN r PROVE r[i].id \in Listed(q)
  <2>1. Len(s) + i \in DOMAIN q /\ q[Len(s) + i] = r[i]
    BY <1>1 DEF q
  <2> QED
    BY <2>1 DEF Listed
<1>5. Listed(q) = Listed(s) \cup Listed(r)
  BY <1>2, <1>3, <1>4 DEF Listed
<1> QED
  BY <1>5 DEF q

\* A finite set as a sequence.
LEMMA SetToSeqIs ==
  ASSUME NEW S, IsFiniteSet(S)
  PROVE  /\ SetToSeq(S) \in Seq(S)
         /\ \A x \in S : \E i \in DOMAIN SetToSeq(S) : SetToSeq(S)[i] = x
<1> DEFINE n == Cardinality(S)
           f == SetToSeq(S)
<1>1. n \in Nat /\ ExistsBijection(1..n, S)
  BY FS_CardinalityType
<1>2. \E g \in [1..n -> S] : IsInjective(g)
  BY <1>1 DEF ExistsBijection, Bijection, Injection
<1>3. f \in [1..n -> S] /\ IsInjective(f)
  BY <1>2 DEF SetToSeq
<1> HIDE DEF f
<1>4. f \in Injection(1..n, S)
  BY <1>3 DEF Injection
<1>5. IsFiniteSet(1..n) /\ Cardinality(1..n) = n
  BY <1>1, FS_Interval
<1> HIDE DEF n
<1>6. f \in Surjection(1..n, S)
  <2>1. Cardinality(1..n) = Cardinality(S)
    BY <1>5 DEF n
  <2> QED
    BY <1>4, <2>1, FS_Injection
<1>7. f \in Seq(S) /\ DOMAIN f = 1..n
  BY <1>1, <1>3
<1>8. \A x \in S : \E i \in DOMAIN f : f[i] = x
  BY <1>6, <1>7 DEF Surjection
<1> QED
  BY <1>7, <1>8 DEF f

\* Whom the GTK window prefers in a list is in the list.
LEMMA PreferredIs ==
  ASSUME NEW ds \in Seq(Shown), ds # <<>>, NEW id, NEW ip
  PROVE  Preferred(ds, id, ip) \in Listed(ds)
<1> DEFINE byId == {i \in DOMAIN ds : ds[i].id = id}
           byIp == {i \in DOMAIN ds : ds[i].ip = ip}
           i == IF byId # {} THEN First(byId) ELSE IF byIp # {} THEN First(byIp) ELSE 1
<1>1. byId \in SUBSET Nat /\ byIp \in SUBSET Nat /\ 1 \in DOMAIN ds
  OBVIOUS
<1>2. byId # {} => First(byId) \in byId
  <2> HIDE DEF byId
  <2> QED
    BY <1>1, FirstIsLeast
<1>3. byIp # {} => First(byIp) \in byIp
  <2> HIDE DEF byIp
  <2> QED
    BY <1>1, FirstIsLeast
<1>4. byId \subseteq DOMAIN ds /\ byIp \subseteq DOMAIN ds
  OBVIOUS
<1>5. i \in DOMAIN ds
  <2> HIDE DEF byId, byIp
  <2> QED
    BY <1>1, <1>2, <1>3, <1>4
<1>6. Preferred(ds, id, ip) = ds[i].id
  BY DEF Preferred
<1> HIDE DEF i
<1> QED
  BY <1>5, <1>6 DEF Listed

LEMMA ChoiceIs ==
  ASSUME NEW ds \in Seq(Shown), NEW sel, NEW last
  PROVE  Choice(ds, sel, last) \in {None} \cup Listed(ds)
BY PreferredIs DEF Choice

\* Ids of a list.
LEMMA ListedIds ==
  ASSUME NEW ds \in Seq(Shown \cup Item)
  PROVE  Listed(ds) \subseteq Ids
<1>1. \A i \in DOMAIN ds : ds[i] \in Shown \cup Item
  OBVIOUS
<1> QED
  BY <1>1 DEF Listed, Shown, Item

\* A refresh leaves the window with the engine's list and a selection in it, or
\* the one asked for.
LEMMA RefreshingIs ==
  ASSUME ListType, WindowType, NEW sel \in Ids \cup {None}, NEW last, RefreshDevices(sel, last)
  PROVE  /\ shownList' = Listing(devices) /\ shownList' \in Seq(Shown)
         /\ selected' \in {sel, None} \cup Listed(shownList')
         /\ selected' \in Ids \cup {None} /\ row' \in Ids \cup {None}
<1> DEFINE ds == Listing(devices)
<1>1. ds \in Seq(Shown)
  BY ListingIs DEF ListType
<1> HIDE DEF ds
<1>2. CASE ds = shownList /\ ds # <<>>
  BY <1>1, <1>2 DEF RefreshDevices, WindowType, ds
<1>3. CASE ~(ds = shownList /\ ds # <<>>)
  <2>1. shownList' = ds /\ selected' = Choice(ds, sel, last) /\ row' = selected'
    BY <1>3 DEF RefreshDevices, ds
  <2>2. Choice(ds, sel, last) \in {None} \cup Listed(ds)
    BY <1>1, ChoiceIs
  <2>3. Listed(ds) \subseteq Ids
    <3>1. ds \in Seq(Shown \cup Item)
      BY <1>1, SeqMonotonic
    <3> QED
      BY <3>1, ListedIds
  <2> QED
    BY <1>1, <2>1, <2>2, <2>3 DEF ds
<1> QED
  BY <1>2, <1>3

\* An update changes no id.
LEMMA UpdatedIs ==
  ASSUME NEW incoming \in Seq(Item), NEW item \in Item
  PROVE  Updated(item, incoming) \in Item /\ Updated(item, incoming).id = item.id
<1> DEFINE same == {i \in DOMAIN incoming : incoming[i].id = item.id}
           n == Len(incoming)
           mirror == {n - i : i \in same}
<1>1. n \in Nat /\ DOMAIN incoming = 1..n /\ \A i \in DOMAIN incoming : incoming[i] \in Item
  OBVIOUS
<1>2. CASE same = {}
  BY <1>2 DEF Updated
<1>3. CASE same # {}
  <2>1. \A i \in same : n - i \in Nat
    BY <1>1
  <2>2. mirror \in SUBSET Nat /\ mirror # {}
    BY <1>3, <2>1
  <2>3. First(mirror) \in mirror /\ \A d \in mirror : First(mirror) <= d
    <3> HIDE DEF mirror
    <3> QED
      BY <2>2, FirstIsLeast
  <2>4. PICK i \in same : First(mirror) = n - i
    BY <2>3
  <2>5. \A j \in same : n - i <= n - j
    BY <2>3, <2>4
  <2>6. \A j \in same : j <= i
    <3>1. \A j \in same : j \in Nat
      BY <1>1
    <3> QED
      BY <1>1, <2>5, <3>1
  <2> DEFINE k == CHOOSE l \in same : \A j \in same : j <= l
  <2>7. k \in same
    <3> HIDE DEF same
    <3> QED
      BY <2>6
  <2>8. Updated(item, incoming) = incoming[k]
    BY <1>3 DEF Updated
  <2> HIDE DEF k
  <2> QED
    BY <1>1, <2>7, <2>8
<1> QED
  BY <1>2, <1>3

\* The collection rebuilt lists what came in.
LEMMA RebuiltIs ==
  ASSUME NEW incoming \in Seq(Item), shownList \in Seq(Item)
  PROVE  Rebuilt(incoming) \in Seq(Item) /\ Listed(Rebuilt(incoming)) = Listed(incoming)
<1> DEFINE stay == {i \in DOMAIN shownList : shownList[i].id \in Listed(incoming)}
           kept == Only(shownList, stay)
           come == {i \in DOMAIN incoming :
                      /\ incoming[i].id \notin Listed(kept)
                      /\ \A j \in 1..(i - 1) : incoming[j].id # incoming[i].id}
           new == Only(incoming, come)
           all == kept \o new
<1>0. DOMAIN incoming = 1..Len(incoming) /\ Len(incoming) \in Nat
  OBVIOUS
<1>1. kept \in Seq(Item) /\ Listed(kept) = {shownList[i].id : i \in stay}
  <2>1. stay \in SUBSET DOMAIN shownList
    OBVIOUS
  <2> HIDE DEF stay
  <2> QED
    BY <2>1, OnlyEntries, OnlyListed
<1>2. Listed(kept) \subseteq Listed(incoming)
  BY <1>1
<1> HIDE DEF kept
<1>3. new \in Seq(Item) /\ Listed(new) = {incoming[i].id : i \in come}
  <2>1. come \in SUBSET DOMAIN incoming
    OBVIOUS
  <2> HIDE DEF come
  <2> QED
    BY <2>1, OnlyEntries, OnlyListed
<1>4. Listed(incoming) \subseteq Listed(kept) \cup Listed(new)
  <2> SUFFICES ASSUME NEW i \in DOMAIN incoming, incoming[i].id \notin Listed(kept)
               PROVE  incoming[i].id \in Listed(new)
    BY DEF Listed
  <2> DEFINE S == {j \in DOMAIN incoming : incoming[j].id = incoming[i].id}
             f == First(S)
  <2>1. S \in SUBSET Nat /\ S # {}
    OBVIOUS
  <2>2. f \in S /\ \A j \in S : f <= j
    <3> HIDE DEF S
    <3> QED
      BY <2>1, FirstIsLeast
  <2> HIDE DEF f
  <2>3. \A j \in 1..(f - 1) : incoming[j].id # incoming[f].id
    <3> SUFFICES ASSUME NEW j \in 1..(f - 1), incoming[j].id = incoming[f].id PROVE FALSE
      OBVIOUS
    <3>1. f \in 1..Len(incoming) /\ incoming[f].id = incoming[i].id
      BY <1>0, <2>2
    <3>2. j \in S /\ ~(f <= j)
      BY <1>0, <3>1
    <3> QED
      BY <2>2, <3>2
  <2>4. f \in come
    BY <2>2, <2>3
  <2> QED
    BY <1>3, <2>2, <2>4
<1>5. Listed(new) \subseteq Listed(incoming)
  BY <1>3 DEF Listed
<1> HIDE DEF new
<1>6. all \in Seq(Item) /\ Listed(all) = Listed(kept) \cup Listed(new)
  <2>1. kept \o new \in Seq(Item)
    BY ONLY <1>1, <1>3
  <2>2. Listed(kept \o new) = Listed(kept) \cup Listed(new)
    BY ONLY <1>1, <1>3, ListedConcat
  <2> QED
    BY <2>1, <2>2
<1>7. Listed(all) = Listed(incoming)
  BY <1>2, <1>4, <1>5, <1>6
<1>8. Rebuilt(incoming) = [i \in DOMAIN all |-> Updated(all[i], incoming)]
  BY DEF Rebuilt, kept, new
<1> HIDE DEF all
<1>9. \A i \in DOMAIN all : all[i] \in Item
  BY <1>6
<1>10. \A i \in DOMAIN all : Updated(all[i], incoming) \in Item /\ Updated(all[i], incoming).id = all[i].id
  BY <1>9, UpdatedIs
<1>11. Rebuilt(incoming) \in Seq(Item)
  <2>1. DOMAIN all = 1..Len(all) /\ Len(all) \in Nat
    BY <1>6
  <2> QED
    BY <1>8, <1>10, <2>1
<1>12. Listed(Rebuilt(incoming)) = Listed(all)
  <2> DEFINE q == Rebuilt(incoming)
  <2>1. DOMAIN q = DOMAIN all /\ \A i \in DOMAIN all : q[i].id = all[i].id
    BY <1>8, <1>10
  <2> HIDE DEF q
  <2>2. Listed(q) = Listed(all)
    BY <2>1 DEF Listed
  <2> QED
    BY <2>2 DEF q
<1> QED
  BY <1>7, <1>11, <1>12

\* The typed addresses as rows.
LEMMA TypedIs ==
  ASSUME NEW M \in SUBSET Addresses, IsFiniteSet(M)
  PROVE  /\ SetToSeq({[id |-> a, ip |-> a] : a \in M}) \in Seq(Item)
         /\ Listed(SetToSeq({[id |-> a, ip |-> a] : a \in M})) = M
<1> DEFINE S == {[id |-> a, ip |-> a] : a \in M}
           f == [a \in M |-> [id |-> a, ip |-> a]]
           q == SetToSeq(S)
<1>1. f \in Surjection(M, S)
  BY DEF Surjection
<1>2. IsFiniteSet(S)
  BY <1>1, FS_Surjection
<1>3. S \subseteq Item
  BY DEF Item, Ids
<1>4. (\A x \in S : x.id \in M) /\ \A a \in M : \E x \in S : x.id = a
  <2>1. \A a \in M : [id |-> a, ip |-> a] \in S /\ [id |-> a, ip |-> a].id = a
    OBVIOUS
  <2>2. \A x \in S : \E a \in M : x = [id |-> a, ip |-> a]
    OBVIOUS
  <2>3. \A x \in S : x.id \in M
    BY <2>2
  <2> HIDE DEF S
  <2> QED
    BY <2>1, <2>3
<1> HIDE DEF S
<1>5. q \in Seq(S) /\ \A x \in S : \E i \in DOMAIN q : q[i] = x
  BY <1>2, SetToSeqIs
<1> HIDE DEF q
<1>6. q \in Seq(Item)
  BY <1>3, <1>5, SeqMonotonic
<1>7. \A i \in DOMAIN q : q[i] \in S
  BY <1>5
<1>8. Listed(q) = M
  BY <1>4, <1>5, <1>7 DEF Listed
<1> QED
  BY <1>6, <1>8 DEF q, S

\* Whom the WinUI window selects is in its list.
LEMMA ReselectedIs ==
  ASSUME NEW items \in Seq(Item)
  PROVE  Reselected(items) \in {None} \cup Listed(items)
<1> DEFINE old == {i \in DOMAIN shownList : shownList[i].id = selected}
           sameIp == {i \in DOMAIN items : \E j \in old : items[i].ip = shownList[j].ip}
<1>1. CASE items = <<>>
  BY <1>1 DEF Reselected
<1>2. CASE items # <<>>
  <2>1. 1 \in DOMAIN items /\ sameIp \subseteq DOMAIN items /\ sameIp \in SUBSET Nat
    BY <1>2
  <2>2. sameIp # {} => First(sameIp) \in sameIp
    <3> HIDE DEF sameIp
    <3> QED
      BY <2>1, FirstIsLeast
  <2> DEFINE i == IF sameIp # {} THEN First(sameIp) ELSE 1
  <2>3. i \in DOMAIN items
    <3> HIDE DEF sameIp
    <3> QED
      BY <2>1, <2>2
  <2>4. Reselected(items) = IF selected \in Listed(items) THEN selected ELSE items[i].id
    BY <1>2 DEF Reselected
  <2> HIDE DEF i
  <2> QED
    BY <2>3, <2>4 DEF Listed
<1> QED
  BY <1>1, <1>2

\* ApplyDevices ends with what it read, the typed addresses none of it covers,
\* and a selection among both.
LEMMA AppliedIs ==
  ASSUME WindowType, WinApplied
  PROVE  /\ manual' = StillManual(reading.incoming) /\ manual' \subseteq manual /\ IsFiniteSet(manual')
         /\ shownList' \in Seq(Item) /\ Listed(shownList') = Listed(reading.incoming) \cup manual'
         /\ selected' \in {None} \cup Listed(shownList') /\ saved' \in {saved, None}
<1>0. /\ shownList \in Seq(Item) /\ reading.incoming \in Seq(Item)
      /\ manual \in SUBSET Addresses /\ IsFiniteSet(manual)
  BY DEF WindowType, WinApplied, Win
<1>1. manual' = StillManual(reading.incoming) /\ manual' \in SUBSET manual
  BY DEF WinApplied, StillManual
<1>2. IsFiniteSet(manual') /\ manual' \in SUBSET Addresses
  BY <1>0, <1>1, FS_Subset
<1> DEFINE typed == SetToSeq({[id |-> a, ip |-> a] : a \in manual'})
<1>3. typed \in Seq(Item) /\ Listed(typed) = manual'
  BY <1>2, TypedIs
<1>4. shownList' = Rebuilt(reading.incoming \o typed)
  BY DEF WinApplied
<1> HIDE DEF typed
<1>5. reading.incoming \o typed \in Seq(Item)
  BY <1>0, <1>3
<1>6. Listed(reading.incoming \o typed) = Listed(reading.incoming) \cup manual'
  BY <1>0, <1>3, ListedConcat
<1>7. shownList' \in Seq(Item) /\ Listed(shownList') = Listed(reading.incoming) \cup manual'
  BY <1>0, <1>4, <1>5, <1>6, RebuiltIs
<1>8. Reselected(shownList') \in {None} \cup Listed(shownList')
  BY <1>7, ReselectedIs
<1>9. selected' \in {None} \cup Listed(shownList') /\ saved' \in {saved, None}
  BY <1>8 DEF WinApplied
<1> QED
  BY <1>1, <1>2, <1>7, <1>9

\* Reading one index of the copy.
LEMMA ReadingIs ==
  ASSUME NEW r \in [count : Nat, next : Nat, incoming : Seq(Item)], cached \in Seq(Shown)
  PROVE  /\ GetDeviceInfo(r) \in [count : Nat, next : Nat, incoming : Seq(Item)]
         /\ GetDeviceInfo(r).count = r.count /\ GetDeviceInfo(r).next = r.next + 1
         /\ GetDeviceInfo(r).incoming = IF r.next \in DOMAIN cached
                                          THEN Append(r.incoming, AsCached(r.next)) ELSE r.incoming
<1> DEFINE more == IF r.next \in DOMAIN cached THEN Append(r.incoming, AsCached(r.next)) ELSE r.incoming
<1>1. ASSUME r.next \in DOMAIN cached PROVE AsCached(r.next) \in Item
  <2>1. cached[r.next] \in Shown
    BY <1>1
  <2> QED
    BY <2>1 DEF AsCached, Shown, Item
<1>2. more \in Seq(Item)
  BY <1>1
<1>3. GetDeviceInfo(r) = [r EXCEPT !.next = @ + 1, !.incoming = more]
  BY DEF GetDeviceInfo, AsCached
<1> HIDE DEF more
<1> DEFINE q == [r EXCEPT !.next = @ + 1, !.incoming = more]
<1>4. q \in [count : Nat, next : Nat, incoming : Seq(Item)]
  <2>1. r.next + 1 \in Nat
    OBVIOUS
  <2> QED
    BY ONLY <1>2, <2>1, r \in [count : Nat, next : Nat, incoming : Seq(Item)]
<1>5. q.count = r.count /\ q.next = r.next + 1 /\ q.incoming = more
  OBVIOUS
<1> QED
  BY <1>3, <1>4, <1>5 DEF more

-----------------------------------------------------------------------------
(* What the windows show.                                                    *)

\* Only an announcement makes a change of the list one that nobody has to
\* announce.
LEMMA UnannouncedIs ==
  ASSUME ThreadInv, Works, \A t \in Actors : copy'[t] = None
  PROVE  Listing(devices') = Listing(devices) /\ \A t \in Actors : copy[t] = None
<1> USE DEF ThreadInv
<1>1. ASSUME NEW t \in Actors, Changed(t) PROVE devices' = devices /\ copy' = copy
  BY <1>1 DEF Changed
<1>2. CASE Loop
  BY <1>1, <1>2, LoopSteps, ActorsAre
<1>3. ASSUME NEW p \in Probers, Probe(p) PROVE devices' = devices /\ copy' = copy
  BY <1>1, <1>3, ProbeSteps, ActorsAre
<1>4. ASSUME NEW a \in Addresses, NEW custom \in BOOLEAN, AppAdds(a, custom) PROVE FALSE
  <2>1. Device(a, a, custom) \in Entry
    BY DeviceIs DEF Ids
  <2> QED
    BY <1>4, <2>1, AddingIs, ActorsAre DEF AppAdds
<1>5. ASSUME NEW id, AppRemoves(id) PROVE devices' = devices /\ copy' = copy
  BY <1>1, <1>5, RemovingIs, ActorsAre DEF AppRemoves
<1>6. CASE Environment
  <2>1. ASSUME NEW i \in DOMAIN devices, Ages(i) PROVE Listing(devices') = Listing(devices) /\ copy' = copy
    BY <2>1, AgingIs
  <2>2. ASSUME NEW tv \in TVs, Switch(tv) PROVE devices' = devices /\ copy' = copy
    BY <2>2 DEF Switch, list
  <2> QED
    BY <1>6, <2>1, <2>2 DEF Environment
<1>7. CASE Stopped \/ Start \/ Started \/ Stop \/ TriggerScan \/ AppGoesOn \/ UNCHANGED discoveryVars
  BY <1>7 DEF Stopped, Start, Started, Stop, TriggerScan, AppGoesOn, discoveryVars, list
<1> QED
  BY <1>2, <1>3, <1>4, <1>5, <1>6, <1>7 DEF Works

\* The setting is read once.
LEMMA SettingStays == ASSUME EngineStep PROVE scanEnabled' = scanEnabled
BY DEF EngineStep, Works, Loop, LoopTop, LoopEnds, LoopReceives, LoopReadsNothing, LoopRecords, Stopped, Start, Started, Stop,
       Environment, Ages, Switch, TriggerScan, AppGoesOn, discoveryVars, Announce, AppAdds, AppRemoves,
       Probe, ProbeBatch, ProbeBatchEnds, ProbeConnects, ProbeAdds, ProbeUnchanged

\* What no step of a window changes stays as it is.
LEMMA WindowRests ==
  ASSUME WindowInv, UNCHANGED <<pickerVars, scanEnabled>>, app' = "added" => app = "added",
         Gtk => Works, ThreadInv'
  PROVE  WindowInv'
<1> USE DEF WindowInv
<1>1. UNCHANGED <<frontEnd, posts, shownList, selected, row, saved, adding, cached, calling, manual, reading>>
  BY DEF pickerVars, gtkVars, winVars
<1>2. WindowType' /\ AddsAddress' /\ Selectable' /\ SelectsNothing'
  BY <1>1 DEF WindowType, AddsAddress, Selectable, SelectsNothing, Cli
<1>3. ReadsCached' /\ WinShows'
  BY <1>1 DEF ReadsCached, WinShows, AsCached, Settled, AskedFor, Win
<1>4. GtkShows'
  <2> SUFFICES ASSUME Gtk', \A t \in Actors : copy'[t] = None, posts' = <<>>
               PROVE  shownList' = Listing(devices')
    BY DEF GtkShows
  <2>1. Gtk
    BY <1>1 DEF Gtk
  <2>2. Listing(devices') = Listing(devices) /\ \A t \in Actors : copy[t] = None
    BY <2>1, UnannouncedIs
  <2> QED
    BY <1>1, <2>1, <2>2 DEF GtkShows
<1> QED
  BY <1>2, <1>3, <1>4

\* A step of the GTK window.
GtkMoves == GtkAnnounced \/ GtkNext \/ \E t \in Actors : GtkPosted(t)

LEMMA GtkStep ==
  ASSUME WindowInv, GtkMoves, scanEnabled' = scanEnabled, ThreadInv'
  PROVE  WindowInv'
<1> USE DEF WindowInv
<1>0. Gtk /\ frontEnd = "gtk" /\ shownList \in Seq(Shown) /\ ListType
  BY DEF GtkMoves, GtkAnnounced, GtkNext, GtkPosted, GtkRefresh, GtkRescan, GtkSelect, GtkAdded, GtkRemove,
         GtkRemoved, GtkAdd, Gtk, WindowType, ThreadInv
<1>1. ASSUME frontEnd' = frontEnd, UNCHANGED winVars, posts' \in {posts, <<>>, << 0 >>},
             selected' \in Ids \cup {None}, row' \in Ids \cup {None}, saved' \in Item \cup {None},
             adding' \in Ids \cup {None}, AddsAddress', shownList' \in Seq(Shown), GtkShows', Selectable'
      PROVE  WindowInv'
  <2>1. WindowType'
    <3>1. UNCHANGED <<cached, calling, manual, reading>>
      BY <1>1 DEF winVars
    <3>2. posts' \in Seq(Nat) /\ Len(posts') <= MaxPosts
      <4>1. /\ posts \in Seq(Nat) /\ Len(posts) <= MaxPosts /\ MaxPosts \in Nat /\ 1 <= MaxPosts
            /\ posts' \in {posts, <<>>, <<0>>}
        BY <1>1, PickerAssumption DEF WindowType
      <4>2. CASE posts' = <<>>
        BY ONLY <4>1, <4>2
      <4>3. CASE posts' = <<0>>
        BY ONLY <4>1, <4>3
      <4> QED
        BY <4>1, <4>2, <4>3
    <3> QED
      BY <1>0, <1>1, <3>1, <3>2 DEF WindowType
  <2>2. ~Win' /\ ~Cli'
    BY <1>0, <1>1 DEF Win, Cli
  <2>3. ReadsCached' /\ WinShows' /\ SelectsNothing'
    BY <2>2 DEF ReadsCached, WinShows, Settled, SelectsNothing
  <2> QED
    BY <1>1, <2>1, <2>3
<1>2. ASSUME NEW sel \in Ids \cup {None}, NEW last, RefreshDevices(sel, last), devices' = devices,
             sel \in {selected, None} \cup Addresses
      PROVE  /\ selected' \in Ids \cup {None} /\ row' \in Ids \cup {None}
             /\ shownList' \in Seq(Shown) /\ GtkShows' /\ Selectable'
  <2>1. /\ shownList' = Listing(devices) /\ shownList' \in Seq(Shown)
        /\ selected' \in {sel, None} \cup Listed(shownList')
        /\ selected' \in Ids \cup {None} /\ row' \in Ids \cup {None}
    BY <1>0, <1>2, RefreshingIs
  <2>2. GtkShows'
    BY <1>2, <2>1 DEF GtkShows
  <2>3. Selectable'
    <3>1. CASE selected' \in {None} \cup Addresses \cup Listed(shownList')
      BY <3>1 DEF Selectable
    <3>2. CASE selected' = selected /\ selected \in Listed(shownList)
      <4>1. CASE shownList' = shownList
        BY <3>2, <4>1 DEF Selectable
      <4>2. CASE shownList' # shownList
        <5>1. selected' = Choice(Listing(devices), sel, last)
          BY <1>2, <4>2 DEF RefreshDevices
        <5>2. selected' \in {None} \cup Listed(shownList')
          BY <1>0, <2>1, <5>1, ChoiceIs
        <5> QED
          BY <5>2 DEF Selectable
      <4> QED
        BY <4>1, <4>2
    <3> QED
      BY <1>2, <2>1, <3>1, <3>2 DEF Selectable
  <2> QED
    BY <2>1, <2>2, <2>3
<1>3. ASSUME UNCHANGED <<shownList, posts>>, frontEnd' = frontEnd, Works PROVE GtkShows'
  <2> SUFFICES ASSUME \A t \in Actors : copy'[t] = None, posts' = <<>>
               PROVE  shownList' = Listing(devices')
    BY DEF GtkShows
  <2>1. Listing(devices') = Listing(devices) /\ \A t \in Actors : copy[t] = None
    BY <1>3, UnannouncedIs
  <2> QED
    BY <1>0, <1>3, <2>1 DEF GtkShows
<1>4. CASE GtkAnnounced
  <2>1. /\ devices' = devices /\ app' = app /\ RefreshDevices(selected, saved)
        /\ UNCHANGED <<frontEnd, posts, saved, adding, winVars>>
    BY <1>4 DEF GtkAnnounced, Announce, list
  <2>2. selected \in Ids \cup {None}
    BY DEF WindowType
  <2> QED
    BY <1>1, <1>2, <2>1, <2>2 DEF WindowType, AddsAddress
<1>5. CASE GtkRefresh
  <2>1. /\ devices' = devices /\ app' = app /\ RefreshDevices(selected, saved) /\ posts' = <<>>
        /\ UNCHANGED <<frontEnd, saved, adding, winVars>>
    BY <1>5 DEF GtkRefresh, discoveryVars, list
  <2>2. selected \in Ids \cup {None}
    BY DEF WindowType
  <2> QED
    BY <1>1, <1>2, <2>1, <2>2 DEF WindowType, AddsAddress
<1>6. CASE GtkRescan \/ \E t \in Actors : GtkPosted(t)
  <2>1. /\ app' = app /\ posts' = <<0>>
        /\ UNCHANGED <<frontEnd, shownList, selected, row, saved, adding, winVars>>
    BY <1>6 DEF GtkRescan, TriggerScan, GtkPosted, Announce, gtkVars
  <2>2. GtkShows'
    BY <2>1 DEF GtkShows
  <2>3. AddsAddress' /\ Selectable'
    BY <2>1 DEF AddsAddress, Selectable
  <2> QED
    BY <1>0, <1>1, <2>1, <2>2, <2>3 DEF WindowType
<1>7. CASE GtkSelect
  <2>1. PICK i \in DOMAIN shownList :
          /\ selected' = shownList[i].id /\ row' = shownList[i].id
          /\ saved' = [id |-> shownList[i].id, ip |-> shownList[i].ip]
    BY <1>7 DEF GtkSelect
  <2>2. shownList[i] \in Shown
    BY <1>0
  <2>3. selected' \in Ids /\ row' \in Ids /\ saved' \in Item
    BY <2>1, <2>2 DEF Shown, Item
  <2>4. UNCHANGED <<discoveryVars, frontEnd, posts, shownList, adding, winVars>>
    BY <1>7 DEF GtkSelect
  <2>5. app' = app /\ Works
    BY <2>4 DEF discoveryVars, Works
  <2>6. GtkShows'
    BY <1>3, <2>4, <2>5
  <2>7. AddsAddress' /\ Selectable'
    BY <2>1, <2>4, <2>5 DEF AddsAddress, Selectable, Listed
  <2> QED
    BY <1>0, <1>1, <2>3, <2>4, <2>6, <2>7 DEF WindowType
<1>8. ASSUME NEW a \in Addresses, GtkAdd(a) PROVE WindowInv'
  <2>1. /\ adding' = a /\ app' = "added" /\ AppAdds(a, TRUE)
        /\ UNCHANGED <<frontEnd, posts, shownList, selected, row, saved, winVars>>
    BY <1>8 DEF GtkAdd, AppAdds
  <2>2. Works
    BY <2>1 DEF Works
  <2>3. GtkShows'
    BY <1>3, <2>1, <2>2
  <2>4. AddsAddress' /\ Selectable'
    BY <2>1 DEF AddsAddress, Selectable
  <2> QED
    BY <1>0, <1>1, <2>1, <2>3, <2>4 DEF WindowType, Ids
<1>9. CASE GtkAdded
  <2>1. /\ devices' = devices /\ app = "added" /\ app' = "idle" /\ adding' = None
        /\ saved' = [id |-> adding, ip |-> adding] /\ RefreshDevices(adding, saved')
        /\ UNCHANGED <<frontEnd, posts, winVars>>
    BY <1>9 DEF GtkAdded, list
  <2>2. adding \in Addresses /\ adding \in Ids \cup {None} /\ saved' \in Item
    BY <2>1 DEF AddsAddress, Item, Ids
  <2>3. /\ selected' \in Ids \cup {None} /\ row' \in Ids \cup {None}
        /\ shownList' \in Seq(Shown) /\ GtkShows' /\ Selectable'
    BY <1>2, <2>1, <2>2
  <2> QED
    BY <1>1, <2>1, <2>2, <2>3 DEF AddsAddress
<1>10. CASE GtkRemove
  <2>1. /\ adding' = selected /\ app' = "removed" /\ AppRemoves(selected)
        /\ UNCHANGED <<frontEnd, posts, shownList, selected, row, saved, winVars>>
    BY <1>10 DEF GtkRemove, AppRemoves
  <2>2. Works
    BY <2>1 DEF Works
  <2>3. GtkShows'
    BY <1>3, <2>1, <2>2
  <2>4. AddsAddress' /\ Selectable'
    BY <2>1 DEF AddsAddress, Selectable
  <2> QED
    BY <1>0, <1>1, <2>1, <2>3, <2>4 DEF WindowType
<1>11. CASE GtkRemoved
  <2>1. /\ devices' = devices /\ app' = "idle" /\ adding' = None
        /\ saved' \in {saved, None} /\ RefreshDevices(None, saved')
        /\ UNCHANGED <<frontEnd, posts, winVars>>
    BY <1>11 DEF GtkRemoved, list
  <2>2. /\ selected' \in Ids \cup {None} /\ row' \in Ids \cup {None}
        /\ shownList' \in Seq(Shown) /\ GtkShows' /\ Selectable'
    BY <1>2, <2>1
  <2> QED
    BY <1>1, <2>1, <2>2 DEF AddsAddress, WindowType
<1> QED
  BY <1>4, <1>5, <1>6, <1>7, <1>8, <1>9, <1>10, <1>11 DEF GtkMoves, GtkNext

\* A step of the WinUI window.
WinMoves ==
  \/ WinApply \/ WinRead \/ WinApplied \/ WinSelect
  \/ \E a \in Addresses : WinAdd(a) \/ WinRemove(a)
  \/ \E t \in Actors : WinCached(t) \/ WinPosted(t)

LEMMA WinStep ==
  ASSUME WindowInv, WinMoves, scanEnabled' = scanEnabled, ThreadInv'
  PROVE  WindowInv'
<1> USE DEF WindowInv
<1>0. /\ Win /\ Win' /\ frontEnd = "winui" /\ UNCHANGED <<frontEnd, row, adding, app>>
      /\ shownList \in Seq(Item)
  BY DEF WinMoves, WinCached, WinPosted, Announce, WinApply, WinRead, WinApplied, WinAdd, WinRemove, WinSelect,
         Win, WindowType, discoveryVars, gtkVars
<1>1. ASSUME posts' \in Seq(Nat), Len(posts') <= MaxPosts,
             selected' \in {None} \cup Addresses \cup Listed(shownList'), saved' \in {saved, None},
             manual' \subseteq Addresses, IsFiniteSet(manual'),
             cached' \in Seq(Shown), calling' \subseteq Actors, shownList' \in Seq(Item),
             reading' \in [count : Nat, next : Nat, incoming : Seq(Item)],
             reading'.next <= reading'.count + 1,
             ReadsCached', WinShows'
      PROVE  WindowInv'
  <2>1. shownList' \in Seq(Shown \cup Item)
    <3>1. shownList' \in [1..Len(shownList') -> Item] /\ Len(shownList') \in Nat
      BY <1>1
    <3> HIDE DEF Item, Shown
    <3>2. shownList' \in [1..Len(shownList') -> Shown \cup Item]
      BY <3>1
    <3> QED
      BY <3>1, <3>2
  <2>2. selected' \in Ids \cup {None}
    BY <1>1, <2>1, ListedIds DEF Ids
  <2>3. WindowType'
    BY <1>0, <1>1, <2>2 DEF WindowType
  <2>4. ~Gtk' /\ ~Cli'
    BY <1>0 DEF Gtk, Cli
  <2>5. AddsAddress' /\ GtkShows' /\ Selectable' /\ SelectsNothing'
    BY <1>0, <1>1, <2>4 DEF AddsAddress, GtkShows, Selectable, SelectsNothing
  <2> QED
    BY <1>1, <2>3, <2>5
<1>2. /\ posts \in Seq(Nat) /\ Len(posts) <= MaxPosts /\ MaxPosts \in Nat /\ 1 <= MaxPosts
      /\ selected \in {None} \cup Addresses \cup Listed(shownList)
      /\ manual \in SUBSET Addresses /\ IsFiniteSet(manual) /\ cached \in Seq(Shown)
      /\ calling \subseteq Actors
      /\ reading \in [count : Nat, next : Nat, incoming : Seq(Item)]
      /\ reading.next <= reading.count + 1
      /\ Len(cached) \in Nat /\ DOMAIN cached = 1..Len(cached)
  BY PickerAssumption DEF WindowType, Selectable
<1>10. ASSUME NEW t \in Actors, WinCached(t) PROVE WindowInv'
  <2>1. /\ UNCHANGED <<posts, shownList, selected, saved, manual, reading>>
        /\ cached' = copy[t] /\ copy[t] # None /\ calling' = calling \cup {t}
    BY <1>10 DEF WinCached, gtkVars
  <2>2. cached' \in Seq(Shown) /\ calling' \subseteq Actors /\ calling' # {}
    BY <1>2, <2>1 DEF ThreadInv, ListType
  <2>3. ReadsCached' /\ WinShows'
    BY <2>2 DEF ReadsCached, WinShows, Settled
  <2> QED
    BY <1>0, <1>1, <1>2, <2>1, <2>2, <2>3
<1>3. ASSUME NEW t \in Actors, WinPosted(t) PROVE WindowInv'
  <2>1. /\ UNCHANGED <<shownList, selected, saved, cached, manual, reading>>
        /\ calling' = calling \ {t} /\ copy[t] # None
        /\ posts' = IF Len(posts) < MaxPosts THEN Append(posts, Len(copy[t]))
                    ELSE [posts EXCEPT ![MaxPosts] = Len(copy[t])]
    BY <1>3 DEF WinPosted, Announce, gtkVars
  <2>2. Len(copy[t]) \in Nat
    BY <2>1 DEF ThreadInv, ListType
  <2>3. posts' \in Seq(Nat) /\ Len(posts') <= MaxPosts /\ posts' # <<>>
    <3>2. ASSUME NEW n \in Nat, posts' = IF Len(posts) < MaxPosts THEN Append(posts, n)
                                        ELSE [posts EXCEPT ![MaxPosts] = n]
          PROVE  posts' \in Seq(Nat) /\ Len(posts') <= MaxPosts /\ posts' # <<>>
      <4>1. posts \in Seq(Nat) /\ Len(posts) <= MaxPosts /\ MaxPosts \in Nat /\ 1 <= MaxPosts
        BY <1>2
      <4>2. CASE Len(posts) < MaxPosts
        BY ONLY <3>2, <4>1, <4>2
      <4>3. CASE ~(Len(posts) < MaxPosts)
        BY ONLY <3>2, <4>1, <4>3
      <4> QED
        BY <4>2, <4>3
    <3> QED
      BY <2>1, <2>2, <3>2
  <2>4. ReadsCached' /\ WinShows'
    BY <2>3 DEF ReadsCached, WinShows, Settled
  <2> QED
    BY <1>0, <1>1, <1>2, <2>1, <2>2, <2>3, <2>4
<1>4. CASE WinApply
  <2> DEFINE start == [count |-> Head(posts), next |-> 1, incoming |-> <<>>]
  <2>1. /\ UNCHANGED <<shownList, selected, saved, manual, cached, calling>>
        /\ reading' = IF start.count = 0 THEN start ELSE GetDeviceInfo(start)
        /\ posts # <<>> /\ posts' = Tail(posts)
    BY <1>4 DEF WinApply, gtkVars
  <2>2. start \in [count : Nat, next : Nat, incoming : Seq(Item)]
    <3>1. Head(posts) \in Nat
      BY <1>2, <2>1
    <3> QED
      BY <3>1
  <2>3. /\ start.count = Head(posts) /\ start.next = 1 /\ start.incoming = <<>>
        /\ GetDeviceInfo(start) \in [count : Nat, next : Nat, incoming : Seq(Item)]
        /\ GetDeviceInfo(start).count = start.count /\ GetDeviceInfo(start).next = start.next + 1
        /\ GetDeviceInfo(start).incoming = IF start.next \in DOMAIN cached
                                             THEN Append(start.incoming, AsCached(start.next)) ELSE start.incoming
    BY <1>2, <2>2, ReadingIs
  <2> HIDE DEF start
  <2>4. /\ reading' \in [count : Nat, next : Nat, incoming : Seq(Item)]
        /\ reading'.count = Head(posts) /\ reading'.next > 0 /\ reading'.next <= reading'.count + 1
    BY <2>1, <2>2, <2>3
  <2>5. posts' \in Seq(Nat) /\ Len(posts') = Len(posts) - 1 /\ Len(posts) > 0
    BY <1>2, <2>1
  <2>7. ReadsCached'
    <3> SUFFICES /\ Len(reading'.incoming) = IF reading'.next - 1 <= Len(cached) THEN reading'.next - 1 ELSE Len(cached)
                 /\ \A i \in DOMAIN reading'.incoming : reading'.incoming[i] = AsCached(i)
      BY <2>1 DEF ReadsCached, AsCached
    <3>1. CASE start.count = 0
      <4>1. reading'.incoming = <<>> /\ reading'.next = 1
        BY <2>1, <2>3, <3>1
      <4> QED
        BY <1>2, <4>1
    <3>2. CASE start.count # 0 /\ 1 \in DOMAIN cached
      <4>1. reading'.incoming = Append(<<>>, AsCached(1)) /\ reading'.next = 2 /\ 1 <= Len(cached)
        BY <1>2, <2>1, <2>3, <3>2
      <4>2. DOMAIN reading'.incoming = {1} /\ Len(reading'.incoming) = 1 /\ reading'.incoming[1] = AsCached(1)
        BY <4>1
      <4> QED
        BY <4>1, <4>2
    <3>3. CASE start.count # 0 /\ 1 \notin DOMAIN cached
      <4>1. reading'.incoming = <<>> /\ reading'.next = 2 /\ Len(cached) = 0
        BY <1>2, <2>1, <2>3, <3>3
      <4> QED
        BY <4>1
    <3> QED
      BY <3>1, <3>2, <3>3
  <2>8. WinShows'
    BY <2>4 DEF WinShows
  <2> QED
    BY <1>0, <1>1, <1>2, <2>1, <2>4, <2>5, <2>7, <2>8
<1>5. CASE WinRead
  <2>1. /\ UNCHANGED <<posts, shownList, selected, saved, manual, cached, calling>>
        /\ reading' = GetDeviceInfo(reading) /\ reading.next \in 1..reading.count
    BY <1>5 DEF WinRead, gtkVars
  <2>2. /\ reading' \in [count : Nat, next : Nat, incoming : Seq(Item)]
        /\ reading'.count = reading.count /\ reading'.next = reading.next + 1
        /\ reading'.incoming = IF reading.next \in DOMAIN cached
                                 THEN Append(reading.incoming, AsCached(reading.next)) ELSE reading.incoming
    BY <1>2, <2>1, ReadingIs
  <2>3. reading.next \in Nat /\ reading.count \in Nat /\ reading.incoming \in Seq(Item)
    BY <1>2
  <2>4. WinShows'
    BY <2>2, <2>3 DEF WinShows
  <2>5. ReadsCached'
    <3> SUFFICES ASSUME calling = {}, posts = <<>>
                 PROVE  /\ Len(reading'.incoming) = IF reading.next <= Len(cached) THEN reading.next ELSE Len(cached)
                        /\ \A i \in DOMAIN reading'.incoming : reading'.incoming[i] = AsCached(i)
      <4>1. reading'.next - 1 = reading.next
        BY <2>2, <2>3
      <4>2. calling' = calling /\ posts' = posts /\ cached' = cached
        BY <2>1
      <4> QED
        BY <4>1, <4>2 DEF ReadsCached, Settled, AsCached
    <3>1. /\ Len(reading.incoming) = IF reading.next - 1 <= Len(cached) THEN reading.next - 1 ELSE Len(cached)
          /\ \A i \in DOMAIN reading.incoming : reading.incoming[i] = AsCached(i)
      BY <1>0, <2>1 DEF ReadsCached, Settled
    <3> HIDE DEF AsCached
    <3>2. CASE reading.next \in DOMAIN cached
      <4>1. reading'.incoming = Append(reading.incoming, AsCached(reading.next))
        BY <2>2, <3>2
      <4>2. reading.next <= Len(cached) /\ Len(reading.incoming) = reading.next - 1
        BY <1>2, <2>3, <3>1, <3>2
      <4>3. /\ Len(reading'.incoming) = Len(reading.incoming) + 1
            /\ DOMAIN reading'.incoming = DOMAIN reading.incoming \cup {Len(reading.incoming) + 1}
            /\ reading'.incoming[Len(reading.incoming) + 1] = AsCached(reading.next)
            /\ \A i \in DOMAIN reading.incoming : reading'.incoming[i] = reading.incoming[i]
        BY ONLY <2>3, <4>1
      <4>4. Len(reading.incoming) + 1 = reading.next
        BY <2>3, <4>2
      <4> QED
        BY <3>1, <4>2, <4>3, <4>4
    <3>3. CASE reading.next \notin DOMAIN cached
      <4>1. reading'.incoming = reading.incoming /\ reading.next > Len(cached)
        BY <1>2, <2>1, <2>2, <2>3, <3>3
      <4>2. Len(reading.incoming) = Len(cached)
        BY <1>2, <2>3, <3>1, <4>1
      <4> QED
        BY <1>2, <2>3, <3>1, <4>1, <4>2
    <3> QED
      BY <3>2, <3>3
  <2> QED
    BY <1>0, <1>1, <1>2, <2>1, <2>2, <2>3, <2>4, <2>5
<1>6. CASE WinApplied
  <2>1. /\ UNCHANGED <<posts, cached, calling>> /\ reading.next = reading.count + 1
        /\ reading' = [reading EXCEPT !.next = 0, !.incoming = <<>>]
    BY <1>6 DEF WinApplied
  <2>2. /\ manual' = StillManual(reading.incoming) /\ manual' \subseteq manual /\ IsFiniteSet(manual')
        /\ shownList' \in Seq(Item) /\ Listed(shownList') = Listed(reading.incoming) \cup manual'
        /\ selected' \in {None} \cup Listed(shownList') /\ saved' \in {saved, None}
    BY <1>6, AppliedIs
  <2>3. /\ reading' \in [count : Nat, next : Nat, incoming : Seq(Item)]
        /\ reading'.next = 0 /\ reading'.count = reading.count /\ reading.count \in Nat
    <3>1. <<>> \in Seq(Item)
      OBVIOUS
    <3>2. reading \in [count : Nat, next : Nat, incoming : Seq(Item)]
      BY <1>2
    <3> QED
      BY ONLY <2>1, <3>1, <3>2
  <2>4. ReadsCached'
    BY <2>3 DEF ReadsCached
  <2>5. WinShows'
    <3> DEFINE asked == {i \in DOMAIN cached : i <= reading.count}
    <3> SUFFICES ASSUME calling = {}, posts = <<>>
                 PROVE  /\ Listed(shownList') = {cached[i].id : i \in asked} \cup manual'
                        /\ manual' \cap {cached[i].id : i \in asked} = {}
      BY <2>1, <2>3 DEF WinShows, Settled, AskedFor
    <3>1. /\ Len(reading.incoming) = IF reading.next - 1 <= Len(cached) THEN reading.next - 1 ELSE Len(cached)
          /\ \A i \in DOMAIN reading.incoming : reading.incoming[i] = AsCached(i)
      BY <1>0, <2>1, <2>3 DEF ReadsCached, Settled
    <3>2. DOMAIN reading.incoming = asked
      <4>1. DOMAIN reading.incoming = 1..Len(reading.incoming) /\ reading.next - 1 = reading.count
        BY <1>2, <2>1, <2>3
      <4> QED
        BY <1>2, <2>3, <3>1, <4>1
    <3> HIDE DEF asked
    <3>3. \A i \in asked : reading.incoming[i].id = cached[i].id
      <4>1. \A i \in asked : reading.incoming[i] = AsCached(i)
        BY <3>1, <3>2
      <4>2. \A i \in asked : AsCached(i).id = cached[i].id
        BY DEF AsCached
      <4> HIDE DEF AsCached
      <4> QED
        BY <4>1, <4>2
    <3>4. Listed(reading.incoming) = {cached[i].id : i \in asked}
      BY <3>2, <3>3 DEF Listed
    <3>5. manual' \cap Listed(reading.incoming) = {}
      BY <2>2 DEF StillManual, Listed
    <3> QED
      BY <2>2, <3>4, <3>5
  <2> QED
    BY <1>1, <1>2, <2>1, <2>2, <2>3, <2>4, <2>5
<1>7. ASSUME NEW a \in Addresses, WinAdd(a) PROVE WindowInv'
  <2>1. UNCHANGED <<posts, saved, cached, calling, reading>> /\ selected' = a
    BY <1>7 DEF WinAdd, gtkVars
  <2>2. ReadsCached' /\ AskedFor' = AskedFor
    BY <1>0, <2>1 DEF ReadsCached, Settled, AsCached, AskedFor
  <2>3. CASE a \in Listed(shownList)
    <3>1. UNCHANGED <<shownList, manual>>
      BY <1>7, <2>3 DEF WinAdd
    <3>2. WinShows'
      BY <1>0, <2>1, <2>2, <3>1 DEF WinShows, Settled
    <3> QED
      BY <1>0, <1>1, <1>2, <2>1, <2>2, <3>1, <3>2
  <2>4. CASE a \notin Listed(shownList)
    <3> DEFINE item == [id |-> a, ip |-> a]
    <3>1. shownList' = Append(shownList, item) /\ manual' = manual \cup {a}
      BY <1>7, <2>4 DEF WinAdd
    <3>2. item \in Item /\ item.id = a
      BY DEF Item, Ids
    <3> HIDE DEF item
    <3>3. shownList' \in Seq(Item)
      BY <1>0, <3>1, <3>2
    <3>4. Listed(shownList') = Listed(shownList) \cup {a}
      <4>1. /\ DOMAIN shownList' = DOMAIN shownList \cup {Len(shownList) + 1}
            /\ shownList'[Len(shownList) + 1] = item
            /\ \A i \in DOMAIN shownList : shownList'[i] = shownList[i]
        BY <1>0, <3>1
      <4> QED
        BY <3>2, <4>1 DEF Listed
    <3>5. IsFiniteSet(manual') /\ manual' \subseteq Addresses
      BY <1>2, <3>1, FS_AddElement
    <3>6. WinShows'
      BY <1>0, <2>1, <2>2, <2>4, <3>1, <3>4 DEF WinShows, Settled
    <3> QED
      BY <1>1, <1>2, <2>1, <2>2, <3>3, <3>5, <3>6
  <2> QED
    BY <2>3, <2>4
<1>8. ASSUME NEW a \in Addresses, WinRemove(a) PROVE WindowInv'
  <2> DEFINE kept == {i \in DOMAIN shownList : shownList[i].id # a}
  <2>1. /\ UNCHANGED <<posts, saved, cached, calling, reading>> /\ a \in manual /\ manual' = manual \ {a}
        /\ shownList' = Only(shownList, kept)
        /\ selected' = IF selected # a THEN selected
                       ELSE IF shownList' = <<>> THEN None ELSE shownList'[1].id
    BY <1>8 DEF WinRemove, gtkVars
  <2>2. ReadsCached' /\ AskedFor' = AskedFor
    BY <1>0, <2>1 DEF ReadsCached, Settled, AsCached, AskedFor
  <2>3. Listed(shownList) \ {a} = {shownList[i].id : i \in kept} /\ kept \in SUBSET DOMAIN shownList
    BY DEF Listed
  <2> HIDE DEF kept
  <2>4. shownList' \in Seq(Item) /\ Listed(shownList') = Listed(shownList) \ {a}
    BY <1>0, <2>1, <2>3, OnlyEntries, OnlyListed
  <2>5. IsFiniteSet(manual') /\ manual' \subseteq Addresses
    BY <1>2, <2>1, FS_RemoveElement
  <2>6. selected' \in {None} \cup Addresses \cup Listed(shownList')
    <3>1. CASE selected # a
      BY <1>2, <2>1, <2>4, <3>1
    <3>2. CASE shownList' # <<>>
      <4>1. 1 \in DOMAIN shownList'
        BY <2>4, <3>2
      <4> QED
        BY <1>2, <2>1, <3>1, <4>1 DEF Listed
    <3> QED
      BY <2>1, <3>1, <3>2
  <2>7. WinShows'
    BY <1>0, <2>1, <2>2, <2>4 DEF WinShows, Settled
  <2> QED
    BY <1>1, <1>2, <2>1, <2>2, <2>4, <2>5, <2>6, <2>7
<1>9. CASE WinSelect
  <2>1. UNCHANGED <<posts, saved, cached, calling, reading, manual, shownList>> /\ selected' \in Listed(shownList)
    BY <1>9 DEF WinSelect, gtkVars, winVars
  <2>2. ReadsCached' /\ WinShows'
    BY <1>0, <2>1 DEF ReadsCached, Settled, AsCached, AskedFor, WinShows
  <2> QED
    BY <1>0, <1>1, <1>2, <2>1, <2>2
<1> QED
  BY <1>3, <1>4, <1>5, <1>6, <1>7, <1>8, <1>9, <1>10 DEF WinMoves

\* So every step keeps what the windows show and select.
LEMMA WindowStep ==
  ASSUME WindowInv, [Next]_vars
  PROVE  WindowInv'
<1>1. ThreadInv' /\ scanEnabled' = scanEnabled
  BY StepsOfTheEngine, ThreadStep, SettingStays DEF WindowInv
<1>2. CASE UNCHANGED vars
  <2>1. UNCHANGED <<pickerVars, discoveryVars>> /\ Works /\ app' = app
    BY <1>2 DEF vars, Works, discoveryVars
  <2> QED
    BY <1>1, <2>1, WindowRests
<1>3. CASE /\ Loop \/ Stopped \/ Start \/ Started \/ (Cli /\ Stop) \/ Environment \/ \E p \in Probers : Probe(p)
           /\ UNCHANGED pickerVars
  <2>1. Works
    BY <1>3 DEF Works
  <2>2. app' \in {app, "idle", "starting", "stopping"}
    BY <1>3 DEF Loop, LoopTop, LoopEnds, LoopReceives, LoopReadsNothing, LoopRecords, Stopped, Start, Started, Stop,
                Environment, Ages, Switch, Probe, ProbeBatch, ProbeBatchEnds, ProbeConnects, ProbeAdds,
                ProbeUnchanged
  <2> QED
    BY <1>1, <1>3, <2>1, <2>2, WindowRests
<1>4. ASSUME NEW t \in Actors, Announced(t) PROVE WindowInv'
  <2>1. CASE Cli /\ Announce(t) /\ UNCHANGED pickerVars
    BY <1>1, <2>1, WindowRests DEF Announce, Cli, Gtk
  <2>2. CASE GtkPosted(t) \/ GtkAnnounced
    BY <1>1, <2>2, GtkStep DEF GtkMoves
  <2>3. CASE WinCached(t) \/ WinPosted(t)
    BY <1>1, <2>3, WinStep DEF WinMoves
  <2> QED
    BY <1>4, <2>1, <2>2, <2>3 DEF Announced
<1>5. CASE CliNext
  <2>1. app' = app /\ ~Gtk /\ UNCHANGED pickerVars
    BY <1>5 DEF CliNext, Cli, Gtk, TriggerScan
  <2> QED
    BY <1>1, <2>1, WindowRests
<1>6. CASE GtkNext
  BY <1>1, <1>6, GtkStep DEF GtkMoves
<1>7. CASE WinNext
  <2>1. CASE WinRescan \/ WinCast
    <3>1. app' = app /\ ~Gtk /\ UNCHANGED pickerVars
      BY <2>1 DEF WinRescan, WinCast, Win, Gtk, TriggerScan
    <3> QED
      BY <1>1, <3>1, WindowRests
  <2>2. CASE WinMoves
    BY <1>1, <2>2, WinStep
  <2> QED
    BY <1>7, <2>1, <2>2 DEF WinNext, WinMoves
<1> QED
  BY <1>2, <1>3, <1>4, <1>5, <1>6, <1>7 DEF Next

\* The windows begin with the engine's empty list and a saved device at most.
LEMMA WindowInit == ASSUME Init PROVE WindowInv
<1> USE DEF Init
<1>1. ThreadInv
  BY ThreadInit
<1>2. <<frontEnd, scanEnabled>> \in Profiles
  <2>1. PICK profile \in Profiles : frontEnd = profile[1] /\ scanEnabled = profile[2]
    OBVIOUS
  <2>2. profile = <<profile[1], profile[2]>>
    BY PickerAssumption
  <2> QED
    BY <2>1, <2>2
<1>3. NotReading \in [count : Nat, next : Nat, incoming : Seq(Item)] /\ NotReading.next = 0 /\ NotReading.count = 0
  BY DEF NotReading
<1>4. saved \in Item \cup {None} /\ IsFiniteSet(manual)
  BY PickerAssumption, FS_EmptySet DEF Item
<1>5. WindowType
  BY <1>2, <1>3, <1>4, PickerAssumption DEF WindowType
<1>6. GtkShows
  BY DEF GtkShows, DiscoveryInit, Listing
<1>7. AddsAddress /\ ReadsCached /\ WinShows /\ Selectable /\ SelectsNothing
  BY <1>3 DEF AddsAddress, DiscoveryInit, ReadsCached, WinShows, Settled, AskedFor, Selectable, SelectsNothing, Listed
<1> QED
  BY <1>1, <1>5, <1>6, <1>7 DEF WindowInv

\* For every network and any of the three programs: what the windows keep has
\* its type and is in step with DeviceDiscovery.
THEOREM WindowsInStep == Spec => []WindowInv
<1> QED
  BY WindowInit, WindowStep, PTL DEF Spec

\* For every network and any of the three programs: every variable has its type.
THEOREM PickerTypeCorrect == Spec => []TypeOK
<1>1. WindowInv => TypeOK
  <2> SUFFICES ASSUME WindowInv PROVE TypeOK
    OBVIOUS
  <2> USE DEF WindowInv
  <2>1. ASSUME NEW X, NEW s \in Seq(X) PROVE Range(s) \subseteq X
    BY <2>1 DEF Range
  <2>2. \A t \in Actors : copy[t] # None => Range(copy[t]) \subseteq Shown
    BY <2>1 DEF ThreadInv, ListType
  <2>3. DiscoveryTypeOK
    BY <2>1, <2>2 DEF DiscoveryTypeOK, ThreadInv, NetworkType, ThreadType, ListType
  <2>4. /\ Range(posts) \subseteq Nat /\ Range(cached) \subseteq Shown
        /\ Range(shownList) \subseteq (IF frontEnd = "gtk" THEN Shown ELSE Item)
        /\ Range(reading.incoming) \subseteq Item
    BY <2>1 DEF WindowType
  <2>5. reading.next \in 0..(reading.count + 1)
    BY DEF WindowType
  <2> QED
    BY <2>3, <2>4, <2>5 DEF TypeOK, WindowType
<1> QED
  BY <1>1, WindowsInStep, PTL

\* For every network, any addresses and any number of calls that wait: once
\* nothing is announced, posted or being read, the GTK window shows the
\* engine's list and the WinUI window the typed addresses and as much of the
\* C API's copy as its last call was given the count of (RefreshDevices,
\* ApplyDevices).  That the count is the copy's is not so: RowsComplete.
THEOREM FrontEndAgreesAlways == Spec => []FrontEndAgrees
<1>1. WindowInv => FrontEndAgrees
  BY DEF WindowInv, FrontEndAgrees, Quiet, GtkShows, WinShows, Settled
<1> QED
  BY <1>1, WindowsInStep, PTL

\* For every network and whoever renames, expires or overwrites its entry: a
\* selection can be cast to (CastEngine::StartCasting).
THEOREM SelectionCastableAlways == Spec => []SelectionCastable
<1>1. WindowInv => SelectionCastable
  <2> SUFFICES ASSUME WindowInv, Quiet, Win => cached = Listing(devices), selected # None
               PROVE  Resolves(selected)
    BY DEF SelectionCastable
  <2> USE DEF WindowInv
  <2>1. Listed(Listing(devices)) = Listed(devices)
    <3>1. devices \in Seq(Entry)
      BY DEF ThreadInv, ListType
    <3>2. /\ DOMAIN Listing(devices) = DOMAIN devices
          /\ \A i \in DOMAIN devices : Listing(devices)[i].id = devices[i].id
      <4>1. /\ DOMAIN Listing(devices) = DOMAIN devices
            /\ \A i \in DOMAIN devices :
                 Listing(devices)[i] = [id |-> devices[i].id, ip |-> devices[i].ip, custom |-> devices[i].custom]
        BY <3>1, ListingIs
      <4> QED
        BY ONLY <4>1
    <3> QED
      BY <3>2 DEF Listed
  <2>2. selected \in Addresses \/ selected \in Listed(shownList)
    BY DEF Selectable
  <2>3. selected \in Listed(devices) => Resolves(selected)
    BY DEF Listed, Resolves
  <2>4. CASE Gtk
    BY <2>1, <2>2, <2>3, <2>4 DEF Quiet, GtkShows, Resolves
  <2>5. CASE Win
    <3>1. Listed(shownList) = AskedFor \cup manual
      BY <2>5 DEF Quiet, WinShows, Settled
    <3>4. AskedFor \subseteq Listed(devices)
      <4>1. AskedFor \subseteq Listed(cached)
        BY DEF AskedFor, Listed
      <4> QED
        BY <2>1, <2>5, <4>1
    <3>2. manual \subseteq Addresses
      BY DEF WindowType
    <3> QED
      BY <2>2, <2>3, <3>1, <3>2, <3>4 DEF Resolves
  <2>6. Cli \/ Gtk \/ Win
    BY PickerAssumption DEF WindowType, Cli, Gtk, Win
  <2> QED
    BY <2>4, <2>5, <2>6 DEF SelectsNothing
<1> QED
  BY <1>1, WindowsInStep, PTL

=============================================================================
