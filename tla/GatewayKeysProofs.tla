-------------------------- MODULE GatewayKeysProofs --------------------------
(***************************************************************************)
(* What GatewayKeys guarantees for any keys, lookups and handlers: the     *)
(* types, and that every stale entry of Redis is accounted for.            *)
(***************************************************************************)
EXTENDS GatewayKeys, SequenceTheorems, TLAPS

-----------------------------------------------------------------------------
(* The inductive invariant *)

\* A lookup that is under way looks for an entry.
Seeking == \A l \in Lookup : step[l] # "idle" => about[l] \in Entry

\* What it has read is what the row says, or the row has changed since.
ReadsHold ==
  \A l \in Lookup : step[l] = "read" => l \in unsure \/ got[l] = Truth(about[l][1])

\* A rotation is about a key that exists.
Rotating == \A a \in Admin : pc[a] \in {"rotating", "inserting"} => old[a] \in born

\* A handler is deleting as long as it has something to delete.
Deleting == \A a \in Admin : pc[a] = "deleting" <=> Len(todo[a]) # 0

GatewayInv == TypeOK /\ Seeking /\ ReadsHold /\ Rotating /\ Deleting /\ StaleIsExplained

-----------------------------------------------------------------------------
(* Sequences of entries *)

Items(s) == {s[i] : i \in DOMAIN s}

\* invalidateKeyCache deletes both entries of a key.
LEMMA DelsOfOne ==
  ASSUME NEW k \in Key
  PROVE  /\ Dels(k) \in Seq(Entry) /\ Len(Dels(k)) = 2
         /\ Items(Dels(k)) = Entries(k)
<1>1. /\ Dels(k) \in Seq(Entry) /\ Len(Dels(k)) = 2
      /\ Dels(k)[1] = <<k, "key">> /\ Dels(k)[2] = <<k, "prefix">>
  BY DEF Dels, Entry, Path
<1>2. DOMAIN Dels(k) = {1, 2}
  BY <1>1
<1>3. Items(Dels(k)) = {<<k, "key">>, <<k, "prefix">>}
  BY <1>1, <1>2 DEF Items
<1>4. Entries(k) = {<<k, "key">>, <<k, "prefix">>}
  BY DEF Entries, Path
<1> QED
  BY <1>1, <1>3, <1>4

\* Called for two keys it deletes the entries of both.
LEMMA DelsOfTwo ==
  ASSUME NEW j \in Key, NEW k \in Key
  PROVE  /\ Dels(j) \o Dels(k) \in Seq(Entry) /\ Len(Dels(j) \o Dels(k)) = 4
         /\ Items(Dels(j) \o Dels(k)) = Entries(j) \cup Entries(k)
<1> DEFINE p == Dels(j)
           q == Dels(k)
<1>1. /\ p \in Seq(Entry) /\ Len(p) = 2 /\ Items(p) = Entries(j)
      /\ q \in Seq(Entry) /\ Len(q) = 2 /\ Items(q) = Entries(k)
  BY DelsOfOne
<1> HIDE DEF p, q
<1>2. /\ p \o q \in Seq(Entry) /\ Len(p \o q) = 4
      /\ \A i \in 1..4 : (p \o q)[i] = IF i <= 2 THEN p[i] ELSE q[i - 2]
  <2>1. Len(p) + Len(q) = 4
    BY <1>1
  <2>2. /\ p \o q \in Seq(Entry)
        /\ Len(p \o q) = Len(p) + Len(q)
        /\ \A i \in 1..(Len(p) + Len(q)) :
             (p \o q)[i] = IF i <= Len(p) THEN p[i] ELSE q[i - Len(p)]
    BY <1>1, ConcatProperties, Zenon
  <2> QED
    BY <1>1, <2>1, <2>2
<1>3. DOMAIN (p \o q) = 1..4 /\ DOMAIN p = 1..2 /\ DOMAIN q = 1..2
  BY <1>1, <1>2
<1>4. \A i \in 1..4 : (p \o q)[i] \in Items(p) \cup Items(q)
  BY <1>2, <1>3 DEF Items
<1>5. \A i \in 1..2 : p[i] = (p \o q)[i] /\ q[i] = (p \o q)[i + 2]
  BY <1>2
<1>6. Items(p) \cup Items(q) \subseteq Items(p \o q)
  BY <1>3, <1>5 DEF Items
<1>7. Items(p \o q) = Items(p) \cup Items(q)
  BY <1>3, <1>4, <1>6 DEF Items
<1> QED
  BY <1>1, <1>2, <1>7 DEF p, q

\* The first entry deleted, the others are left.
LEMMA Rest ==
  ASSUME NEW s \in Seq(Entry), Len(s) # 0
  PROVE  /\ Head(s) \in Entry /\ Tail(s) \in Seq(Entry)
         /\ Items(s) = {Head(s)} \cup Items(Tail(s))
         /\ Len(Tail(s)) = Len(s) - 1 /\ Len(s) \in Nat
<1>1. Len(s) \in Nat \ {0} /\ DOMAIN s = 1..Len(s) /\ Head(s) = s[1]
  OBVIOUS
<1>2. /\ Tail(s) \in Seq(Entry) /\ Len(Tail(s)) = Len(s) - 1
      /\ \A i \in 1..(Len(s) - 1) : Tail(s)[i] = s[i + 1]
  OBVIOUS
<1>3. DOMAIN Tail(s) = 1..(Len(s) - 1)
  BY <1>1, <1>2
<1>4. \A i \in DOMAIN s : s[i] \in {Head(s)} \cup Items(Tail(s))
  <2> SUFFICES ASSUME NEW i \in DOMAIN s, i # 1
               PROVE  s[i] \in Items(Tail(s))
    BY <1>1
  <2>1. i - 1 \in DOMAIN Tail(s) /\ Tail(s)[i - 1] = s[i]
    BY <1>1, <1>2, <1>3
  <2> QED
    BY <2>1 DEF Items
<1>5. \A i \in DOMAIN Tail(s) : Tail(s)[i] \in Items(s)
  <2> SUFFICES ASSUME NEW i \in DOMAIN Tail(s)
               PROVE  Tail(s)[i] \in Items(s)
    OBVIOUS
  <2>1. i + 1 \in DOMAIN s /\ Tail(s)[i] = s[i + 1]
    BY <1>1, <1>2, <1>3
  <2> QED
    BY <2>1 DEF Items
<1>6. Items(s) = {Head(s)} \cup Items(Tail(s))
  BY <1>1, <1>4, <1>5 DEF Items
<1> QED
  BY <1>1, <1>2, <1>6

-----------------------------------------------------------------------------
(* Entries and rows *)

\* The two entries of a key are its own.
LEMMA EntryOf ==
  /\ \A e \in Entry : e[1] \in Key
  /\ \A e \in Entry, k \in Key : e \in Entries(k) <=> e[1] = k
  /\ \A k \in Key : Entries(k) \subseteq Entry
BY DEF Entry, Entries, Path

\* A row says a version or a refusal.
LEMMA TruthType ==
  ASSUME TypeOK, NEW k \in Key
  PROVE  Truth(k) \in Nat \cup {Nil}
BY DEF TypeOK, Truth

\* A row has changed, and the lookups that had read it are overtaken.
LEMMA RowChange ==
  ASSUME TypeOK, Seeking, ReadsHold, NEW k \in Key, Overtake(k), UNCHANGED lookupVars,
         \A j \in Key : j # k => Truth(j)' = Truth(j)
  PROVE  Seeking' /\ ReadsHold' /\ unsure' \subseteq Lookup
<1>1. Seeking'
  BY DEF Seeking, lookupVars
<1>2. unsure' \subseteq Lookup
  BY DEF TypeOK, Overtake
<1>3. ReadsHold'
  <2> SUFFICES ASSUME NEW l \in Lookup, step[l] = "read", l \notin unsure'
               PROVE  got[l] = Truth(about[l][1])'
    BY DEF ReadsHold, lookupVars
  <2>1. l \notin unsure /\ about[l] \in Entry /\ about[l] \notin Entries(k)
    BY DEF Overtake, Seeking
  <2>2. about[l][1] \in Key /\ about[l][1] # k
    BY <2>1, EntryOf
  <2>3. Truth(about[l][1])' = Truth(about[l][1])
    BY <2>2, UNCHANGED lookupVars DEF lookupVars
  <2> QED
    BY <2>1, <2>3 DEF ReadsHold
<1> QED
  BY <1>1, <1>2, <1>3

\* Lookups do not notice a step that leaves the rows.
LEMMA LookupsStay ==
  ASSUME Seeking, ReadsHold, UNCHANGED <<rowVars, lookupVars, unsure>>
  PROVE  Seeking' /\ ReadsHold'
<1>1. \A k : Truth(k)' = Truth(k)
  BY DEF Truth, rowVars
<1> QED
  BY <1>1 DEF Seeking, ReadsHold, lookupVars

-----------------------------------------------------------------------------
(* What handlers have still to delete *)

\* What a handler has to delete depends on the statement it is at.
LEMMA DueIs ==
  ASSUME TypeOK, Deleting, NEW a \in Admin
  PROVE  /\ pc[a] \in {"new", "provisioning", "rotating"} => Due(a) = {}
         /\ pc[a] = "deleting" => Due(a) = Items(todo[a])
         /\ pc[a] = "inserting" => Due(a) = Entries(old[a])
<1>1. todo[a] \in Seq(Entry)
  BY DEF TypeOK
<1>2. pc[a] # "deleting" => Items(todo[a]) = {}
  BY <1>1 DEF Deleting, Items
<1> QED
  BY <1>2 DEF Due, Items

\* A handler does not touch what the others have to delete.
LEMMA DueOfOthers ==
  ASSUME TypeOK, NEW a \in Admin, NEW x, NEW y, NEW z,
         pc' = [pc EXCEPT ![a] = x], todo' = [todo EXCEPT ![a] = y],
         old' = [old EXCEPT ![a] = z]
  PROVE  \A b \in Admin \ {a} : Due(b)' = Due(b)
BY DEF TypeOK, Due

\* A step of a handler keeps the stale entries explained if those that are
\* newly stale, or that it no longer means to delete, are.
LEMMA Explained ==
  ASSUME StaleIsExplained, NEW a \in Admin,
         \A b \in Admin \ {a} : Due(b)' = Due(b),
         \A e \in Entry :
           Stale(e)' => \/ e \in excused' \cup Due(a)'
                        \/ Stale(e) /\ e \notin Due(a) /\ (e \in excused => e \in excused')
  PROVE  StaleIsExplained'
<1> SUFFICES ASSUME NEW e \in Entry, Stale(e)', e \notin excused'
             PROVE  \E b \in Admin : e \in Due(b)'
  BY DEF StaleIsExplained
<1>1. CASE e \in Due(a)'
  BY <1>1
<1>2. CASE e \notin Due(a)'
  <2>1. Stale(e) /\ e \notin Due(a) /\ e \notin excused
    BY <1>2
  <2>2. PICK b \in Admin : e \in Due(b)
    BY <2>1 DEF StaleIsExplained
  <2> QED
    BY <2>1, <2>2
<1> QED
  BY <1>1, <1>2

-----------------------------------------------------------------------------
(* Lookups, TTLs and expiry *)

\* At the start there are no rows, no entries and no handlers under way.
LEMMA InitInv == Init => GatewayInv
<1> SUFFICES ASSUME Init PROVE GatewayInv
  OBVIOUS
<1>1. TypeOK
  BY DEF Init, TypeOK
<1>2. StaleIsExplained
  BY EntryOf DEF Init, StaleIsExplained, Stale
<1> QED
  BY <1>1, <1>2 DEF Init, GatewayInv, Seeking, ReadsHold, Rotating, Deleting

\* Nothing that concerns handlers changes.
LEMMA HandlersStay ==
  ASSUME Rotating, Deleting, UNCHANGED handlerVars, born \subseteq born'
  PROVE  Rotating' /\ Deleting' /\ \A a \in Admin : Due(a)' = Due(a)
BY DEF Rotating, Deleting, Due, handlerVars

\* A lookup's step leaves every other one's.
LEMMA LookupInv ==
  ASSUME GatewayInv, NEW l \in Lookup,
         FinishLookup(l) \/ \E e \in Entry : Miss(l, e)
  PROVE  GatewayInv'
<1> USE DEF GatewayInv
<1>1. UNCHANGED <<rowVars, handlerVars>>
  BY DEF FinishLookup, ReadRow, ReadFails, Store, StoreFails, EndLookup, Miss
<1>2. Rotating' /\ Deleting' /\ \A a \in Admin : Due(a)' = Due(a)
  BY <1>1, HandlersStay DEF rowVars
<1>3. \A k : Truth(k)' = Truth(k)
  BY <1>1 DEF Truth, rowVars
<1>4. CASE \E e \in Entry : Miss(l, e)
  <2>1. TypeOK' /\ Seeking' /\ ReadsHold'
    BY <1>3, <1>4 DEF Miss, TypeOK, Seeking, ReadsHold, rowVars, handlerVars, historyVars
  <2>2. StaleIsExplained'
    BY <1>2, <1>3, <1>4 DEF Miss, StaleIsExplained, Stale, historyVars
  <2> QED
    BY <1>2, <2>1, <2>2
<1>5. CASE ReadRow(l) \/ ReadFails(l)
  <2>1. about[l] \in Entry /\ about[l][1] \in Key
    BY <1>5, EntryOf DEF ReadRow, ReadFails, Seeking
  <2>2. got'[l] \in Nat \cup {Nil}
    BY <1>5, <2>1, TruthType DEF ReadRow, ReadFails, TypeOK
  <2>3. TypeOK'
    BY <1>5, <2>2 DEF ReadRow, ReadFails, TypeOK, rowVars, handlerVars, historyVars
  <2>4. Seeking' /\ ReadsHold'
    BY <1>3, <1>5, <2>1 DEF ReadRow, ReadFails, TypeOK, Seeking, ReadsHold, historyVars
  <2>5. StaleIsExplained'
    BY <1>2, <1>3, <1>5 DEF ReadRow, ReadFails, StaleIsExplained, Stale, historyVars
  <2> QED
    BY <1>2, <2>3, <2>4, <2>5
<1>6. CASE Store(l) \/ StoreFails(l)
  <2>1. about[l] \in Entry /\ about[l][1] \in Key /\ got[l] \in Nat \cup {Nil}
    BY <1>6, EntryOf DEF Store, StoreFails, EndLookup, Seeking, TypeOK
  <2>2. TypeOK'
    BY <1>6, <2>1 DEF Store, StoreFails, EndLookup, TypeOK, rowVars, handlerVars
  <2>3. Seeking' /\ ReadsHold'
    BY <1>3, <1>6 DEF Store, StoreFails, EndLookup, TypeOK, Seeking, ReadsHold
  <2>4. ASSUME Store(l) PROVE StaleIsExplained'
    <3> SUFFICES ASSUME NEW e \in Entry, Stale(e)'
                 PROVE  e \in excused' \/ \E a \in Admin : e \in Due(a)'
      BY DEF StaleIsExplained
    <3>1. CASE e = about[l]
      <4>1. cache'[e] = got[l]
        BY <2>1, <2>4, <3>1 DEF Store, TypeOK
      <4>2. got[l] # Truth(e[1])
        BY <1>3, <4>1 DEF Stale
      <4>3. l \in unsure
        BY <2>4, <3>1, <4>2 DEF Store, EndLookup, ReadsHold
      <4> QED
        BY <2>4, <3>1, <4>2, <4>3 DEF Store
    <3>2. CASE e # about[l]
      <4>1. Stale(e) /\ (e \in excused => e \in excused')
        BY <1>3, <2>1, <2>4, <3>2 DEF Store, TypeOK, Stale
      <4> QED
        BY <1>2, <4>1 DEF StaleIsExplained
    <3> QED
      BY <3>1, <3>2
  <2>5. ASSUME StoreFails(l) PROVE StaleIsExplained'
    BY <1>2, <1>3, <2>5 DEF StoreFails, StaleIsExplained, Stale
  <2> QED
    BY <1>2, <1>6, <2>2, <2>3, <2>4, <2>5
<1> QED
  BY <1>4, <1>5, <1>6 DEF FinishLookup

\* The end of a TTL leaves no entry, and a key's expiry excuses its own.
LEMMA ClockInv ==
  ASSUME GatewayInv, (\E e \in Entry : Expire(e)) \/ (\E k \in Key : KeyExpires(k))
  PROVE  GatewayInv'
<1> USE DEF GatewayInv
<1>1. ASSUME NEW e \in Entry, Expire(e)
      PROVE  GatewayInv'
  <2>1. TypeOK'
    BY <1>1 DEF Expire, RemoveEntry, TypeOK, rowVars, lookupVars, handlerVars
  <2>2. Seeking' /\ ReadsHold'
    BY <1>1, LookupsStay DEF Expire
  <2>3. Rotating' /\ Deleting' /\ \A a \in Admin : Due(a)' = Due(a)
    BY <1>1, HandlersStay DEF Expire, rowVars
  <2>4. \A x \in Entry : Stale(x)' => Stale(x) /\ x # e
    BY <1>1 DEF Expire, RemoveEntry, TypeOK, Stale, Truth, rowVars
  <2>5. StaleIsExplained'
    BY <1>1, <2>3, <2>4 DEF Expire, RemoveEntry, StaleIsExplained
  <2> QED
    BY <2>1, <2>2, <2>3, <2>5
<1>2. ASSUME NEW k \in Key, KeyExpires(k)
      PROVE  GatewayInv'
  <2>1. \A j \in Key : j # k => Truth(j)' = Truth(j)
    BY <1>2 DEF KeyExpires, Truth
  <2>2. Seeking' /\ ReadsHold' /\ unsure' \subseteq Lookup
    BY <1>2, <2>1, RowChange DEF KeyExpires
  <2>3. TypeOK'
    BY <1>2, <2>2, EntryOf DEF KeyExpires, TypeOK, lookupVars, handlerVars
  <2>4. Rotating' /\ Deleting' /\ \A a \in Admin : Due(a)' = Due(a)
    BY <1>2, HandlersStay DEF KeyExpires
  <2>5. Truth(k)' = Nil
    BY <1>2 DEF KeyExpires, Truth, TypeOK
  <2>6. \A e \in Entry : Stale(e)' => e \in excused' \/ (Stale(e) /\ e \notin Entries(k))
    BY <1>2, <2>1, <2>5, EntryOf DEF KeyExpires, Stale
  <2>7. StaleIsExplained'
    BY <1>2, <2>4, <2>6 DEF KeyExpires, StaleIsExplained
  <2> QED
    BY <2>2, <2>3, <2>4, <2>7
<1> QED
  BY <1>1, <1>2

-----------------------------------------------------------------------------
(* Handlers *)

\* A row is written and both its entries are going to be deleted: the entries
\* that the step makes stale are among them.
LEMMA WriteInv ==
  ASSUME GatewayInv, NEW a \in Admin, NEW k \in Key, NEW dels \in Seq(Entry),
         TypeOK', born \subseteq born', Overtake(k), DeleteEntries(a, dels),
         Len(dels) # 0, Entries(k) \cup Due(a) \subseteq Items(dels),
         \A j \in Key : j # k => Truth(j)' = Truth(j),
         old' = old \/ old' = [old EXCEPT ![a] = None],
         UNCHANGED <<cache, lookupVars, excused>>
  PROVE  GatewayInv'
<1> USE DEF GatewayInv
<1>1. pc' = [pc EXCEPT ![a] = "deleting"] /\ todo' = [todo EXCEPT ![a] = dels]
  BY DEF DeleteEntries
<1>2. Seeking' /\ ReadsHold'
  BY RowChange
<1>3. Rotating' /\ Deleting'
  BY <1>1 DEF Rotating, Deleting, TypeOK
<1>4. \A b \in Admin \ {a} : Due(b)' = Due(b)
  BY <1>1, DueOfOthers DEF TypeOK, Due
<1>5. Due(a)' = Items(dels)
  BY <1>1 DEF TypeOK, Due, Items
<1>6. \A e \in Entry : Stale(e)' => e \in Entries(k) \/ Stale(e)
  BY EntryOf DEF Stale
<1>7. StaleIsExplained'
  BY <1>4, <1>5, <1>6, Explained
<1> QED
  BY <1>2, <1>3, <1>7

\* A new row, and the DELs of its entries.
LEMMA CreateInv ==
  ASSUME GatewayInv, NEW a \in Admin, NEW k \in Key, Create(a, k) \/ Provision(a, k)
  PROVE  GatewayInv'
<1> USE DEF GatewayInv
<1>1. /\ pc[a] \in {"new", "provisioning"} /\ InsertKey(k, 1) /\ DeleteEntries(a, Dels(k))
      /\ UNCHANGED <<revoked, expired, cache, lookupVars, old, copied, excused>>
  BY DEF Create, Provision
<1>2. Dels(k) \in Seq(Entry) /\ Len(Dels(k)) # 0 /\ Items(Dels(k)) = Entries(k)
  <2>1. /\ Dels(k) \in Seq(Entry) /\ Len(Dels(k)) = 2
        /\ Items(Dels(k)) = Entries(k)
    BY DelsOfOne, Zenon
  <2> QED
    BY <2>1
<1>3. TypeOK'
  BY <1>1, <1>2 DEF InsertKey, Overtake, DeleteEntries, TypeOK, lookupVars
<1>4. \A j \in Key : j # k => Truth(j)' = Truth(j)
  BY <1>1 DEF InsertKey, Truth, TypeOK
<1>5. Due(a) = {}
  BY <1>1, DueIs
<1>6. born \subseteq born' /\ Overtake(k)
  BY <1>1 DEF InsertKey
<1> HIDE DEF GatewayInv
<1>7. Entries(k) \cup Due(a) \subseteq Items(Dels(k))
  BY <1>2, <1>5
<1> QED
  BY <1>1, <1>2, <1>3, <1>4, <1>6, <1>7, WriteInv

\* A changed or revoked row, and the DELs of its entries.
LEMMA UpdateInv ==
  ASSUME GatewayInv, NEW a \in Admin, NEW k \in Key, Update(a, k) \/ Revoke(a, k)
  PROVE  GatewayInv'
<1> USE DEF GatewayInv
<1>1. Dels(k) \in Seq(Entry) /\ Len(Dels(k)) # 0 /\ Items(Dels(k)) = Entries(k)
  BY DelsOfOne
<1>2. TypeOK'
  <2>1. CASE Update(a, k)
    <3>1. version[k] \in Nat
      BY DEF TypeOK
    <3>2. version' \in [Key -> Nat]
      BY <2>1, <3>1 DEF Update, TypeOK
    <3> QED
      BY <1>1, <2>1, <3>2 DEF Update, Overtake, DeleteEntries, TypeOK, lookupVars
  <2>2. CASE Revoke(a, k)
    BY <1>1, <2>2 DEF Revoke, Unrevoked, Overtake, DeleteEntries, TypeOK, lookupVars
  <2> QED
    BY <2>1, <2>2
<1>3. \A j \in Key : j # k => Truth(j)' = Truth(j)
  BY DEF Update, Revoke, Truth, TypeOK
<1>4. Due(a) = {}
  BY DueIs DEF Update, Revoke
<1>5. /\ born \subseteq born' /\ Overtake(k) /\ DeleteEntries(a, Dels(k))
      /\ UNCHANGED <<cache, lookupVars, old, excused>>
  BY DEF Update, Revoke
<1> HIDE DEF GatewayInv
<1>6. Entries(k) \cup Due(a) \subseteq Items(Dels(k))
  BY <1>1, <1>4
<1> QED
  BY <1>1, <1>2, <1>3, <1>5, <1>6, WriteInv

\* The rotation's INSERT is followed by the DELs of both keys.
LEMMA RotateInsertInv ==
  ASSUME GatewayInv, NEW a \in Admin, NEW k \in Key, RotateInsert(a, k)
  PROVE  GatewayInv'
<1> USE DEF GatewayInv
<1> DEFINE dels == Dels(old[a]) \o Dels(k)
<1>1. pc[a] = "inserting" /\ old[a] \in Key /\ old[a] \in born
  BY DEF RotateInsert, Rotating, TypeOK
<1>2. dels \in Seq(Entry) /\ Len(dels) # 0 /\ Items(dels) = Entries(old[a]) \cup Entries(k)
  BY <1>1, DelsOfTwo
<1> HIDE DEF dels
<1>3. InsertKey(k, copied[a]) /\ DeleteEntries(a, dels) /\ Forget(a)
  BY DEF RotateInsert, dels
<1>4. TypeOK'
  <2>1. /\ born' \subseteq Key /\ revoked' \subseteq born' /\ expired' \subseteq born'
        /\ version' \in [Key -> Nat] /\ unsure' \subseteq Lookup
    BY <1>3 DEF RotateInsert, InsertKey, Overtake, TypeOK
  <2>2. /\ pc' \in [Admin -> {"new", "provisioning", "rotating", "inserting", "deleting"}]
        /\ old' \in [Admin -> Key \cup {None}] /\ copied' \in [Admin -> Nat]
        /\ todo' \in [Admin -> Seq(Entry)]
    BY <1>2, <1>3 DEF DeleteEntries, Forget, TypeOK
  <2> QED
    BY <2>1, <2>2 DEF RotateInsert, TypeOK, lookupVars
<1>5. \A j \in Key : j # k => Truth(j)' = Truth(j)
  BY <1>3 DEF RotateInsert, InsertKey, Truth, TypeOK
<1>6. Due(a) = Entries(old[a])
  BY <1>1, DueIs
<1>7. /\ born \subseteq born' /\ Overtake(k) /\ old' = [old EXCEPT ![a] = None]
      /\ UNCHANGED <<cache, lookupVars, excused>>
  BY <1>3 DEF RotateInsert, InsertKey, Forget
<1> HIDE DEF GatewayInv
<1>8. Entries(k) \cup Due(a) \subseteq Items(dels)
  BY <1>2, <1>6
<1> QED
  BY <1>2, <1>3, <1>4, <1>5, <1>7, <1>8, WriteInv

\* Counting and reading change nothing but the handler's own place.
LEMMA LookInv ==
  ASSUME GatewayInv, NEW a \in Admin,
         CountKeys(a) \/ ProvisionFails(a) \/ \E k \in Key : RotateRead(a, k)
  PROVE  GatewayInv'
<1> USE DEF GatewayInv
<1> DEFINE reads == \E k \in Key : RotateRead(a, k)
<1>1. UNCHANGED <<rowVars, cache, lookupVars, todo, historyVars>>
  BY DEF CountKeys, ProvisionFails, RotateRead
<1>2. TypeOK'
  <2>1. CASE CountKeys(a) \/ ProvisionFails(a)
    BY <2>1 DEF CountKeys, ProvisionFails, TypeOK, rowVars, lookupVars, historyVars
  <2>2. CASE reads
    BY <2>2 DEF RotateRead, Unrevoked, TypeOK, rowVars, lookupVars, historyVars
  <2> QED
    BY <2>1, <2>2
<1>3. Seeking' /\ ReadsHold'
  BY <1>1, LookupsStay DEF historyVars
<1>4. Rotating'
  BY <1>1 DEF CountKeys, ProvisionFails, RotateRead, Unrevoked, Rotating, TypeOK, rowVars
<1>5. pc[a] \in {"new", "provisioning"} /\ pc'[a] \in {"new", "provisioning", "rotating"}
  BY DEF CountKeys, ProvisionFails, RotateRead, TypeOK
<1>6. \A b \in Admin \ {a} : pc'[b] = pc[b] /\ old'[b] = old[b]
  BY DEF CountKeys, ProvisionFails, RotateRead, TypeOK
<1>7. Deleting'
  BY <1>1, <1>5, <1>6 DEF Deleting
<1>8. Due(a) = {} /\ Due(a)' = {}
  BY <1>1, <1>2, <1>5, <1>7, DueIs DEF Due
<1>9. \A b \in Admin \ {a} : Due(b)' = Due(b)
  BY <1>1, <1>6 DEF Due
<1>10. \A e : Stale(e)' => Stale(e)
  BY <1>1 DEF Stale, Truth, rowVars
<1>11. StaleIsExplained'
  BY <1>1, <1>8, <1>9, <1>10, Explained DEF historyVars
<1> QED
  BY <1>2, <1>3, <1>4, <1>7, <1>11

\* Once the old key is revoked its entries are due.
LEMMA RotateRevokeInv ==
  ASSUME GatewayInv, NEW a \in Admin, RotateRevoke(a)
  PROVE  GatewayInv'
<1> USE DEF GatewayInv
<1>1. /\ pc[a] = "rotating" /\ old[a] \in Key /\ old[a] \in born
      /\ pc' = [pc EXCEPT ![a] = "inserting"]
      /\ UNCHANGED <<born, version, expired, cache, lookupVars, old, copied, todo, excused>>
  BY DEF RotateRevoke, Rotating, TypeOK
<1>2. \A j \in Key : j # old[a] => Truth(j)' = Truth(j)
  BY <1>1 DEF RotateRevoke, Truth
<1>3. Seeking' /\ ReadsHold' /\ unsure' \subseteq Lookup
  <2>1. CASE Overtake(old[a])
    BY <1>1, <1>2, <2>1, RowChange
  <2>2. CASE UNCHANGED <<revoked, unsure>>
    BY <1>1, <2>2, LookupsStay DEF rowVars, TypeOK
  <2> QED
    BY <2>1, <2>2 DEF RotateRevoke
<1>4. TypeOK'
  BY <1>1, <1>3 DEF RotateRevoke, TypeOK, lookupVars
<1>5. Rotating' /\ Deleting'
  <2>1. Rotating'
    BY <1>1 DEF Rotating, TypeOK
  <2>2. Deleting'
    BY <1>1 DEF Deleting, TypeOK
  <2> QED
    BY <2>1, <2>2
<1>6. Due(a) = {} /\ Due(a)' = Entries(old[a])
  <2>1. Due(a) = {}
    BY <1>1, DueIs
  <2>2. pc'[a] = "inserting" /\ todo' = todo /\ old' = old
    BY <1>1 DEF TypeOK
  <2>3. Items(todo[a]) = {}
    BY <1>1, <2>1 DEF Due, Items
  <2> QED
    BY <2>1, <2>2, <2>3 DEF Due, Items
<1>7. \A b \in Admin \ {a} : Due(b)' = Due(b)
  BY <1>1 DEF TypeOK, Due
<1>8. \A e \in Entry : Stale(e)' => Stale(e) \/ e \in Entries(old[a])
  BY <1>1, <1>2, EntryOf DEF Stale
<1>9. StaleIsExplained'
  BY <1>1, <1>6, <1>7, <1>8, Explained
<1> QED
  BY <1>3, <1>4, <1>5, <1>9

\* A failed INSERT gives the old key's entries up.
LEMMA RotateFailsInv ==
  ASSUME GatewayInv, NEW a \in Admin, RotateFails(a)
  PROVE  GatewayInv'
<1> USE DEF GatewayInv
<1>1. /\ pc[a] = "inserting" /\ old[a] \in Key
      /\ pc' = [pc EXCEPT ![a] = "new"] /\ old' = [old EXCEPT ![a] = None]
      /\ UNCHANGED <<rowVars, cache, lookupVars, todo, unsure>>
  BY DEF RotateFails, Forget, Rotating, TypeOK
<1>2. TypeOK'
  BY <1>1, EntryOf DEF RotateFails, Forget, TypeOK, rowVars, lookupVars
<1>3. Seeking' /\ ReadsHold'
  BY <1>1, LookupsStay
<1>4. Rotating' /\ Deleting'
  BY <1>1 DEF Rotating, Deleting, TypeOK, rowVars
<1>5. Due(a) = Entries(old[a]) /\ \A b \in Admin \ {a} : Due(b)' = Due(b)
  BY <1>1, DueIs DEF Due, TypeOK
<1>6. \A e \in Entry : Stale(e)' => Stale(e)
  BY <1>1 DEF Stale, Truth, rowVars
<1>7. \A e \in Entries(old[a]) : Stale(e) => e \in excused'
  BY DEF RotateFails
<1>8. excused \subseteq excused'
  BY DEF RotateFails
<1>9. StaleIsExplained'
  BY <1>5, <1>6, <1>7, <1>8, Explained
<1> QED
  BY <1>2, <1>3, <1>4, <1>9

\* A DEL leaves no entry, and one that fails excuses it.
LEMMA DeleteInv ==
  ASSUME GatewayInv, NEW a \in Admin, Delete(a) \/ DeleteFails(a)
  PROVE  GatewayInv'
<1> USE DEF GatewayInv
<1> DEFINE e == Head(todo[a])
<1>1. NextEntry(a)
  BY DEF Delete, DeleteFails
<1>2. pc[a] = "deleting" /\ todo[a] \in Seq(Entry) /\ Len(todo[a]) # 0
  BY <1>1 DEF NextEntry, Deleting, TypeOK
<1>3. /\ e \in Entry /\ Tail(todo[a]) \in Seq(Entry)
      /\ Items(todo[a]) = {e} \cup Items(Tail(todo[a]))
      /\ Len(Tail(todo[a])) = Len(todo[a]) - 1 /\ Len(todo[a]) \in Nat
  BY <1>2, Rest
<1> HIDE DEF e
<1>4. /\ todo'[a] = Tail(todo[a]) /\ \A b \in Admin \ {a} : todo'[b] = todo[b]
      /\ todo' \in [Admin -> Seq(Entry)]
  BY <1>1, <1>3 DEF NextEntry, TypeOK
<1>5. /\ pc'[a] = IF Len(todo[a]) = 1 THEN "new" ELSE "deleting"
      /\ \A b \in Admin \ {a} : pc'[b] = pc[b]
      /\ pc' \in [Admin -> {"new", "provisioning", "rotating", "inserting", "deleting"}]
  BY <1>1, <1>2 DEF NextEntry, TypeOK
<1>6. UNCHANGED <<rowVars, lookupVars, old, copied, unsure>>
  BY <1>1 DEF NextEntry
<1>7. /\ cache' \in [Entry -> Nat \cup {NoEntry, Nil}] /\ excused' \subseteq Entry
      /\ \A x \in Entry : Stale(x)' => Stale(x) /\ (x = e => x \in excused')
      /\ \A x \in Entry \ {e} : x \in excused => x \in excused'
  <2>1. \A k : Truth(k)' = Truth(k)
    BY <1>6 DEF Truth, rowVars
  <2>2. CASE Delete(a)
    BY <1>3, <2>1, <2>2 DEF Delete, RemoveEntry, Stale, TypeOK, e
  <2>3. CASE DeleteFails(a)
    BY <1>3, <2>1, <2>3 DEF DeleteFails, Stale, TypeOK, e
  <2> QED
    BY <2>2, <2>3
<1>8. TypeOK'
  BY <1>4, <1>5, <1>6, <1>7 DEF TypeOK, rowVars, lookupVars
<1>9. Seeking' /\ ReadsHold'
  BY <1>6, LookupsStay
<1>10. Rotating'
  BY <1>5, <1>6 DEF Rotating, rowVars
<1>11. Deleting'
  <2>1. pc'[a] = "deleting" <=> Len(todo[a]) # 1
    BY <1>5
  <2>2. Len(todo'[a]) # 0 <=> Len(todo[a]) # 1
    BY <1>2, <1>3, <1>4
  <2> QED
    BY <1>4, <1>5, <2>1, <2>2 DEF Deleting
<1>12. \A b \in Admin \ {a} : Due(b)' = Due(b)
  BY <1>4, <1>5, <1>6 DEF Due
<1>13. Due(a) = {e} \cup Due(a)'
  <2>1. Due(a) = Items(todo[a])
    BY <1>2, DueIs
  <2>2. Due(a)' = Items(Tail(todo[a]))
    BY <1>4, <1>5 DEF Due, Items
  <2> QED
    BY <1>3, <2>1, <2>2
<1>14. StaleIsExplained'
  BY <1>7, <1>12, <1>13, Explained
<1> QED
  BY <1>8, <1>9, <1>10, <1>11, <1>14

-----------------------------------------------------------------------------
(* The theorems *)

\* No step of a lookup, a handler or the clock breaks the invariant.
THEOREM GatewayInvariant == Spec => []GatewayInv
<1>1. ASSUME GatewayInv, [Next]_vars PROVE GatewayInv'
  <2>1. CASE UNCHANGED vars
    <3>1. UNCHANGED <<rowVars, lookupVars, handlerVars, historyVars, cache>>
      BY <2>1 DEF vars
    <3>2. \A a : Due(a)' = Due(a)
      BY <3>1 DEF Due, handlerVars
    <3>3. \A e : Stale(e)' = Stale(e)
      BY <3>1 DEF Stale, Truth, rowVars
    <3>4. StaleIsExplained'
      BY <1>1, <3>1, <3>2, <3>3 DEF GatewayInv, StaleIsExplained, historyVars
    <3>5. TypeOK'
      BY <1>1, <3>1
         DEF GatewayInv, TypeOK, rowVars, lookupVars, handlerVars, historyVars
    <3>6. Seeking' /\ ReadsHold'
      BY <1>1, <3>1, LookupsStay DEF GatewayInv, historyVars
    <3>7. Rotating' /\ Deleting'
      BY <1>1, <3>1, HandlersStay DEF GatewayInv, rowVars
    <3> QED
      BY <3>4, <3>5, <3>6, <3>7 DEF GatewayInv
  <2>2. CASE \E l \in Lookup : FinishLookup(l) \/ \E e \in Entry : Miss(l, e)
    BY <1>1, <2>2, LookupInv
  <2>3. CASE (\E e \in Entry : Expire(e)) \/ (\E k \in Key : KeyExpires(k))
    BY <1>1, <2>3, ClockInv
  <2>4. ASSUME NEW a \in Admin, HandlerStep(a) PROVE GatewayInv'
    BY <1>1, <2>4, LookInv, RotateRevokeInv, RotateFailsInv, DeleteInv, CreateInv,
       UpdateInv, RotateInsertInv DEF HandlerStep
  <2> QED
    BY <1>1, <2>1, <2>2, <2>3, <2>4 DEF Next
<1> QED
  BY <1>1, InitInv, PTL DEF Spec

\* The variables keep their types; only keys with a row are revoked or expire.
THEOREM TypeCorrect == Spec => []TypeOK
<1>1. GatewayInv => TypeOK
  BY DEF GatewayInv
<1> QED
  BY <1>1, GatewayInvariant, PTL

\* However lookups, handlers and their failures interleave, a stale entry is
\* one that somebody is about to delete or that the code leaves to its TTL.
THEOREM StaleExplained == Spec => []StaleIsExplained
<1>1. GatewayInv => StaleIsExplained
  BY DEF GatewayInv
<1> QED
  BY <1>1, GatewayInvariant, PTL
=============================================================================
