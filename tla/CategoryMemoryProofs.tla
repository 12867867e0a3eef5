------------------------ MODULE CategoryMemoryProofs ------------------------
(***************************************************************************)
(* Theorems about CategoryMemory, for any runs, suppliers and facts: how   *)
(* far a store that takes no lock keeps its promises.                      *)
(*                                                                         *)
(* What a transaction sees, the committed rows and its own, becomes what   *)
(* is committed. So the argument is about views: each row is right in the  *)
(* view that wrote it, and stays right as the view grows.                  *)
(***************************************************************************)
EXTENDS CategoryMemory, FiniteSetTheorems, WellFoundedInduction, TLAPS

\* A row in a view: the record it disagreed with, and what was committed when it
\* was written, are there too, and have the versions that the properties ask for.
GoodRow(V, ended, links, i) ==
  /\ V[i].saw \subseteq DOMAIN V
  /\ V[i].version > 1 =>
       /\ V[i].supersedes \in DOMAIN V
       /\ V[V[i].supersedes].key = V[i].key
       /\ V[i].version = V[V[i].supersedes].version + 1
       /\ ValuesConflict(V[V[i].supersedes].value, V[i].value)
       /\ \/ /\ V[i].supersedes \in ended
             /\ StoreStrength[V[i].state] > StoreStrength[V[V[i].supersedes].state]
          \/ {<<i, V[i].supersedes>>, <<V[i].supersedes, i>>} \subseteq links
  /\ \A s \in V[i].saw : V[s].key = V[i].key =>
       /\ V[s].version < V[i].version
       /\ \/ ValuesConflict(V[s].value, V[i].value)
          \/ \E k \in DOMAIN V : /\ V[k].key = V[i].key
                                 /\ V[k].version >= V[s].version
                                 /\ ValuesConflict(V[k].value, V[i].value)

LinksWithin(V, links) ==
  \A l \in links : <<l[2], l[1]>> \in links /\ {l[1], l[2]} \subseteq DOMAIN V

\* Whatever was superseded, a record of its proposition that is as late is current.
CurrentIn(V, ended) ==
  \A i \in DOMAIN V : \E j \in DOMAIN V \ ended :
    V[j].key = V[i].key /\ V[j].version >= V[i].version

-----------------------------------------------------------------------------
Ended(r) == superseded \cup tx[r].superseded
Links(r) == contradicts \cup tx[r].links

\* The transactions are records, the candidates carry an evidence state.
Shapes ==
  /\ tx = [r \in Run |-> [new |-> tx[r].new, superseded |-> tx[r].superseded,
                          links |-> tx[r].links, at |-> tx[r].at]]
  /\ \A r \in Run : tx[r].at \in Nat
  /\ todo = [r \in Run |-> todo[r]]
  /\ \A r \in Run : \A c \in todo[r] : c.state \in DOMAIN StoreStrength

\* A run numbers its rows from one, and has none committed until it is done.
IdsAreFresh ==
  \A r \in Run :
    /\ IsFiniteSet(DOMAIN tx[r].new)
    /\ DOMAIN tx[r].new = {<<r, m>> : m \in 1..Cardinality(DOMAIN tx[r].new)}
    /\ stage[r] # "done" => \A i \in DOMAIN items : i[1] # r

\* The committed rows are right, and so is the view of every transaction.
ViewsAreGood ==
  /\ \A i \in DOMAIN items : GoodRow(items, superseded, contradicts, i)
  /\ LinksWithin(items, contradicts)
  /\ CurrentIn(items, superseded)
  /\ \A r \in Run :
       /\ \A i \in DOMAIN tx[r].new : GoodRow(Visible(r), Ended(r), Links(r), i)
       /\ LinksWithin(Visible(r), tx[r].links)

\* A transaction supersedes what it replaces by a later version of its own.
Replaced ==
  \A r \in Run :
    /\ tx[r].superseded \subseteq DOMAIN Visible(r)
    /\ \A j \in tx[r].superseded : \E t \in DOMAIN tx[r].new \ tx[r].superseded :
         /\ Visible(r)[t].key = Visible(r)[j].key
         /\ Visible(r)[t].version > Visible(r)[j].version

\* The inductive invariant.
MemoryInv ==
  /\ MemoryTypeOK
  /\ Shapes
  /\ IdsAreFresh
  /\ ViewsAreGood
  /\ Replaced

-----------------------------------------------------------------------------
\* What a transaction sees: the committed rows, and its own beside them.
LEMMA VisibleIs ==
  ASSUME MemoryInv, NEW r \in Run
  PROVE  /\ DOMAIN items \cap DOMAIN tx[r].new = {}
         /\ DOMAIN Visible(r) = DOMAIN items \cup DOMAIN tx[r].new
         /\ \A i \in DOMAIN items : Visible(r)[i] = items[i]
         /\ \A i \in DOMAIN tx[r].new : Visible(r)[i] = tx[r].new[i]
         /\ \A i \in DOMAIN Visible(r) : RowOK(Visible(r)[i])
<1>1. CASE stage[r] = "storing"
  <2>1. \A i \in DOMAIN items : i[1] # r
    BY <1>1 DEF MemoryInv, IdsAreFresh
  <2>2. \A i \in DOMAIN tx[r].new : i[1] = r /\ RowOK(tx[r].new[i])
    BY DEF MemoryInv, MemoryTypeOK
  <2>3. \A i \in DOMAIN items : RowOK(items[i])
    BY DEF MemoryInv, MemoryTypeOK
  <2> QED
    BY <2>1, <2>2, <2>3, Zenon DEF Visible
<1>2. CASE stage[r] # "storing"
  <2>1. DOMAIN tx[r].new = {}
    BY <1>2 DEF MemoryInv, MemoryTypeOK
  <2>2. \A i \in DOMAIN items : RowOK(items[i])
    BY DEF MemoryInv, MemoryTypeOK
  <2> QED
    BY <2>1, <2>2, Zenon DEF Visible
<1> QED
  BY <1>1, <1>2

\* A row that is right stays right as its view grows.
LEMMA GoodStays ==
  ASSUME NEW V, NEW W, NEW ended, NEW ended2, NEW links, NEW links2, NEW i \in DOMAIN V,
         GoodRow(V, ended, links, i),
         DOMAIN V \subseteq DOMAIN W, \A x \in DOMAIN V : W[x] = V[x],
         ended \subseteq ended2, links \subseteq links2
  PROVE  GoodRow(W, ended2, links2, i)
<1>1. W[i] = V[i]
  OBVIOUS
<1>2. W[i].saw \subseteq DOMAIN W /\ W[i].saw \subseteq DOMAIN V
  BY <1>1 DEF GoodRow
<1>3. ASSUME W[i].version > 1
      PROVE  /\ W[i].supersedes \in DOMAIN W
             /\ W[W[i].supersedes].key = W[i].key
             /\ W[i].version = W[W[i].supersedes].version + 1
             /\ ValuesConflict(W[W[i].supersedes].value, W[i].value)
             /\ \/ /\ W[i].supersedes \in ended2
                   /\ StoreStrength[W[i].state] > StoreStrength[W[W[i].supersedes].state]
                \/ {<<i, W[i].supersedes>>, <<W[i].supersedes, i>>} \subseteq links2
  BY <1>1, <1>3 DEF GoodRow
<1>4. ASSUME NEW s \in W[i].saw, W[s].key = W[i].key
      PROVE  /\ W[s].version < W[i].version
             /\ \/ ValuesConflict(W[s].value, W[i].value)
                \/ \E k \in DOMAIN W : /\ W[k].key = W[i].key
                                       /\ W[k].version >= W[s].version
                                       /\ ValuesConflict(W[k].value, W[i].value)
  <2>1. s \in DOMAIN V /\ W[s] = V[s]
    BY <1>2
  <2>2. s \in V[i].saw /\ V[s].key = V[i].key
    BY <1>1, <1>4, <2>1
  <2> QED
    BY <1>1, <2>1, <2>2 DEF GoodRow
<1> QED
  BY <1>2, <1>3, <1>4 DEF GoodRow

\* In every view some record of a proposition that is as late as any is current.
LEMMA CurrentVisible ==
  ASSUME MemoryInv, NEW r \in Run
  PROVE  CurrentIn(Visible(r), Ended(r))
<1> DEFINE V == Visible(r)
<1>v. /\ DOMAIN items \cap DOMAIN tx[r].new = {}
      /\ DOMAIN V = DOMAIN items \cup DOMAIN tx[r].new
      /\ \A i \in DOMAIN items : V[i] = items[i]
      /\ \A i \in DOMAIN V : V[i].version \in Nat
  BY VisibleIs DEF RowOK
<1>s. superseded \subseteq DOMAIN items
  BY DEF MemoryInv, MemoryTypeOK
<1>r. /\ tx[r].superseded \subseteq DOMAIN V
      /\ \A j \in tx[r].superseded : \E t \in DOMAIN tx[r].new \ tx[r].superseded :
           V[t].key = V[j].key /\ V[t].version > V[j].version
  BY Zenon DEF MemoryInv, Replaced
<1>c. \A i \in DOMAIN items : \E j \in DOMAIN items \ superseded :
        items[j].key = items[i].key /\ items[j].version >= items[i].version
  BY DEF MemoryInv, ViewsAreGood, CurrentIn
<1> HIDE DEF V
<1>1. ASSUME NEW i \in DOMAIN V, NEW j \in DOMAIN V \ superseded,
             V[j].key = V[i].key, V[j].version >= V[i].version
      PROVE  \E k \in DOMAIN V \ Ended(r) :
               V[k].key = V[i].key /\ V[k].version >= V[i].version
  <2>1. CASE j \in tx[r].superseded
    <3>1. PICK t \in DOMAIN tx[r].new \ tx[r].superseded :
            V[t].key = V[j].key /\ V[t].version > V[j].version
      BY <1>r, <2>1
    <3>2. t \in DOMAIN V \ Ended(r)
      BY <1>v, <1>s, <3>1 DEF Ended
    <3> QED
      BY <1>1, <1>v, <3>1, <3>2
  <2>2. CASE j \notin tx[r].superseded
    BY <1>1, <2>2 DEF Ended
  <2> QED
    BY <2>1, <2>2
<1>2. ASSUME NEW i \in DOMAIN V
      PROVE  \E j \in DOMAIN V \ superseded :
               V[j].key = V[i].key /\ V[j].version >= V[i].version
  <2>1. CASE i \in DOMAIN items
    BY <1>c, <1>v, <2>1
  <2>2. CASE i \notin DOMAIN items
    BY <1>v, <1>s, <2>2
  <2> QED
    BY <2>1, <2>2
<1> QED
  BY <1>1, <1>2, Zenon DEF CurrentIn, V

-----------------------------------------------------------------------------
\* The row that a transaction writes is new, and it is all that its view gains.
LEMMA WriteAdds ==
  ASSUME MemoryInv, NEW r \in Run, stage[r] = "storing", NEW c, NEW version,
         NEW supersedes, NEW superseding, NEW links,
         Write(r, c, version, supersedes, superseding, links), UNCHANGED memoryRows
  PROVE  \E id \in Id :
           /\ id[1] = r /\ id \notin DOMAIN Visible(r)
           /\ IsFiniteSet(DOMAIN tx'[r].new)
           /\ DOMAIN tx'[r].new = {<<r, m>> : m \in 1..Cardinality(DOMAIN tx'[r].new)}
           /\ DOMAIN tx'[r].new = DOMAIN tx[r].new \cup {id}
           /\ \A i \in DOMAIN tx[r].new : tx'[r].new[i] = tx[r].new[i]
           /\ tx'[r].new[id] = [key |-> c.key, value |-> c.value, state |-> c.state,
                                version |-> version, supersedes |-> supersedes,
                                at |-> tx[r].at, saw |-> DOMAIN items]
           /\ tx'[r].superseded = tx[r].superseded \cup superseding
           /\ tx'[r].links = tx[r].links \cup {<<id, i>> : i \in links}
                                \cup {<<i, id>> : i \in links}
           /\ tx'[r].at = tx[r].at
           /\ \A q \in Run \ {r} : tx'[q] = tx[q]
           /\ tx' = [q \in Run |-> [new |-> tx'[q].new, superseded |-> tx'[q].superseded,
                                    links |-> tx'[q].links, at |-> tx'[q].at]]
<1> DEFINE n == Cardinality(DOMAIN tx[r].new)
           id == <<r, n + 1>>
           row == [key |-> c.key, value |-> c.value, state |-> c.state,
                   version |-> version, supersedes |-> supersedes, at |-> tx[r].at,
                   saw |-> DOMAIN items]
           new == [i \in DOMAIN tx[r].new \cup {id} |-> IF i = id THEN row ELSE tx[r].new[i]]
           more == {<<id, i>> : i \in links}
           back == {<<i, id>> : i \in links}
<1>1. /\ IsFiniteSet(DOMAIN tx[r].new)
      /\ DOMAIN tx[r].new = {<<r, m>> : m \in 1..n}
      /\ \A i \in DOMAIN items : i[1] # r
  BY DEF MemoryInv, IdsAreFresh
<1>2. n \in Nat
  BY <1>1, FS_CardinalityType
<1>3. tx' = [tx EXCEPT ![r].new = new,
                       ![r].superseded = tx[r].superseded \cup superseding,
                       ![r].links = (tx[r].links \cup more) \cup back]
  BY DEF Write
<1>4. tx = [q \in Run |-> [new |-> tx[q].new, superseded |-> tx[q].superseded,
                           links |-> tx[q].links, at |-> tx[q].at]]
  BY DEF MemoryInv, Shapes
<1>5. id \in Id /\ id[1] = r /\ id \notin DOMAIN tx[r].new /\ id \notin DOMAIN items
  BY <1>1, <1>2 DEF Id
<1>6. DOMAIN Visible(r) = DOMAIN items \cup DOMAIN tx[r].new
  BY VisibleIs
<1> HIDE DEF new, more, back, id
<1>7. /\ tx'[r].new = new
      /\ tx'[r].superseded = tx[r].superseded \cup superseding
      /\ tx'[r].links = (tx[r].links \cup more) \cup back
      /\ tx'[r].at = tx[r].at
      /\ \A q \in Run \ {r} : tx'[q] = tx[q]
  BY <1>3, <1>4
<1>8. tx' = [q \in Run |-> [new |-> tx'[q].new, superseded |-> tx'[q].superseded,
                            links |-> tx'[q].links, at |-> tx'[q].at]]
  <2>1. tx' = [q \in Run |-> tx'[q]]
    BY <1>3, <1>4
  <2>2. ASSUME NEW q \in Run \ {r}
        PROVE  tx'[q] = [new |-> tx'[q].new, superseded |-> tx'[q].superseded,
                         links |-> tx'[q].links, at |-> tx'[q].at]
    BY <1>4, <1>7
  <2>3. tx[r] = [new |-> tx[r].new, superseded |-> tx[r].superseded,
                 links |-> tx[r].links, at |-> tx[r].at]
    BY <1>4
  <2>4. tx'[r] = [tx[r] EXCEPT !.new = new,
                               !.superseded = tx[r].superseded \cup superseding,
                               !.links = (tx[r].links \cup more) \cup back]
    BY <1>3, <1>4
  <2>5. tx'[r] = [new |-> tx'[r].new, superseded |-> tx'[r].superseded,
                  links |-> tx'[r].links, at |-> tx'[r].at]
    BY <2>3, <2>4
  <2> QED
    BY <2>1, <2>2, <2>5
<1>9. /\ DOMAIN new = DOMAIN tx[r].new \cup {id}
      /\ \A i \in DOMAIN tx[r].new : new[i] = tx[r].new[i]
      /\ new[id] = row
  BY <1>5 DEF new
<1>10. /\ IsFiniteSet(DOMAIN new)
       /\ Cardinality(DOMAIN new) = n + 1
  BY <1>1, <1>5, <1>9, FS_AddElement
<1>11. DOMAIN new = {<<r, m>> : m \in 1..(n + 1)}
  <2>1. 1..(n + 1) = (1..n) \cup {n + 1}
    BY <1>2
  <2> QED
    BY <1>1, <1>9, <2>1 DEF id
<1>12. /\ IsFiniteSet(DOMAIN tx'[r].new)
       /\ DOMAIN tx'[r].new = {<<r, m>> : m \in 1..Cardinality(DOMAIN tx'[r].new)}
  BY <1>7, <1>10, <1>11
<1>13. /\ DOMAIN tx'[r].new = DOMAIN tx[r].new \cup {id}
       /\ \A i \in DOMAIN tx[r].new : tx'[r].new[i] = tx[r].new[i]
       /\ tx'[r].new[id] = row
  BY <1>7, <1>9
<1>14. tx'[r].links = tx[r].links \cup {<<id, i>> : i \in links}
                         \cup {<<i, id>> : i \in links}
  BY <1>7 DEF more, back
<1>15. id \in Id /\ id[1] = r /\ id \notin DOMAIN Visible(r)
  BY <1>5, <1>6
<1> QED
  BY <1>7, <1>8, <1>12, <1>13, <1>14, <1>15, Zenon

\* A row that is right where it is written leaves every view right.
LEMMA WritePreserves ==
  ASSUME MemoryInv, NEW r \in Run, stage[r] = "storing", NEW c \in todo[r],
         NEW version \in Nat \ {0}, NEW supersedes,
         NEW superseding \in SUBSET DOMAIN Visible(r), NEW links \in SUBSET DOMAIN Visible(r),
         Write(r, c, version, supersedes, superseding, links),
         UNCHANGED <<memoryRows, stage, started>>,
         todo' = [todo EXCEPT ![r] = @ \ {c}],
         version > 1 =>
           /\ supersedes \in DOMAIN Visible(r)
           /\ Visible(r)[supersedes].key = c.key
           /\ version = Visible(r)[supersedes].version + 1
           /\ ValuesConflict(Visible(r)[supersedes].value, c.value)
           /\ \/ /\ supersedes \in superseding
                 /\ StoreStrength[c.state] > StoreStrength[Visible(r)[supersedes].state]
              \/ supersedes \in links,
         \A s \in DOMAIN items : items[s].key = c.key =>
           /\ items[s].version < version
           /\ \/ ValuesConflict(items[s].value, c.value)
              \/ \E k \in DOMAIN Visible(r) : /\ Visible(r)[k].key = c.key
                                              /\ Visible(r)[k].version >= items[s].version
                                              /\ ValuesConflict(Visible(r)[k].value, c.value),
         \A j \in superseding : Visible(r)[j].key = c.key /\ Visible(r)[j].version < version
  PROVE  MemoryInv'
<1> DEFINE V == Visible(r)
           W == Visible(r)'
           row(id) == [key |-> c.key, value |-> c.value, state |-> c.state,
                       version |-> version, supersedes |-> supersedes,
                       at |-> tx[r].at, saw |-> DOMAIN items]
<1>0. UNCHANGED <<items, superseded, contradicts>>
  BY DEF memoryRows
<1>w. PICK id \in Id :
           /\ id[1] = r /\ id \notin DOMAIN Visible(r)
           /\ IsFiniteSet(DOMAIN tx'[r].new)
           /\ DOMAIN tx'[r].new = {<<r, m>> : m \in 1..Cardinality(DOMAIN tx'[r].new)}
           /\ DOMAIN tx'[r].new = DOMAIN tx[r].new \cup {id}
           /\ \A i \in DOMAIN tx[r].new : tx'[r].new[i] = tx[r].new[i]
           /\ tx'[r].new[id] = row(id)
           /\ tx'[r].superseded = tx[r].superseded \cup superseding
           /\ tx'[r].links = tx[r].links \cup {<<id, i>> : i \in links}
                                \cup {<<i, id>> : i \in links}
           /\ tx'[r].at = tx[r].at
           /\ \A q \in Run \ {r} : tx'[q] = tx[q]
           /\ tx' = [q \in Run |-> [new |-> tx'[q].new, superseded |-> tx'[q].superseded,
                                    links |-> tx'[q].links, at |-> tx'[q].at]]
  BY WriteAdds DEF memoryRows
<1>v. /\ DOMAIN items \cap DOMAIN tx[r].new = {}
      /\ DOMAIN V = DOMAIN items \cup DOMAIN tx[r].new
      /\ \A i \in DOMAIN items : V[i] = items[i]
      /\ \A i \in DOMAIN tx[r].new : V[i] = tx[r].new[i]
      /\ \A i \in DOMAIN V : RowOK(V[i])
  BY VisibleIs
<1>1. /\ DOMAIN W = DOMAIN V \cup {id}
      /\ \A i \in DOMAIN V : W[i] = V[i]
      /\ W[id] = row(id)
  <2>1. DOMAIN W = DOMAIN items \cup DOMAIN tx'[r].new
    BY <1>0 DEF Visible
  <2>2. \A i \in DOMAIN items : W[i] = items[i]
    BY <1>0 DEF Visible
  <2>3. \A i \in DOMAIN tx'[r].new \ DOMAIN items : W[i] = tx'[r].new[i]
    BY <1>0 DEF Visible
  <2> HIDE DEF W, V, row
  <2> QED
    BY <1>w, <1>v, <2>1, <2>2, <2>3 DEF V
<1>2. \A q \in Run \ {r} : /\ Visible(q)' = Visible(q)
                           /\ Ended(q)' = Ended(q) /\ Links(q)' = Links(q)
  BY <1>0, <1>w DEF Visible, Ended, Links
<1>3. /\ c.state \in DOMAIN StoreStrength /\ tx[r].at \in Nat
      /\ DOMAIN items \subseteq Id
  BY DEF MemoryInv, Shapes, MemoryTypeOK
<1>4. RowOK(row(id))
  BY <1>3 DEF RowOK
<1>s. superseded \subseteq DOMAIN items
  BY DEF MemoryInv, MemoryTypeOK
<1>t. todo = [q \in Run |-> todo[q]]
  BY DEF MemoryInv, Shapes
<1> HIDE DEF W, V
<1>5. MemoryTypeOK'
  <2>1. ASSUME NEW q \in Run
        PROVE  /\ \A i \in DOMAIN tx'[q].new : i \in Id /\ i[1] = q /\ RowOK(tx'[q].new[i])
               /\ stage[q] # "storing" => tx'[q].new = <<>> /\ todo'[q] = {}
    <3>1. CASE q = r
      <4>1. \A i \in DOMAIN tx[r].new : i \in Id /\ i[1] = r /\ RowOK(tx[r].new[i])
        BY DEF MemoryInv, MemoryTypeOK
      <4> HIDE DEF row
      <4> QED
        BY <1>w, <1>4, <3>1, <4>1, Zenon
    <3>2. CASE q # r
      BY <1>w, <1>t, <3>2 DEF MemoryInv, MemoryTypeOK
    <3> QED
      BY <3>1, <3>2
  <2> QED
    BY <1>0, <2>1 DEF MemoryInv, MemoryTypeOK, RowOK
<1>6. Shapes'
  <2>1. \A q \in Run : tx'[q].at \in Nat
    BY <1>w DEF MemoryInv, Shapes
  <2>2. \A q \in Run : todo'[q] \subseteq todo[q]
    BY <1>t
  <2>3. todo' = [q \in Run |-> todo'[q]]
    BY <1>t
  <2>4. \A q \in Run : \A d \in todo'[q] : d.state \in DOMAIN StoreStrength
    BY <2>2 DEF MemoryInv, Shapes
  <2> HIDE DEF row
  <2> QED
    BY <1>w, <2>1, <2>3, <2>4, Zenon DEF Shapes
<1>7. IdsAreFresh'
  <2> HIDE DEF row
  <2>1. ASSUME NEW q \in Run
        PROVE  /\ IsFiniteSet(DOMAIN tx'[q].new)
               /\ DOMAIN tx'[q].new = {<<q, m>> : m \in 1..Cardinality(DOMAIN tx'[q].new)}
    <3>1. CASE q = r
      <4>1. /\ IsFiniteSet(DOMAIN tx'[r].new)
            /\ DOMAIN tx'[r].new = {<<r, m>> : m \in 1..Cardinality(DOMAIN tx'[r].new)}
        BY <1>w
      <4> QED
        BY <3>1, <4>1
    <3>2. CASE q # r
      <4>1. tx'[q] = tx[q]
        BY <1>w, <3>2
      <4> QED
        BY <4>1, Zenon DEF MemoryInv, IdsAreFresh
    <3> QED
      BY <3>1, <3>2
  <2>2. \A q \in Run : stage'[q] # "done" => \A i \in DOMAIN items' : i[1] # q
    BY <1>0 DEF MemoryInv, IdsAreFresh
  <2> QED
    BY <2>1, <2>2 DEF IdsAreFresh
<1>8. \A i \in DOMAIN tx'[r].new : GoodRow(W, Ended(r)', Links(r)', i)
  <2>1. Ended(r) \subseteq Ended(r)' /\ Links(r) \subseteq Links(r)'
    BY <1>0, <1>w DEF Ended, Links
  <2>2. ASSUME NEW i \in DOMAIN tx[r].new PROVE GoodRow(W, Ended(r)', Links(r)', i)
    <3>1. GoodRow(V, Ended(r), Links(r), i)
      BY DEF MemoryInv, ViewsAreGood, V
    <3>2. i \in DOMAIN V /\ DOMAIN V \subseteq DOMAIN W /\ \A x \in DOMAIN V : W[x] = V[x]
      BY <1>1, <1>v
    <3> QED
      BY <2>1, <3>1, <3>2, GoodStays
  <2>3. GoodRow(W, Ended(r)', Links(r)', id)
    <3>1. W[id].saw \subseteq DOMAIN W
      BY <1>1, <1>v
    <3>2. ASSUME W[id].version > 1
          PROVE  /\ W[id].supersedes \in DOMAIN W
                 /\ W[W[id].supersedes].key = W[id].key
                 /\ W[id].version = W[W[id].supersedes].version + 1
                 /\ ValuesConflict(W[W[id].supersedes].value, W[id].value)
                 /\ \/ /\ W[id].supersedes \in Ended(r)'
                       /\ StoreStrength[W[id].state]
                            > StoreStrength[W[W[id].supersedes].state]
                    \/ {<<id, W[id].supersedes>>, <<W[id].supersedes, id>>} \subseteq Links(r)'
      <4>1. /\ W[id].version = version /\ W[id].supersedes = supersedes
            /\ W[id].key = c.key /\ W[id].value = c.value /\ W[id].state = c.state
        BY <1>1
      <4>2. /\ supersedes \in DOMAIN V /\ W[supersedes] = V[supersedes]
            /\ V[supersedes].key = c.key
            /\ version = V[supersedes].version + 1
            /\ ValuesConflict(V[supersedes].value, c.value)
        BY <1>1, <3>2, <4>1 DEF V
      <4>3. \/ /\ supersedes \in Ended(r)'
               /\ StoreStrength[c.state] > StoreStrength[V[supersedes].state]
            \/ {<<id, supersedes>>, <<supersedes, id>>} \subseteq Links(r)'
        <5>1. superseding \subseteq Ended(r)'
          BY <1>w DEF Ended
        <5>2. \A l \in links : {<<id, l>>, <<l, id>>} \subseteq Links(r)'
          BY <1>w DEF Links
        <5>3. \/ /\ supersedes \in superseding
                 /\ StoreStrength[c.state] > StoreStrength[V[supersedes].state]
              \/ supersedes \in links
          BY <3>2, <4>1 DEF V
        <5> QED
          BY <5>1, <5>2, <5>3
      <4> QED
        BY <1>1, <4>1, <4>2, <4>3
    <3>3. ASSUME NEW s \in W[id].saw, W[s].key = W[id].key
          PROVE  /\ W[s].version < W[id].version
                 /\ \/ ValuesConflict(W[s].value, W[id].value)
                    \/ \E k \in DOMAIN W : /\ W[k].key = W[id].key
                                           /\ W[k].version >= W[s].version
                                           /\ ValuesConflict(W[k].value, W[id].value)
      <4>1. s \in DOMAIN items /\ W[s] = items[s]
        BY <1>1, <1>v, <3>3
      <4>2. W[id].key = c.key /\ W[id].value = c.value /\ W[id].version = version
        BY <1>1
      <4>3. /\ items[s].version < version
            /\ \/ ValuesConflict(items[s].value, c.value)
               \/ \E k \in DOMAIN V : /\ V[k].key = c.key
                                      /\ V[k].version >= items[s].version
                                      /\ ValuesConflict(V[k].value, c.value)
        BY <3>3, <4>1, <4>2 DEF V
      <4> QED
        BY <1>1, <4>1, <4>2, <4>3
    <3> QED
      BY <3>1, <3>2, <3>3 DEF GoodRow
  <2> QED
    BY <1>w, <2>2, <2>3
<1>9. LinksWithin(W, tx'[r].links)
  <2>1. LinksWithin(V, tx[r].links)
    BY DEF MemoryInv, ViewsAreGood, V
  <2>2. DOMAIN V \cup {id} \subseteq DOMAIN W /\ links \subseteq DOMAIN V
    BY <1>1 DEF V
  <2>3. tx'[r].links = tx[r].links \cup {<<id, i>> : i \in links}
                          \cup {<<i, id>> : i \in links}
    BY <1>w
  <2> QED
    <3>1. ASSUME NEW l \in tx[r].links
          PROVE  <<l[2], l[1]>> \in tx'[r].links /\ {l[1], l[2]} \subseteq DOMAIN W
      BY <2>1, <2>2, <2>3 DEF LinksWithin
    <3>2. ASSUME NEW i \in links
          PROVE  /\ <<i, id>> \in tx'[r].links /\ <<id, i>> \in tx'[r].links
                 /\ {i, id} \subseteq DOMAIN W
      BY <2>2, <2>3
    <3>3. ASSUME NEW l \in tx'[r].links
          PROVE  <<l[2], l[1]>> \in tx'[r].links /\ {l[1], l[2]} \subseteq DOMAIN W
      <4>1. \/ l \in tx[r].links
            \/ \E i \in links : l = <<id, i>> \/ l = <<i, id>>
        BY <2>3
      <4>2. ASSUME NEW i \in links, l = <<id, i>> \/ l = <<i, id>>
            PROVE  <<l[2], l[1]>> \in tx'[r].links /\ {l[1], l[2]} \subseteq DOMAIN W
        BY <3>2, <4>2
      <4> QED
        BY <3>1, <4>1, <4>2
    <3> QED
      BY <3>3 DEF LinksWithin
<1>10. ViewsAreGood'
  <2>1. /\ \A i \in DOMAIN items' : GoodRow(items', superseded', contradicts', i)
        /\ LinksWithin(items', contradicts')
        /\ CurrentIn(items', superseded')
    BY <1>0 DEF MemoryInv, ViewsAreGood
  <2>2. ASSUME NEW q \in Run \ {r}
        PROVE  /\ \A i \in DOMAIN tx'[q].new : GoodRow(Visible(q)', Ended(q)', Links(q)', i)
               /\ LinksWithin(Visible(q)', tx'[q].links)
    BY <1>2, <1>w DEF MemoryInv, ViewsAreGood
  <2> QED
    BY <1>8, <1>9, <2>1, <2>2, Zenon DEF ViewsAreGood, W
<1>11. Replaced'
  <2>1. ASSUME NEW q \in Run \ {r}
        PROVE  /\ tx'[q].superseded \subseteq DOMAIN Visible(q)'
               /\ \A j \in tx'[q].superseded :
                    \E t \in DOMAIN tx'[q].new \ tx'[q].superseded :
                      /\ Visible(q)'[t].key = Visible(q)'[j].key
                      /\ Visible(q)'[t].version > Visible(q)'[j].version
    <3>1. tx'[q] = tx[q] /\ Visible(q)' = Visible(q)
      BY <1>2, <1>w
    <3>2. /\ tx[q].superseded \subseteq DOMAIN Visible(q)
          /\ \A j \in tx[q].superseded :
               \E t \in DOMAIN tx[q].new \ tx[q].superseded :
                 /\ Visible(q)[t].key = Visible(q)[j].key
                 /\ Visible(q)[t].version > Visible(q)[j].version
      BY Zenon DEF MemoryInv, Replaced
    <3> QED
      BY <3>1, <3>2, Zenon
  <2>o. /\ tx[r].superseded \subseteq DOMAIN V
        /\ \A j \in tx[r].superseded : \E t \in DOMAIN tx[r].new \ tx[r].superseded :
             V[t].key = V[j].key /\ V[t].version > V[j].version
    BY Zenon DEF MemoryInv, Replaced, V
  <2>n. \A i \in DOMAIN V : V[i].version \in Nat
    BY <1>v DEF RowOK
  <2>d. superseding \subseteq DOMAIN V
    BY DEF V
  <2>2. tx'[r].superseded \subseteq DOMAIN W
    BY <1>1, <1>w, <2>o, <2>d
  <2>3. /\ id \in DOMAIN tx'[r].new \ tx'[r].superseded
        /\ W[id].key = c.key /\ W[id].version = version
    BY <1>1, <1>w, <2>o, <2>d DEF V
  <2>4. ASSUME NEW j \in superseding PROVE W[j].key = c.key /\ W[j].version < version
    BY <1>1, <2>d DEF V
  <2>5. ASSUME NEW j \in tx[r].superseded
        PROVE  \E t \in DOMAIN tx'[r].new \ tx'[r].superseded :
                 W[t].key = W[j].key /\ W[t].version > W[j].version
    <3>1. PICK t \in DOMAIN tx[r].new \ tx[r].superseded :
            V[t].key = V[j].key /\ V[t].version > V[j].version
      BY <2>o
    <3>2. j \in DOMAIN V /\ t \in DOMAIN V /\ W[j] = V[j] /\ W[t] = V[t]
      BY <1>1, <1>v, <2>o
    <3>3. CASE t \in superseding
      <4>1. W[t].key = c.key /\ W[t].version < version
        BY <2>4, <3>3
      <4> QED
        BY <2>3, <2>n, <3>1, <3>2, <4>1
    <3>4. CASE t \notin superseding
      BY <1>w, <3>1, <3>2, <3>4
    <3> QED
      BY <3>3, <3>4
  <2>6. ASSUME NEW j \in tx'[r].superseded
        PROVE  \E t \in DOMAIN tx'[r].new \ tx'[r].superseded :
                 W[t].key = W[j].key /\ W[t].version > W[j].version
    <3>1. j \in tx[r].superseded \/ j \in superseding
      BY <1>w
    <3>2. CASE j \in superseding
      <4>1. W[j].key = c.key /\ W[j].version < version /\ W[j].version \in Nat
        BY <1>1, <2>4, <2>d, <2>n, <3>2
      <4> QED
        BY <2>3, <4>1
    <3> QED
      BY <2>5, <3>1, <3>2
  <2> QED
    BY <2>1, <2>2, <2>6, Zenon DEF Replaced, W
<1> QED
  BY <1>5, <1>6, <1>7, <1>10, <1>11 DEF MemoryInv

-----------------------------------------------------------------------------
LEMMA MemoryInitEstablishes == MemoryInit => MemoryInv
<1> SUFFICES ASSUME MemoryInit PROVE MemoryInv
  OBVIOUS
<1> USE DEF MemoryInit, EmptyTx
<1>0. DOMAIN items = {} /\ \A r \in Run : DOMAIN tx[r].new = {}
  OBVIOUS
<1>1. MemoryTypeOK
  BY <1>0 DEF MemoryTypeOK
<1>2. Shapes
  BY DEF Shapes
<1>3. IdsAreFresh
  <2>1. IsFiniteSet({}) /\ Cardinality({}) = 0
    BY FS_EmptySet
  <2>2. \A r \in Run : {} = {<<r, m>> : m \in 1..0}
    OBVIOUS
  <2>3. ASSUME NEW r \in Run
        PROVE  /\ IsFiniteSet(DOMAIN tx[r].new)
               /\ DOMAIN tx[r].new = {<<r, m>> : m \in 1..Cardinality(DOMAIN tx[r].new)}
    BY <1>0, <2>1, <2>2
  <2> QED
    BY <1>0, <2>3 DEF IdsAreFresh
<1>4. ViewsAreGood
  BY <1>0 DEF ViewsAreGood, LinksWithin, CurrentIn
<1>5. Replaced
  BY <1>0 DEF Replaced
<1> QED
  BY <1>1, <1>2, <1>3, <1>4, <1>5 DEF MemoryInv

\* The states of findings, and so of candidates, are evidence states.
LEMMA FindingStates ==
  ASSUME NEW f, NEW quoted, NEW x \in Findings(f, quoted)
  PROVE  x.state \in DOMAIN StoreStrength
<1> DEFINE States == {"CALCULATED", "UNKNOWN", "SUPPLIER_CLAIM", "CONTRADICTED",
                      "EXTERNAL_MARKET_EVIDENCE"}
<1>1. PICK y \in ConcentrationFindings(f) \cup StrategyFindings(f, quoted)
                   \cup StatementFindings(f) \cup MovementFindings(f) : x = Guarded(y)
  BY DEF Findings
<1>2. \E fact, supplier, label, figures, implied, impact : \E state \in States :
        y = Finding(fact, supplier, label, figures, implied, state, impact)
  <2>1. CASE y \in ConcentrationFindings(f)
    BY <2>1 DEF ConcentrationFindings
  <2>2. CASE y \in StrategyFindings(f, quoted)
    BY <2>2 DEF StrategyFindings
  <2>3. CASE y \in StatementFindings(f)
    BY <2>3 DEF StatementFindings
  <2>4. CASE y \in MovementFindings(f)
    BY <2>4 DEF MovementFindings
  <2> QED
    BY <1>1, <2>1, <2>2, <2>3, <2>4
<1>3. x.state \in States
  <2> DEFINE guarded ==
        IF y.state = "CONTRADICTED" /\ y.impact = "BACKGROUND" THEN "MATERIAL_RISK"
        ELSE IF y.state = "SUPPLIER_CLAIM" /\ y.impact = "DECISION_CHANGING"
        THEN "DECISION_CRITICAL_UNKNOWN" ELSE y.impact
  <2>1. x = [y EXCEPT !.impact = guarded]
    BY <1>1 DEF Guarded
  <2> HIDE DEF guarded
  <2>2. PICK fact, supplier, label, figures, implied, impact :
          \E state \in States :
            y = Finding(fact, supplier, label, figures, implied, state, impact)
    BY <1>2
  <2>3. y.state \in States /\ x.state = y.state
    BY <2>1, <2>2 DEF Finding
  <2> QED
    BY <2>3
<1> QED
  BY <1>3 DEF StoreStrength

\* What a transaction supersedes stays replaced while it sees the same.
LEMMA ReplacedStays ==
  ASSUME Replaced,
         \A q \in Run : /\ tx'[q].superseded = tx[q].superseded
                        /\ tx'[q].new = tx[q].new
                        /\ Visible(q)' = Visible(q)
  PROVE  Replaced'
<1> SUFFICES ASSUME NEW q \in Run
             PROVE  /\ tx[q].superseded \subseteq DOMAIN Visible(q)
                    /\ \A j \in tx[q].superseded :
                         \E t \in DOMAIN tx[q].new \ tx[q].superseded :
                           /\ Visible(q)[t].key = Visible(q)[j].key
                           /\ Visible(q)[t].version > Visible(q)[j].version
  BY Zenon DEF Replaced
<1> QED
  BY Zenon DEF Replaced

\* Composing an answer writes no row.
LEMMA ComposePreserves ==
  ASSUME MemoryInv, NEW r \in Run, NEW f \in Facts, Compose(r, f)
  PROVE  MemoryInv'
<1>1. PICK seen :
        /\ todo' = [todo EXCEPT ![r] = Candidates(f, seen)]
        /\ compared' = [compared EXCEPT ![r] = Comparisons(f, seen)]
  BY DEF Compose
<1>2. \A c \in Candidates(f, seen) : c.state \in DOMAIN StoreStrength
  BY FindingStates DEF Candidates
<1>3. /\ stage[r] = "idle" /\ started' = started + 1
      /\ tx' = [tx EXCEPT ![r].at = started + 1]
      /\ stage' = [stage EXCEPT ![r] = "storing"]
      /\ UNCHANGED <<items, superseded, contradicts>>
  BY DEF Compose, memoryRows
<1>4. /\ started \in Nat /\ stage \in [Run -> {"idle", "storing", "done"}]
      /\ tx = [q \in Run |-> [new |-> tx[q].new, superseded |-> tx[q].superseded,
                              links |-> tx[q].links, at |-> tx[q].at]]
      /\ todo = [q \in Run |-> todo[q]]
  BY DEF MemoryInv, MemoryTypeOK, Shapes
<1>5. \A q \in Run : /\ tx'[q].new = tx[q].new /\ tx'[q].superseded = tx[q].superseded
                     /\ tx'[q].links = tx[q].links
                     /\ tx'[q].at = IF q = r THEN started + 1 ELSE tx[q].at
  BY <1>3, <1>4
<1>6. tx' = [q \in Run |-> [new |-> tx'[q].new, superseded |-> tx'[q].superseded,
                            links |-> tx'[q].links, at |-> tx'[q].at]]
  <2>1. tx' = [q \in Run |-> tx'[q]]
    BY <1>3, <1>4
  <2>2. ASSUME NEW q \in Run
        PROVE  tx'[q] = [new |-> tx'[q].new, superseded |-> tx'[q].superseded,
                         links |-> tx'[q].links, at |-> tx'[q].at]
    <3>1. tx[q] = [new |-> tx[q].new, superseded |-> tx[q].superseded,
                   links |-> tx[q].links, at |-> tx[q].at]
      BY <1>4
    <3>2. tx'[q] = tx[q] \/ tx'[q] = [tx[q] EXCEPT !.at = started + 1]
      BY <1>3, <1>4
    <3> QED
      BY <3>1, <3>2
  <2> QED
    BY <2>1, <2>2
<1>7. \A q \in Run : stage'[q] = (IF q = r THEN "storing" ELSE stage[q])
  BY <1>3, <1>4
<1>8. /\ todo'[r] = Candidates(f, seen)
      /\ \A q \in Run \ {r} : todo'[q] = todo[q]
      /\ todo' = [q \in Run |-> todo'[q]]
  BY <1>1, <1>4
<1>9. MemoryTypeOK'
  <2>1. stage' \in [Run -> {"idle", "storing", "done"}] /\ started' \in Nat
    BY <1>3, <1>4
  <2>2. ASSUME NEW q \in Run
        PROVE  /\ \A i \in DOMAIN tx'[q].new : i \in Id /\ i[1] = q /\ RowOK(tx'[q].new[i])
               /\ stage'[q] # "storing" => tx'[q].new = <<>> /\ todo'[q] = {}
    BY <1>5, <1>7, <1>8 DEF MemoryInv, MemoryTypeOK
  <2> QED
    BY <1>3, <2>1, <2>2 DEF MemoryInv, MemoryTypeOK
<1>10. Shapes'
  <2>1. \A q \in Run : tx'[q].at \in Nat
    BY <1>4, <1>5 DEF MemoryInv, Shapes
  <2>2. \A q \in Run : \A c \in todo'[q] : c.state \in DOMAIN StoreStrength
    BY <1>2, <1>8 DEF MemoryInv, Shapes
  <2> QED
    BY <1>6, <1>8, <2>1, <2>2, Zenon DEF Shapes
<1>11. IdsAreFresh'
  BY <1>3, <1>5, <1>7 DEF MemoryInv, IdsAreFresh
<1>12. \A q \in Run : /\ Visible(q)' = Visible(q)
                      /\ Ended(q)' = Ended(q) /\ Links(q)' = Links(q)
  BY <1>3, <1>5 DEF Visible, Ended, Links
<1>13. ViewsAreGood'
  BY <1>3, <1>5, <1>12, Zenon DEF MemoryInv, ViewsAreGood
<1>14. Replaced'
  BY <1>5, <1>12, ReplacedStays DEF MemoryInv
<1> QED
  BY <1>9, <1>10, <1>11, <1>13, <1>14 DEF MemoryInv

\* One candidate is stored.
LEMMA StoreOnePreserves == ASSUME MemoryInv, NEW r \in Run, StoreOne(r) PROVE MemoryInv'
<1> DEFINE V == Visible(r)
<1>1. PICK c \in todo[r] : /\ StoreFirst(r, c) \/ StoreDuplicate(r, c) \/ StoreConflict(r, c)
                           /\ todo' = [todo EXCEPT ![r] = @ \ {c}]
  BY DEF StoreOne
<1>2. stage[r] = "storing" /\ UNCHANGED <<memoryRows, stage, compared, started>>
  BY DEF StoreOne
<1>v. /\ DOMAIN V = DOMAIN items \cup DOMAIN tx[r].new
      /\ \A i \in DOMAIN items : V[i] = items[i]
      /\ \A i \in DOMAIN V : V[i].version \in Nat \ {0}
  BY VisibleIs DEF RowOK
<1>c. \A i \in DOMAIN V : \E j \in DOMAIN V \ Ended(r) :
        V[j].key = V[i].key /\ V[j].version >= V[i].version
  BY CurrentVisible DEF CurrentIn
<1>e. CurrentOf(r, c.key) = {i \in DOMAIN V : V[i].key = c.key /\ i \notin Ended(r)}
  BY DEF CurrentOf, Ended
\* No record of the proposition is current, so there is none.
<1>3. ASSUME StoreFirst(r, c) PROVE MemoryInv'
  <2> DEFINE none == {}
             one == 1
  <2>1. Write(r, c, one, NoItem, none, none) /\ CurrentOf(r, c.key) = {}
    BY <1>3 DEF StoreFirst
  <2>2. \A s \in DOMAIN items : items[s].key # c.key
    <3> HIDE DEF V
    <3> QED
      BY <1>c, <1>e, <1>v, <2>1
  <2>3. /\ one \in Nat \ {0} /\ ~(one > 1)
        /\ none \in SUBSET DOMAIN Visible(r)
        /\ \A j : j \notin none
    OBVIOUS
  <2>4. UNCHANGED <<memoryRows, stage, started>>
    BY <1>2
  <2> HIDE DEF none, one
  <2>5. MemoryInv'
    BY <1>1, <1>2, <2>1, <2>2, <2>3, <2>4, WritePreserves
  <2> QED
    BY <2>5
\* The newest that is current is as late as any record of the proposition.
<1>4. ASSUME StoreConflict(r, c) PROVE MemoryInv'
  <2> DEFINE stronger(old) == StoreStrength[c.state] > StoreStrength[V[old].state]
             superseding(old) == IF stronger(old) THEN {old} ELSE {}
             links(old) == IF stronger(old) THEN {} ELSE {old}
  <2>1. PICK old \in Newest(r, c.key) :
          /\ ValuesConflict(V[old].value, c.value)
          /\ Write(r, c, V[old].version + 1, old, superseding(old), links(old))
    BY <1>4, Zenon DEF StoreConflict
  <2>2. /\ old \in DOMAIN V /\ V[old].key = c.key
        /\ \A j \in DOMAIN V \ Ended(r) : V[j].key = c.key => V[j].version <= V[old].version
    BY <1>e DEF Newest
  <2>3. V[old].version \in Nat \ {0} /\ V[old].version + 1 \in Nat \ {0}
    BY <1>v, <2>2
  <2> HIDE DEF V
  <2>4. \A s \in DOMAIN items : items[s].key = c.key => items[s].version <= V[old].version
    BY <1>c, <1>v, <2>2
  <2>5. superseding(old) \in SUBSET DOMAIN V /\ links(old) \in SUBSET DOMAIN V
    BY <2>2
  <2>6. \/ old \in superseding(old) /\ stronger(old)
        \/ old \in links(old)
    BY Zenon
  <2>7. \A j \in superseding(old) : V[j].key = c.key /\ V[j].version < V[old].version + 1
    BY <2>2, <2>3
  <2>8. \A s \in DOMAIN items : items[s].key = c.key =>
          /\ items[s].version < V[old].version + 1
          /\ \E k \in DOMAIN V : /\ V[k].key = c.key
                                 /\ V[k].version >= items[s].version
                                 /\ ValuesConflict(V[k].value, c.value)
    BY <1>v, <2>1, <2>2, <2>3, <2>4
  <2>9. MemoryInv'
    BY <1>1, <1>2, <2>1, <2>2, <2>3, <2>5, <2>6, <2>7, <2>8, WritePreserves DEF V
  <2> QED
    BY <2>9
\* The value is there already: only the candidate goes.
<1>5. ASSUME StoreDuplicate(r, c) PROVE MemoryInv'
  <2>1. /\ UNCHANGED <<items, superseded, contradicts, stage, started, tx>>
        /\ todo = [q \in Run |-> todo[q]]
    BY <1>2, <1>5 DEF StoreDuplicate, memoryRows, MemoryInv, Shapes
  <2>2. \A q \in Run : todo'[q] \subseteq todo[q]
    BY <1>1, <2>1
  <2>3. todo' = [q \in Run |-> todo'[q]]
    BY <1>1, <2>1
  <2>4. MemoryTypeOK'
    BY <2>1, <2>2 DEF MemoryInv, MemoryTypeOK, RowOK
  <2>5. Shapes'
    <3>1. \A q \in Run : \A d \in todo'[q] : d.state \in DOMAIN StoreStrength
      BY <2>2 DEF MemoryInv, Shapes
    <3>2. /\ \A q \in Run : tx'[q].at \in Nat
          /\ tx' = [q \in Run |-> [new |-> tx'[q].new, superseded |-> tx'[q].superseded,
                                   links |-> tx'[q].links, at |-> tx'[q].at]]
      BY <2>1, Zenon DEF MemoryInv, Shapes
    <3> QED
      BY <2>3, <3>1, <3>2, Zenon DEF Shapes
  <2>6. IdsAreFresh' /\ Replaced'
    <3>1. IdsAreFresh'
      BY <2>1, Zenon DEF MemoryInv, IdsAreFresh
    <3>2. \A q \in Run : Visible(q)' = Visible(q)
      BY <2>1, Zenon DEF Visible
    <3> QED
      BY <2>1, <3>1, <3>2, ReplacedStays DEF MemoryInv
  <2>7. ViewsAreGood'
    BY <2>1, Zenon DEF MemoryInv, ViewsAreGood, Visible, Ended, Links
  <2> QED
    BY <2>4, <2>5, <2>6, <2>7 DEF MemoryInv
<1> QED
  BY <1>1, <1>3, <1>4, <1>5

-----------------------------------------------------------------------------
\* A transaction that ends lets go of what it has written.
LEMMA EndsEmpty ==
  ASSUME MemoryInv, NEW r \in Run, tx' = [tx EXCEPT ![r] = EmptyTx],
         \A q \in Run : todo'[q] \subseteq todo[q], todo' = [q \in Run |-> todo'[q]]
  PROVE  /\ tx'[r] = EmptyTx /\ DOMAIN tx'[r].new = {}
         /\ tx'[r].new = <<>> /\ tx'[r].superseded = {} /\ tx'[r].links = {}
         /\ \A q \in Run \ {r} : tx'[q] = tx[q]
         /\ Shapes'
<1>1. tx = [q \in Run |-> [new |-> tx[q].new, superseded |-> tx[q].superseded,
                           links |-> tx[q].links, at |-> tx[q].at]]
  BY DEF MemoryInv, Shapes
<1>2. tx'[r] = EmptyTx /\ \A q \in Run \ {r} : tx'[q] = tx[q]
  BY <1>1
<1>3. /\ EmptyTx.new = <<>> /\ EmptyTx.superseded = {} /\ EmptyTx.links = {}
      /\ EmptyTx.at = 0 /\ DOMAIN EmptyTx.new = {}
      /\ EmptyTx = [new |-> EmptyTx.new, superseded |-> EmptyTx.superseded,
                    links |-> EmptyTx.links, at |-> EmptyTx.at]
  BY DEF EmptyTx
<1>4. tx' = [q \in Run |-> [new |-> tx'[q].new, superseded |-> tx'[q].superseded,
                            links |-> tx'[q].links, at |-> tx'[q].at]]
  <2>1. tx' = [q \in Run |-> tx'[q]]
    BY <1>1
  <2>2. ASSUME NEW q \in Run
        PROVE  tx'[q] = [new |-> tx'[q].new, superseded |-> tx'[q].superseded,
                         links |-> tx'[q].links, at |-> tx'[q].at]
    <3>1. tx[q] = [new |-> tx[q].new, superseded |-> tx[q].superseded,
                   links |-> tx[q].links, at |-> tx[q].at]
      BY <1>1
    <3> QED
      BY <1>2, <1>3, <3>1
  <2> QED
    BY <2>1, <2>2
<1>5. \A q \in Run : tx'[q].at \in Nat
  BY <1>2, <1>3 DEF MemoryInv, Shapes
<1>6. \A q \in Run : \A d \in todo'[q] : d.state \in DOMAIN StoreStrength
  BY DEF MemoryInv, Shapes
<1>7. Shapes'
  BY <1>4, <1>5, <1>6, Zenon DEF Shapes
<1> QED
  BY <1>2, <1>3, <1>7

\* Rolled back: nothing was there.
LEMMA FailPreserves == ASSUME MemoryInv, NEW r \in Run, StoreFails(r) PROVE MemoryInv'
<1>1. /\ stage[r] = "storing" /\ tx' = [tx EXCEPT ![r] = EmptyTx]
      /\ todo' = [todo EXCEPT ![r] = {}]
      /\ stage' = [stage EXCEPT ![r] = "done"]
      /\ UNCHANGED <<items, superseded, contradicts, started>>
  BY DEF StoreFails, memoryRows
<1>2. todo = [q \in Run |-> todo[q]] /\ stage \in [Run -> {"idle", "storing", "done"}]
  BY DEF MemoryInv, Shapes, MemoryTypeOK
<1>3. /\ \A q \in Run : todo'[q] \subseteq todo[q]
      /\ todo' = [q \in Run |-> todo'[q]]
      /\ todo'[r] = {} /\ \A q \in Run \ {r} : todo'[q] = todo[q]
      /\ stage' \in [Run -> {"idle", "storing", "done"}]
      /\ stage'[r] = "done" /\ \A q \in Run \ {r} : stage'[q] = stage[q]
  BY <1>1, <1>2
<1>4. /\ DOMAIN tx'[r].new = {} /\ tx'[r].new = <<>>
      /\ tx'[r].superseded = {} /\ tx'[r].links = {}
      /\ \A q \in Run \ {r} : tx'[q] = tx[q]
      /\ Shapes'
  BY <1>1, <1>3, EndsEmpty
<1>5. MemoryTypeOK'
  <2>1. ASSUME NEW q \in Run
        PROVE  /\ \A i \in DOMAIN tx'[q].new : i \in Id /\ i[1] = q /\ RowOK(tx'[q].new[i])
               /\ stage'[q] # "storing" => tx'[q].new = <<>> /\ todo'[q] = {}
    <3>1. CASE q = r
      BY <1>3, <1>4, <3>1
    <3>2. CASE q # r
      <4>1. tx'[q] = tx[q] /\ stage'[q] = stage[q] /\ todo'[q] = todo[q]
        BY <1>3, <1>4, <3>2
      <4> QED
        BY <4>1, Zenon DEF MemoryInv, MemoryTypeOK
    <3> QED
      BY <3>1, <3>2
  <2> QED
    BY <1>1, <1>3, <2>1 DEF MemoryInv, MemoryTypeOK
<1>6. IdsAreFresh'
  <2>1. ASSUME NEW q \in Run
        PROVE  /\ IsFiniteSet(DOMAIN tx'[q].new)
               /\ DOMAIN tx'[q].new = {<<q, m>> : m \in 1..Cardinality(DOMAIN tx'[q].new)}
               /\ stage'[q] # "done" => \A i \in DOMAIN items' : i[1] # q
    <3>1. CASE q = r
      <4>1. IsFiniteSet({}) /\ Cardinality({}) = 0 /\ {} = {<<q, m>> : m \in 1..0}
        BY FS_EmptySet
      <4> QED
        BY <1>3, <1>4, <3>1, <4>1
    <3>2. CASE q # r
      <4>1. tx'[q] = tx[q] /\ stage'[q] = stage[q] /\ items' = items
        BY <1>1, <1>3, <1>4, <3>2
      <4> QED
        BY <4>1, Zenon DEF MemoryInv, IdsAreFresh
    <3> QED
      BY <3>1, <3>2
  <2> QED
    BY <2>1 DEF IdsAreFresh
<1>7. ASSUME NEW q \in Run \ {r}
      PROVE  /\ tx'[q] = tx[q] /\ Visible(q)' = Visible(q)
             /\ Ended(q)' = Ended(q) /\ Links(q)' = Links(q)
  BY <1>1, <1>4 DEF Visible, Ended, Links
<1>8. ViewsAreGood'
  <2>1. /\ \A i \in DOMAIN items' : GoodRow(items', superseded', contradicts', i)
        /\ LinksWithin(items', contradicts')
        /\ CurrentIn(items', superseded')
    BY <1>1 DEF MemoryInv, ViewsAreGood
  <2>2. ASSUME NEW q \in Run
        PROVE  /\ \A i \in DOMAIN tx'[q].new : GoodRow(Visible(q)', Ended(q)', Links(q)', i)
               /\ LinksWithin(Visible(q)', tx'[q].links)
    <3>1. CASE q = r
      BY <1>4, <3>1 DEF LinksWithin
    <3>2. CASE q # r
      BY <1>7, <3>2, Zenon DEF MemoryInv, ViewsAreGood
    <3> QED
      BY <3>1, <3>2
  <2> QED
    BY <2>1, <2>2, Zenon DEF ViewsAreGood
<1>9. Replaced'
  <2>1. ASSUME NEW q \in Run
        PROVE  /\ tx'[q].superseded \subseteq DOMAIN Visible(q)'
               /\ \A j \in tx'[q].superseded :
                    \E t \in DOMAIN tx'[q].new \ tx'[q].superseded :
                      /\ Visible(q)'[t].key = Visible(q)'[j].key
                      /\ Visible(q)'[t].version > Visible(q)'[j].version
    <3>1. CASE q = r
      BY <1>4, <3>1
    <3>2. CASE q # r
      <4>1. /\ tx[q].superseded \subseteq DOMAIN Visible(q)
            /\ \A j \in tx[q].superseded :
                 \E t \in DOMAIN tx[q].new \ tx[q].superseded :
                   /\ Visible(q)[t].key = Visible(q)[j].key
                   /\ Visible(q)[t].version > Visible(q)[j].version
        BY Zenon DEF MemoryInv, Replaced
      <4>2. tx'[q] = tx[q] /\ Visible(q)' = Visible(q)
        BY <1>7, <3>2
      <4> QED
        BY <4>1, <4>2, Zenon
    <3> QED
      BY <3>1, <3>2
  <2> QED
    BY <2>1, Zenon DEF Replaced
<1> QED
  BY <1>4, <1>5, <1>6, <1>8, <1>9 DEF MemoryInv

\* Committed: what the transaction saw is what everybody sees.
LEMMA CommitKeeps == ASSUME MemoryInv, NEW r \in Run, StoreCommit(r) PROVE MemoryInv'
<1> DEFINE V == Visible(r)
<1>1. /\ stage[r] = "storing" /\ tx' = [tx EXCEPT ![r] = EmptyTx]
      /\ stage' = [stage EXCEPT ![r] = "done"]
      /\ superseded' = Ended(r) /\ contradicts' = Links(r)
      /\ UNCHANGED <<todo, started>> /\ todo[r] = {}
  BY DEF StoreCommit, Ended, Links
<1>2. items' = V
  <2>1. items' = [i \in DOMAIN items \cup DOMAIN tx[r].new |-> V[i]]
    BY DEF StoreCommit
  <2> QED
    BY <2>1 DEF Visible
<1>v. /\ DOMAIN items \cap DOMAIN tx[r].new = {}
      /\ DOMAIN V = DOMAIN items \cup DOMAIN tx[r].new
      /\ \A i \in DOMAIN items : V[i] = items[i]
      /\ \A i \in DOMAIN tx[r].new : V[i] = tx[r].new[i]
      /\ \A i \in DOMAIN V : RowOK(V[i])
  BY VisibleIs
<1>3. todo = [q \in Run |-> todo[q]] /\ stage \in [Run -> {"idle", "storing", "done"}]
  BY DEF MemoryInv, Shapes, MemoryTypeOK
<1>4. /\ stage' \in [Run -> {"idle", "storing", "done"}]
      /\ stage'[r] = "done" /\ \A q \in Run \ {r} : stage'[q] = stage[q]
      /\ todo' = [q \in Run |-> todo'[q]] /\ \A q \in Run : todo'[q] \subseteq todo[q]
  BY <1>1, <1>3
<1>5. /\ DOMAIN tx'[r].new = {} /\ tx'[r].new = <<>>
      /\ tx'[r].superseded = {} /\ tx'[r].links = {}
      /\ \A q \in Run \ {r} : tx'[q] = tx[q]
      /\ Shapes'
  BY <1>1, <1>4, EndsEmpty
<1>6. /\ superseded \subseteq DOMAIN items /\ tx[r].superseded \subseteq DOMAIN V
      /\ DOMAIN items \subseteq Id
      /\ \A i \in DOMAIN tx[r].new : i \in Id /\ i[1] = r
  BY DEF MemoryInv, MemoryTypeOK, Replaced
<1>g. /\ \A i \in DOMAIN items : GoodRow(items, superseded, contradicts, i)
      /\ LinksWithin(items, contradicts)
      /\ \A q \in Run :
           /\ \A i \in DOMAIN tx[q].new : GoodRow(Visible(q), Ended(q), Links(q), i)
           /\ LinksWithin(Visible(q), tx[q].links)
  BY DEF MemoryInv, ViewsAreGood
<1>c. CurrentIn(V, Ended(r))
  BY CurrentVisible
<1> HIDE DEF V
<1>7. MemoryTypeOK'
  <2>1. DOMAIN items' \subseteq Id /\ superseded' \subseteq DOMAIN items'
    BY <1>1, <1>2, <1>v, <1>6 DEF Ended
  <2>2. \A i \in DOMAIN items' : RowOK(items'[i])
    BY <1>2, <1>v
  <2>3. ASSUME NEW q \in Run
        PROVE  /\ \A i \in DOMAIN tx'[q].new : i \in Id /\ i[1] = q /\ RowOK(tx'[q].new[i])
               /\ stage'[q] # "storing" => tx'[q].new = <<>> /\ todo'[q] = {}
    <3>1. CASE q = r
      BY <1>1, <1>5, <3>1
    <3>2. CASE q # r
      <4>1. tx'[q] = tx[q] /\ stage'[q] = stage[q] /\ todo'[q] = todo[q]
        BY <1>1, <1>4, <1>5, <3>2
      <4> QED
        BY <4>1, Zenon DEF MemoryInv, MemoryTypeOK
    <3> QED
      BY <3>1, <3>2
  <2>4. started' \in Nat
    BY <1>1 DEF MemoryInv, MemoryTypeOK
  <2> QED
    BY <1>4, <2>1, <2>2, <2>3, <2>4 DEF MemoryTypeOK, RowOK
<1>8. IdsAreFresh'
  <2>1. ASSUME NEW q \in Run
        PROVE  /\ IsFiniteSet(DOMAIN tx'[q].new)
               /\ DOMAIN tx'[q].new = {<<q, m>> : m \in 1..Cardinality(DOMAIN tx'[q].new)}
               /\ stage'[q] # "done" => \A i \in DOMAIN items' : i[1] # q
    <3>1. CASE q = r
      <4>1. IsFiniteSet({}) /\ Cardinality({}) = 0 /\ {} = {<<q, m>> : m \in 1..0}
        BY FS_EmptySet
      <4> QED
        BY <1>4, <1>5, <3>1, <4>1
    <3>2. CASE q # r
      <4>1. tx'[q] = tx[q] /\ stage'[q] = stage[q]
        BY <1>4, <1>5, <3>2
      <4>2. /\ IsFiniteSet(DOMAIN tx[q].new)
            /\ DOMAIN tx[q].new = {<<q, m>> : m \in 1..Cardinality(DOMAIN tx[q].new)}
            /\ stage[q] # "done" => \A i \in DOMAIN items : i[1] # q
        BY Zenon DEF MemoryInv, IdsAreFresh
      <4>3. stage[q] # "done" => \A i \in DOMAIN items' : i[1] # q
        BY <1>2, <1>v, <1>6, <3>2, <4>2
      <4> QED
        BY <4>1, <4>2, <4>3, Zenon
    <3> QED
      BY <3>1, <3>2
  <2> QED
    BY <2>1 DEF IdsAreFresh
\* The view of another transaction gains the rows of this one, and no id of its own.
<1>9. ASSUME NEW q \in Run \ {r}
      PROVE  /\ tx'[q] = tx[q]
             /\ DOMAIN Visible(q)' = DOMAIN V \cup DOMAIN Visible(q)
             /\ \A i \in DOMAIN V : Visible(q)'[i] = V[i]
             /\ \A i \in DOMAIN Visible(q) : Visible(q)'[i] = Visible(q)[i]
             /\ Ended(q) \subseteq Ended(q)' /\ Links(q) \subseteq Links(q)'
  <2>1. tx'[q] = tx[q]
    BY <1>5
  <2>2. /\ DOMAIN Visible(q) = DOMAIN items \cup DOMAIN tx[q].new
        /\ \A i \in DOMAIN items : Visible(q)[i] = items[i]
        /\ \A i \in DOMAIN tx[q].new : Visible(q)[i] = tx[q].new[i]
        /\ DOMAIN items \cap DOMAIN tx[q].new = {}
    BY VisibleIs
  <2>3. \A i \in DOMAIN tx[q].new : i \notin DOMAIN V
    <3>1. \A i \in DOMAIN tx[q].new : i[1] = q
      BY DEF MemoryInv, MemoryTypeOK
    <3> QED
      BY <1>v, <1>6, <2>2, <3>1
  <2>4. /\ DOMAIN Visible(q)' = DOMAIN items' \cup DOMAIN tx'[q].new
        /\ \A i \in DOMAIN items' : Visible(q)'[i] = items'[i]
        /\ \A i \in DOMAIN tx'[q].new \ DOMAIN items' : Visible(q)'[i] = tx'[q].new[i]
    BY DEF Visible
  <2>5. Ended(q) \subseteq Ended(q)' /\ Links(q) \subseteq Links(q)'
    BY <1>1, <2>1 DEF Ended, Links
  <2> QED
    BY <1>2, <1>v, <2>1, <2>2, <2>3, <2>4, <2>5
<1>10. ViewsAreGood'
  <2>1. ASSUME NEW i \in DOMAIN V PROVE GoodRow(V, Ended(r), Links(r), i)
    <3>1. CASE i \in DOMAIN items
      <4>1. GoodRow(items, superseded, contradicts, i)
        BY <1>g, <3>1
      <4>2. superseded \subseteq Ended(r) /\ contradicts \subseteq Links(r)
        BY DEF Ended, Links
      <4> QED
        BY <1>v, <3>1, <4>1, <4>2, GoodStays
    <3>2. CASE i \in DOMAIN tx[r].new
      BY <1>g, <3>2 DEF V
    <3> QED
      BY <1>v, <3>1, <3>2
  <2>2. LinksWithin(V, Links(r))
    <3>1. LinksWithin(V, tx[r].links) /\ LinksWithin(items, contradicts)
      BY <1>g DEF V
    <3> QED
      BY <1>v, <3>1 DEF LinksWithin, Links
  <2>3. ASSUME NEW q \in Run
        PROVE  /\ \A i \in DOMAIN tx'[q].new : GoodRow(Visible(q)', Ended(q)', Links(q)', i)
               /\ LinksWithin(Visible(q)', tx'[q].links)
    <3>1. CASE q = r
      BY <1>5, <3>1 DEF LinksWithin
    <3>2. CASE q # r
      <4>1. ASSUME NEW i \in DOMAIN tx[q].new
            PROVE  GoodRow(Visible(q)', Ended(q)', Links(q)', i)
        <5>1. GoodRow(Visible(q), Ended(q), Links(q), i) /\ i \in DOMAIN Visible(q)
          BY <1>g, VisibleIs
        <5>2. /\ DOMAIN Visible(q) \subseteq DOMAIN Visible(q)'
              /\ \A x \in DOMAIN Visible(q) : Visible(q)'[x] = Visible(q)[x]
              /\ Ended(q) \subseteq Ended(q)' /\ Links(q) \subseteq Links(q)'
          BY <1>9, <3>2
        <5> QED
          BY <5>1, <5>2, GoodStays
      <4>2. LinksWithin(Visible(q), tx[q].links)
        BY <1>g
      <4>3. tx'[q] = tx[q] /\ DOMAIN Visible(q) \subseteq DOMAIN Visible(q)'
        BY <1>9, <3>2
      <4>4. LinksWithin(Visible(q)', tx'[q].links)
        BY <4>2, <4>3 DEF LinksWithin
      <4> QED
        BY <4>1, <4>3, <4>4
    <3> QED
      BY <3>1, <3>2
  <2> QED
    BY <1>1, <1>2, <1>c, <2>1, <2>2, <2>3, Zenon DEF ViewsAreGood
<1>11. Replaced'
  <2>1. ASSUME NEW q \in Run
        PROVE  /\ tx'[q].superseded \subseteq DOMAIN Visible(q)'
               /\ \A j \in tx'[q].superseded :
                    \E t \in DOMAIN tx'[q].new \ tx'[q].superseded :
                      /\ Visible(q)'[t].key = Visible(q)'[j].key
                      /\ Visible(q)'[t].version > Visible(q)'[j].version
    <3>1. CASE q = r
      BY <1>5, <3>1
    <3>2. CASE q # r
      <4>1. /\ tx[q].superseded \subseteq DOMAIN Visible(q)
            /\ \A j \in tx[q].superseded :
                 \E t \in DOMAIN tx[q].new \ tx[q].superseded :
                   /\ Visible(q)[t].key = Visible(q)[j].key
                   /\ Visible(q)[t].version > Visible(q)[j].version
        BY Zenon DEF MemoryInv, Replaced
      <4>2. /\ tx'[q] = tx[q] /\ DOMAIN Visible(q) \subseteq DOMAIN Visible(q)'
            /\ \A i \in DOMAIN Visible(q) : Visible(q)'[i] = Visible(q)[i]
        BY <1>9, <3>2
      <4>3. DOMAIN tx[q].new \subseteq DOMAIN Visible(q)
        BY VisibleIs
      <4>4. ASSUME NEW j \in tx[q].superseded
            PROVE  \E t \in DOMAIN tx[q].new \ tx[q].superseded :
                     /\ Visible(q)'[t].key = Visible(q)'[j].key
                     /\ Visible(q)'[t].version > Visible(q)'[j].version
        <5>1. PICK t \in DOMAIN tx[q].new \ tx[q].superseded :
                /\ Visible(q)[t].key = Visible(q)[j].key
                /\ Visible(q)[t].version > Visible(q)[j].version
          BY <4>1
        <5>2. Visible(q)'[t] = Visible(q)[t] /\ Visible(q)'[j] = Visible(q)[j]
          BY <4>1, <4>2, <4>3
        <5> QED
          BY <5>1, <5>2, Zenon
      <4>5. tx[q].superseded \subseteq DOMAIN Visible(q)'
        BY <4>1, <4>2
      <4> QED
        BY <4>2, <4>4, <4>5, Zenon
    <3> QED
      BY <3>1, <3>2
  <2> QED
    BY <2>1, Zenon DEF Replaced
<1> QED
  BY <1>5, <1>7, <1>8, <1>10, <1>11 DEF MemoryInv

-----------------------------------------------------------------------------
LEMMA MemoryStepPreserves == MemoryInv /\ [MemoryNext]_memoryVars => MemoryInv'
<1> SUFFICES ASSUME MemoryInv, [MemoryNext]_memoryVars PROVE MemoryInv'
  OBVIOUS
<1>1. CASE MemoryNext
  BY <1>1, ComposePreserves, StoreOnePreserves, CommitKeeps, FailPreserves DEF MemoryNext
<1>2. CASE UNCHANGED memoryVars
  <2>1. UNCHANGED <<items, superseded, contradicts, stage, todo, tx, started>>
    BY <1>2 DEF memoryVars, memoryRows
  <2>2. MemoryTypeOK' /\ Shapes'
    BY <2>1, Zenon DEF MemoryInv, MemoryTypeOK, Shapes
  <2>3. IdsAreFresh' /\ Replaced'
    <3>1. IdsAreFresh'
      BY <2>1, Zenon DEF MemoryInv, IdsAreFresh
    <3>2. \A q \in Run : Visible(q)' = Visible(q)
      BY <2>1, Zenon DEF Visible
    <3> QED
      BY <2>1, <3>1, <3>2, ReplacedStays DEF MemoryInv
  <2>4. ViewsAreGood'
    BY <2>1, Zenon DEF MemoryInv, ViewsAreGood, Visible, Ended, Links
  <2> QED
    BY <2>2, <2>3, <2>4 DEF MemoryInv
<1> QED
  BY <1>1, <1>2

\* The inductive invariant holds in every reachable state.
LEMMA MemoryInvariant == MemorySpec => []MemoryInv
<1> QED
  BY MemoryInitEstablishes, MemoryStepPreserves, PTL DEF MemorySpec

\* The tables and the transactions keep their shape.
THEOREM MemoryTypeCorrect == MemorySpec => []MemoryTypeOK
<1>1. MemoryInv => MemoryTypeOK
  BY DEF MemoryInv
<1> QED
  BY <1>1, MemoryInvariant, PTL

\* store_candidates: a value that disagrees is recorded as the next version of the
\* one it disagreed with, which it either outweighs or is linked with.
THEOREM RivalsStayLinked == MemorySpec => []RivalsAreLinked
<1>1. MemoryInv => RivalsAreLinked
  <2> SUFFICES ASSUME MemoryInv PROVE RivalsAreLinked
    OBVIOUS
  <2>1. \A i \in DOMAIN items : GoodRow(items, superseded, contradicts, i)
    BY DEF MemoryInv, ViewsAreGood
  <2>2. LinksWithin(items, contradicts)
    BY DEF MemoryInv, ViewsAreGood
  <2> QED
    BY <2>1, <2>2 DEF RivalsAreLinked, GoodRow, LinksWithin
<1> QED
  BY <1>1, MemoryInvariant, PTL

\* store_candidates, with no lock: a record that was committed when another was
\* written has a lower version.
THEOREM VersionsStayInOrder == MemorySpec => []VersionsInOrder
<1>1. MemoryInv => VersionsInOrder
  BY DEF MemoryInv, ViewsAreGood, GoodRow, VersionsInOrder
<1> QED
  BY <1>1, MemoryInvariant, PTL

\* store_candidates: what memory has already is recorded again only after a rival.
THEOREM RepeatsFollowARival == MemorySpec => []RepeatsNeedARival
<1>1. MemoryInv => RepeatsNeedARival
  BY DEF MemoryInv, ViewsAreGood, GoodRow, RepeatsNeedARival
<1> QED
  BY <1>1, MemoryInvariant, PTL

\* store_candidates only adds: rows, ends of rows, and links.
THEOREM MemoryStaysKept == MemorySpec => MemoryKept
<1> DEFINE Kept == /\ \A i \in DOMAIN items : i \in DOMAIN items' /\ items'[i] = items[i]
                   /\ superseded \subseteq superseded'
                   /\ contradicts \subseteq contradicts'
<1>1. [MemoryNext]_memoryVars => [Kept]_memoryVars
  <2>1. ASSUME NEW r \in Run, StoreCommit(r) PROVE Kept
    BY <2>1 DEF StoreCommit, Visible
  <2>2. ASSUME UNCHANGED memoryRows PROVE Kept
    BY <2>2 DEF memoryRows
  <2> QED
    BY <2>1, <2>2, Zenon DEF MemoryNext, Compose, StoreOne, StoreFails
<1> QED
  BY <1>1, PTL DEF MemorySpec, MemoryKept

-----------------------------------------------------------------------------
(***************************************************************************)
(* What an answer compares with. The first and the last in rank are chosen, *)
(* so it has to be shown that records in rank have a first and a last: that *)
(* no two of them tie, and that no rank goes down or up without end.       *)
(***************************************************************************)

\* The transactions began one after the other, each under a number of its own.
StartsAreApart ==
  /\ \A i \in DOMAIN items : items[i].at \in 0..started
  /\ \A i, j \in DOMAIN items : items[i].at = items[j].at => i[1] = j[1]
  /\ \A r \in Run : stage[r] = "storing" =>
       /\ tx[r].at \in 0..started
       /\ \A i \in DOMAIN tx[r].new : tx[r].new[i].at = tx[r].at
       /\ \A i \in DOMAIN items : items[i].at # tx[r].at
       /\ \A q \in Run \ {r} : stage[q] = "storing" => tx[q].at # tx[r].at

IdsAreBounded == \E k \in Nat : \A i \in DOMAIN items : i[2] <= k

ComparedInv ==
  /\ MemoryInv
  /\ StartsAreApart
  /\ IdsAreBounded
  /\ compared = [r \in Run |-> compared[r]]
  /\ NeverFromOwnWrite

\* Numbers that have a lower bound have a least one.
LEMMA LeastOf ==
  ASSUME NEW S, S # {}, NEW f, NEW b \in Int, \A i \in S : f[i] \in Int /\ f[i] >= b
  PROVE  \E i \in S : \A j \in S : f[i] <= f[j]
<1> DEFINE T == {f[i] - b : i \in S}
<1>1. T \subseteq Nat /\ T # {}
  OBVIOUS
<1>2. PICK x \in T : \A y \in T : <<y, x>> \notin OpToRel(<, Nat)
  BY <1>1, NatLessThanWellFounded, WFMin, Zenon
<1>3. \A y \in T : ~(y < x)
  BY <1>1, <1>2 DEF OpToRel
<1>4. PICK i \in S : x = f[i] - b
  OBVIOUS
<1>5. ASSUME NEW j \in S PROVE f[i] <= f[j]
  <2>1. ~(f[j] - b < f[i] - b)
    BY <1>3, <1>4
  <2> QED
    BY <2>1
<1> QED
  BY <1>5

\* Tuples of five such numbers have a first one in the order of a dictionary.
TieOrFirst(R, i, j) ==
  \/ \A p \in 1..5 : R[i][p] = R[j][p]
  \/ \E p \in 1..5 : R[i][p] < R[j][p] /\ \A q \in 1..(p - 1) : R[i][q] = R[j][q]

LEMMA FirstOfFive ==
  ASSUME NEW S, S # {}, NEW R, NEW b \in Int,
         \A i \in S : \A p \in 1..5 : R[i][p] \in Int /\ R[i][p] >= b
  PROVE  \E i \in S : \A j \in S : TieOrFirst(R, i, j)
<1> DEFINE Least(T, p) == {i \in T : \A j \in T : R[i][p] <= R[j][p]}
           S1 == Least(S, 1)
           S2 == Least(S1, 2)
           S3 == Least(S2, 3)
           S4 == Least(S3, 4)
           S5 == Least(S4, 5)
<1>0. ASSUME NEW T \in SUBSET S, T # {}, NEW p \in 1..5
      PROVE  Least(T, p) # {} /\ Least(T, p) \in SUBSET T
  <2> DEFINE g == [i \in T |-> R[i][p]]
  <2>1. \A i \in T : g[i] \in Int /\ g[i] >= b
    OBVIOUS
  <2> HIDE DEF g
  <2>2. \E i \in T : \A j \in T : g[i] <= g[j]
    BY <1>0, <2>1, LeastOf
  <2> QED
    BY <2>2 DEF g
\* What is not least comes after the least in that place, the rest is equal in it.
<1>m. ASSUME NEW T \in SUBSET S, NEW p \in 1..5, NEW i \in Least(T, p), NEW j \in T
      PROVE  R[i][p] < R[j][p] \/ (R[i][p] = R[j][p] /\ j \in Least(T, p))
  <2>1. \A x \in T : R[x][p] \in Int
    OBVIOUS
  <2>2. i \in T /\ \A x \in T : R[i][p] <= R[x][p]
    OBVIOUS
  <2>3. CASE R[i][p] = R[j][p]
    BY <2>2, <2>3
  <2>4. CASE R[i][p] # R[j][p]
    BY <2>1, <2>2, <2>4
  <2> QED
    BY <2>3, <2>4
<1> HIDE DEF Least
<1>1. S1 # {} /\ S1 \in SUBSET S
  BY <1>0
<1>2. S2 # {} /\ S2 \in SUBSET S1 /\ S2 \in SUBSET S
  BY <1>0, <1>1
<1>3. S3 # {} /\ S3 \in SUBSET S2 /\ S3 \in SUBSET S
  BY <1>0, <1>2
<1>4. S4 # {} /\ S4 \in SUBSET S3 /\ S4 \in SUBSET S
  BY <1>0, <1>3
<1>5. S5 # {} /\ S5 \in SUBSET S4
  BY <1>0, <1>4
<1>6. PICK i : i \in S5
  BY <1>5
<1>7. i \in S1 /\ i \in S2 /\ i \in S3 /\ i \in S4 /\ i \in S
  BY <1>1, <1>2, <1>3, <1>4, <1>5, <1>6
<1>8. ASSUME NEW j \in S PROVE TieOrFirst(R, i, j)
  <2> DEFINE Less(p) == R[i][p] < R[j][p]
             Same(p) == R[i][p] = R[j][p]
  <2>1. Less(1) \/ (Same(1) /\ j \in S1)
    BY <1>m, <1>7
  <2>2. j \in S1 => Less(2) \/ (Same(2) /\ j \in S2)
    BY <1>m, <1>1, <1>7
  <2>3. j \in S2 => Less(3) \/ (Same(3) /\ j \in S3)
    BY <1>m, <1>2, <1>7
  <2>4. j \in S3 => Less(4) \/ (Same(4) /\ j \in S4)
    BY <1>m, <1>3, <1>7
  <2>5. j \in S4 => Less(5) \/ (Same(5) /\ j \in S5)
    BY <1>m, <1>4, <1>6
  <2> HIDE DEF Less, Same
  <2>6. \/ Less(1)
        \/ Same(1) /\ Less(2)
        \/ Same(1) /\ Same(2) /\ Less(3)
        \/ Same(1) /\ Same(2) /\ Same(3) /\ Less(4)
        \/ Same(1) /\ Same(2) /\ Same(3) /\ Same(4) /\ Less(5)
        \/ Same(1) /\ Same(2) /\ Same(3) /\ Same(4) /\ Same(5)
    BY <2>1, <2>2, <2>3, <2>4, <2>5, Zenon
  <2>7. (\E p \in 1..5 : Less(p) /\ \A q \in 1..(p - 1) : Same(q)) \/ \A p \in 1..5 : Same(p)
    BY <2>6
  <2> QED
    BY <2>7 DEF TieOrFirst, Less, Same
<1> QED
  BY <1>7, <1>8

\* No two records tie, so those in rank have a first and a last.
LEMMA RanksHaveEnds ==
  ASSUME ComparedInv, NEW S \in SUBSET DOMAIN items, S # {}
  PROVE  First(S) \in S /\ Last(S) \in S
<1> DEFINE A(i) == IF Linked(i) # {} THEN 0 ELSE 1
           B(i) == IF i \in superseded THEN 1 ELSE 0
           C(i) == RetrievalStrength[items[i].state]
<1>k. PICK k \in Nat : \A i \in DOMAIN items : i[2] <= k
  BY DEF ComparedInv, IdsAreBounded
<1>n. started \in Nat
  BY DEF ComparedInv, MemoryInv, MemoryTypeOK
<1>1. ASSUME NEW i \in DOMAIN items
      PROVE  /\ A(i) \in 0..1 /\ B(i) \in 0..1 /\ C(i) \in 0..8
             /\ items[i].at \in 0..started
             /\ i[2] \in 1..k
  <2>1. items[i].state \in DOMAIN StoreStrength /\ i \in Run \X (Nat \ {0})
    BY DEF ComparedInv, MemoryInv, MemoryTypeOK, RowOK, Id
  <2>2. C(i) \in 0..8
    BY <2>1 DEF StoreStrength, RetrievalStrength
  <2>3. items[i].at \in 0..started
    BY DEF ComparedInv, StartsAreApart
  <2>4. i[2] \in 1..k
    BY <1>k, <2>1
  <2> QED
    BY <2>2, <2>3, <2>4
<1>2. ASSUME NEW i \in DOMAIN items
      PROVE  /\ Rank(i)[1] = A(i) /\ Rank(i)[2] = B(i) /\ Rank(i)[3] = C(i)
             /\ Rank(i)[4] = 0 - items[i].at /\ Rank(i)[5] = i[2]
  BY DEF Rank
<1>3. ASSUME NEW i \in DOMAIN items, NEW p \in 1..5
      PROVE  Rank(i)[p] \in Int /\ Rank(i)[p] >= -started /\ Rank(i)[p] <= k + 8
  <2> HIDE DEF A, B, C
  <2> QED
    BY <1>1, <1>2, <1>n
<1>4. ASSUME NEW i \in DOMAIN items, NEW j \in DOMAIN items,
             \A p \in 1..5 : Rank(i)[p] = Rank(j)[p]
      PROVE  i = j
  <2>1. 0 - items[i].at = 0 - items[j].at /\ i[2] = j[2]
    BY <1>2, <1>4
  <2>2. items[i].at = items[j].at
    BY <1>1, <1>n, <2>1
  <2>3. i[1] = j[1]
    BY <2>2 DEF ComparedInv, StartsAreApart
  <2>4. i \in Run \X (Nat \ {0}) /\ j \in Run \X (Nat \ {0})
    BY DEF ComparedInv, MemoryInv, MemoryTypeOK, Id
  <2> QED
    BY <2>1, <2>3, <2>4
<1> HIDE DEF A, B, C
<1>5. \E i \in S : \A j \in S \ {i} : RankedBefore(i, j)
  <2> DEFINE R == [i \in S |-> Rank(i)]
             b == -started
  <2>1. b \in Int /\ \A i \in S : \A p \in 1..5 : R[i][p] \in Int /\ R[i][p] >= b
    BY <1>3, <1>n
  <2>2. \A i \in S : R[i] = Rank(i)
    OBVIOUS
  <2> HIDE DEF R, b
  <2>3. PICK i \in S : \A j \in S : TieOrFirst(R, i, j)
    BY <2>1, FirstOfFive
  <2>4. ASSUME NEW j \in S \ {i} PROVE RankedBefore(i, j)
    <3>1. TieOrFirst(R, i, j) /\ R[i] = Rank(i) /\ R[j] = Rank(j)
      BY <2>2, <2>3
    <3>2. ~ \A p \in 1..5 : Rank(i)[p] = Rank(j)[p]
      BY <1>4
    <3> QED
      BY <3>1, <3>2, Zenon DEF RankedBefore, TieOrFirst
  <2> QED
    BY <2>4
<1>6. \E i \in S : \A j \in S \ {i} : RankedBefore(j, i)
  <2> DEFINE R == [i \in S |-> [p \in 1..5 |-> 0 - Rank(i)[p]]]
             b == 0 - (k + 8)
  <2>1. b \in Int /\ \A i \in S : \A p \in 1..5 : R[i][p] \in Int /\ R[i][p] >= b
    BY <1>3, <1>n
  <2>2. ASSUME NEW i \in S, NEW p \in 1..5
        PROVE  R[i][p] = 0 - Rank(i)[p] /\ Rank(i)[p] \in Int
    BY <1>3
  <2> HIDE DEF R, b
  <2>3. PICK i \in S : \A j \in S : TieOrFirst(R, i, j)
    BY <2>1, FirstOfFive
  <2>4. ASSUME NEW j \in S \ {i} PROVE RankedBefore(j, i)
    <3> DEFINE m(p) == Rank(i)[p]
               n(p) == Rank(j)[p]
    <3>1. ASSUME NEW p \in 1..5
          PROVE  /\ R[i][p] = R[j][p] <=> n(p) = m(p)
                 /\ R[i][p] < R[j][p] <=> n(p) < m(p)
      <4>1. R[i][p] = 0 - m(p) /\ R[j][p] = 0 - n(p) /\ m(p) \in Int /\ n(p) \in Int
        BY <2>2
      <4> HIDE DEF m, n
      <4> QED
        BY <4>1
    <3>2. ~ \A p \in 1..5 : n(p) = m(p)
      BY <1>4
    <3>3. PICK p \in 1..5 : /\ R[i][p] < R[j][p]
                            /\ \A q \in 1..(p - 1) : R[i][q] = R[j][q]
      BY <2>3, <3>1, <3>2 DEF TieOrFirst
    <3>4. n(p) < m(p)
      BY <3>1, <3>3
    <3>5. \A q \in 1..(p - 1) : n(q) = m(q)
      <4>1. \A q \in 1..(p - 1) : q \in 1..5
        OBVIOUS
      <4> QED
        BY <3>1, <3>3, <4>1, Zenon
    <3> QED
      BY <3>4, <3>5, Zenon DEF RankedBefore
  <2> QED
    BY <2>4
<1>7. First(S) \in S
  BY <1>5, Zenon DEF First
<1>8. Last(S) \in S
  BY <1>6, Zenon DEF Last
<1> QED
  BY <1>7, <1>8

\* An answer compares with records that were retrieved.
LEMMA ComparesRetrieved ==
  ASSUME ComparedInv, NEW f, NEW seen \in {Retrieved(f), {}}
  PROVE  \A c \in Comparisons(f, seen) : c.item \in DOMAIN items
<1>1. seen \subseteq DOMAIN items
  BY DEF Retrieved
<1>2. ASSUME NEW s, ShareMemory(f, s, seen) # {}
      PROVE  Last(ShareMemory(f, s, seen)) \in DOMAIN items
  <2> DEFINE S == ShareMemory(f, s, seen)
  <2>1. S \in SUBSET DOMAIN items
    BY <1>1 DEF ShareMemory
  <2> HIDE DEF S
  <2>2. S # {}
    BY <1>2 DEF S
  <2>3. Last(S) \in DOMAIN items
    BY <2>1, <2>2, RanksHaveEnds
  <2> QED
    BY <2>3 DEF S
<1>3. ASSUME NEW x, FindingMemory(f, x, seen) # {}
      PROVE  First(FindingMemory(f, x, seen)) \in DOMAIN items
  <2> DEFINE S == FindingMemory(f, x, seen)
  <2>1. S \in SUBSET DOMAIN items
    BY <1>1 DEF FindingMemory
  <2> HIDE DEF S
  <2>2. S # {}
    BY <1>3 DEF S
  <2>3. First(S) \in DOMAIN items
    BY <2>1, <2>2, RanksHaveEnds
  <2> QED
    BY <2>3 DEF S
<1> QED
  BY <1>2, <1>3 DEF Comparisons

LEMMA ComparedInit == MemoryInit => ComparedInv
<1> SUFFICES ASSUME MemoryInit PROVE ComparedInv
  OBVIOUS
<1>1. /\ DOMAIN items = {} /\ started = 0
      /\ stage = [r \in Run |-> "idle"] /\ compared = [r \in Run |-> {}]
  BY DEF MemoryInit
<1>2. MemoryInv
  BY MemoryInitEstablishes
<1>3. StartsAreApart /\ IdsAreBounded /\ NeverFromOwnWrite
  BY <1>1 DEF StartsAreApart, IdsAreBounded, NeverFromOwnWrite
<1> QED
  BY <1>1, <1>2, <1>3 DEF ComparedInv

\* A step that composes nothing compares nothing, and no record disappears.
LEMMA OthersKeepCompared ==
  ASSUME ComparedInv, compared' = compared, DOMAIN items \subseteq DOMAIN items'
  PROVE  compared' = [r \in Run |-> compared'[r]] /\ NeverFromOwnWrite'
BY DEF ComparedInv, NeverFromOwnWrite

\* The answer is composed while its run has no record in memory.
LEMMA ComposeCompares ==
  ASSUME ComparedInv, NEW r \in Run, NEW f \in Facts, Compose(r, f)
  PROVE  ComparedInv'
<1>1. PICK seen \in {Retrieved(f), {}} :
        compared' = [compared EXCEPT ![r] = Comparisons(f, seen)]
  BY DEF Compose
<1>2. /\ stage[r] = "idle" /\ started' = started + 1
      /\ tx' = [tx EXCEPT ![r].at = started + 1]
      /\ stage' = [stage EXCEPT ![r] = "storing"]
      /\ items' = items
  BY DEF Compose, memoryRows
<1>3. /\ started \in Nat /\ stage \in [Run -> {"idle", "storing", "done"}]
      /\ \A q \in Run : stage[q] # "storing" => tx[q].new = <<>>
      /\ tx = [q \in Run |-> [new |-> tx[q].new, superseded |-> tx[q].superseded,
                              links |-> tx[q].links, at |-> tx[q].at]]
      /\ compared = [q \in Run |-> compared[q]]
  BY DEF ComparedInv, MemoryInv, MemoryTypeOK, Shapes
<1>4. MemoryInv'
  BY ComposePreserves DEF ComparedInv
<1>5. /\ \A q \in Run : tx'[q].new = tx[q].new
      /\ tx'[r].at = started + 1 /\ \A q \in Run \ {r} : tx'[q].at = tx[q].at
      /\ stage'[r] = "storing" /\ \A q \in Run \ {r} : stage'[q] = stage[q]
  BY <1>2, <1>3
<1>6. StartsAreApart'
  <2>1. \A i \in DOMAIN items : items[i].at \in 0..started
    BY DEF ComparedInv, StartsAreApart
  <2>2. \A i, j \in DOMAIN items : items[i].at = items[j].at => i[1] = j[1]
    BY DEF ComparedInv, StartsAreApart
  <2>3. \A q \in Run : stage[q] = "storing" =>
          /\ tx[q].at \in 0..started
          /\ \A i \in DOMAIN tx[q].new : tx[q].new[i].at = tx[q].at
          /\ \A i \in DOMAIN items : items[i].at # tx[q].at
          /\ \A p \in Run \ {q} : stage[p] = "storing" => tx[p].at # tx[q].at
    BY DEF ComparedInv, StartsAreApart
  <2>4. \A i \in DOMAIN items' : items'[i].at \in 0..started'
    BY <1>2, <1>3, <2>1
  <2>5. \A i, j \in DOMAIN items' : items'[i].at = items'[j].at => i[1] = j[1]
    BY <1>2, <2>2
  <2>6. ASSUME NEW q \in Run, stage'[q] = "storing"
        PROVE  /\ tx'[q].at \in 0..started'
               /\ \A i \in DOMAIN tx'[q].new : tx'[q].new[i].at = tx'[q].at
               /\ \A i \in DOMAIN items' : items'[i].at # tx'[q].at
               /\ \A p \in Run \ {q} : stage'[p] = "storing" => tx'[p].at # tx'[q].at
    <3>1. CASE q = r
      <4>1. DOMAIN tx'[q].new = {}
        BY <1>2, <1>3, <1>5, <3>1
      <4>2. tx'[q].at = started + 1 /\ started' = started + 1
        BY <1>2, <1>5, <3>1
      <4>3. \A i \in DOMAIN items' : items'[i].at # tx'[q].at
        BY <1>2, <1>3, <2>1, <4>2
      <4>4. ASSUME NEW p \in Run \ {q}, stage'[p] = "storing"
            PROVE  tx'[p].at # tx'[q].at
        <5>1. stage[p] = "storing" /\ tx'[p].at = tx[p].at
          BY <1>5, <3>1, <4>4
        <5>2. tx[p].at \in 0..started
          BY <2>3, <5>1
        <5> QED
          BY <1>3, <4>2, <5>1, <5>2
      <4> QED
        BY <1>3, <4>1, <4>2, <4>3, <4>4
    <3>2. CASE q # r
      <4>1. stage[q] = "storing" /\ tx'[q].at = tx[q].at /\ tx'[q].new = tx[q].new
        BY <1>5, <2>6, <3>2
      <4>2. /\ tx[q].at \in 0..started
            /\ \A i \in DOMAIN tx[q].new : tx[q].new[i].at = tx[q].at
            /\ \A i \in DOMAIN items : items[i].at # tx[q].at
            /\ \A p \in Run \ {q} : stage[p] = "storing" => tx[p].at # tx[q].at
        BY <2>3, <4>1
      <4>3. ASSUME NEW p \in Run \ {q}, stage'[p] = "storing"
            PROVE  tx'[p].at # tx'[q].at
        <5>1. CASE p = r
          BY <1>3, <1>5, <4>1, <4>2, <5>1
        <5>2. CASE p # r
          BY <1>5, <4>1, <4>2, <4>3, <5>2
        <5> QED
          BY <5>1, <5>2
      <4>4. tx'[q].at \in 0..started'
        BY <1>2, <1>3, <4>1, <4>2
      <4> QED
        BY <1>2, <4>1, <4>2, <4>3, <4>4, Zenon
    <3> QED
      BY <3>1, <3>2
  <2> QED
    BY <2>4, <2>5, <2>6 DEF StartsAreApart
<1>7. IdsAreBounded'
  BY <1>2 DEF ComparedInv, IdsAreBounded
<1>8. /\ compared'[r] = Comparisons(f, seen)
      /\ \A q \in Run \ {r} : compared'[q] = compared[q]
      /\ compared' = [q \in Run |-> compared'[q]]
  BY <1>1, <1>3
<1>9. NeverFromOwnWrite'
  <2>1. \A c \in Comparisons(f, seen) : c.item \in DOMAIN items
    BY ComparesRetrieved
  <2>2. \A i \in DOMAIN items : i[1] # r
    BY <1>2 DEF ComparedInv, MemoryInv, IdsAreFresh
  <2> QED
    BY <1>2, <1>8, <2>1, <2>2 DEF ComparedInv, NeverFromOwnWrite
<1> QED
  BY <1>4, <1>6, <1>7, <1>8, <1>9 DEF ComparedInv

\* What a transaction writes bears the number of its transaction.
LEMMA StoreKeepsStarts ==
  ASSUME ComparedInv, NEW r \in Run, StoreOne(r)
  PROVE  ComparedInv'
<1>1. /\ stage[r] = "storing" /\ items' = items /\ stage' = stage
      /\ started' = started /\ compared' = compared
  BY DEF StoreOne, memoryRows
<1>2. MemoryInv'
  BY StoreOnePreserves DEF ComparedInv
<1>3. \A q \in Run : stage[q] = "storing" =>
        /\ tx[q].at \in 0..started
        /\ \A i \in DOMAIN tx[q].new : tx[q].new[i].at = tx[q].at
        /\ \A i \in DOMAIN items : items[i].at # tx[q].at
        /\ \A p \in Run \ {q} : stage[p] = "storing" => tx[p].at # tx[q].at
  BY DEF ComparedInv, StartsAreApart
<1>4. \/ tx' = tx
      \/ \E c, version, supersedes, superseding, links :
           Write(r, c, version, supersedes, superseding, links)
  BY Zenon DEF StoreOne, StoreFirst, StoreDuplicate, StoreConflict
<1>5. /\ \A q \in Run : tx'[q].at = tx[q].at
      /\ \A q \in Run \ {r} : tx'[q] = tx[q]
      /\ \A i \in DOMAIN tx'[r].new : tx'[r].new[i].at = tx[r].at
  <2>1. CASE tx' = tx
    BY <1>1, <1>3, <2>1
  <2>2. ASSUME NEW c, NEW version, NEW supersedes, NEW superseding, NEW links,
               Write(r, c, version, supersedes, superseding, links)
        PROVE  <1>5
    <3>1. PICK id \in Id :
           /\ DOMAIN tx'[r].new = DOMAIN tx[r].new \cup {id}
           /\ \A i \in DOMAIN tx[r].new : tx'[r].new[i] = tx[r].new[i]
           /\ tx'[r].new[id] = [key |-> c.key, value |-> c.value, state |-> c.state,
                                version |-> version, supersedes |-> supersedes,
                                at |-> tx[r].at, saw |-> DOMAIN items]
           /\ tx'[r].at = tx[r].at
           /\ \A q \in Run \ {r} : tx'[q] = tx[q]
      <4>1. UNCHANGED memoryRows
        BY DEF StoreOne
      <4> QED
        BY <1>1, <2>2, <4>1, WriteAdds DEF ComparedInv
    <3>2. tx'[r].new[id].at = tx[r].at
      BY <3>1
    <3> QED
      BY <1>1, <1>3, <3>1, <3>2
  <2> QED
    BY <1>4, <2>1, <2>2
<1>6. StartsAreApart'
  <2>1. ASSUME NEW q \in Run, stage'[q] = "storing"
        PROVE  /\ tx'[q].at \in 0..started'
               /\ \A i \in DOMAIN tx'[q].new : tx'[q].new[i].at = tx'[q].at
               /\ \A i \in DOMAIN items' : items'[i].at # tx'[q].at
               /\ \A p \in Run \ {q} : stage'[p] = "storing" => tx'[p].at # tx'[q].at
    <3>1. \A i \in DOMAIN tx'[q].new : tx'[q].new[i].at = tx'[q].at
      BY <1>1, <1>3, <1>5, <2>1
    <3> QED
      BY <1>1, <1>3, <1>5, <2>1, <3>1
  <2> QED
    BY <1>1, <2>1 DEF ComparedInv, StartsAreApart
<1>7. IdsAreBounded'
  BY <1>1 DEF ComparedInv, IdsAreBounded
<1> QED
  BY <1>1, <1>2, <1>6, <1>7, OthersKeepCompared DEF ComparedInv

LEMMA CommitKeepsStarts ==
  ASSUME ComparedInv, NEW r \in Run, StoreCommit(r)
  PROVE  ComparedInv'
<1>1. /\ stage[r] = "storing" /\ stage' = [stage EXCEPT ![r] = "done"]
      /\ tx' = [tx EXCEPT ![r] = EmptyTx]
      /\ started' = started /\ compared' = compared
      /\ items' = [i \in DOMAIN items \cup DOMAIN tx[r].new |-> Visible(r)[i]]
  BY DEF StoreCommit
<1>2. MemoryInv'
  BY CommitKeeps DEF ComparedInv
<1>3. /\ \A i \in DOMAIN items : Visible(r)[i] = items[i]
      /\ \A i \in DOMAIN tx[r].new : Visible(r)[i] = tx[r].new[i]
  BY VisibleIs DEF ComparedInv
<1>4. /\ stage \in [Run -> {"idle", "storing", "done"}]
      /\ tx = [q \in Run |-> tx[q]]
      /\ \A i \in DOMAIN tx[r].new : i[1] = r
  BY DEF ComparedInv, MemoryInv, MemoryTypeOK, Shapes
<1>5. /\ stage'[r] = "done"
      /\ \A q \in Run \ {r} : stage'[q] = stage[q] /\ tx'[q] = tx[q]
  BY <1>1, <1>4
<1>6. /\ \A i \in DOMAIN items : items[i].at \in 0..started
      /\ \A i, j \in DOMAIN items : items[i].at = items[j].at => i[1] = j[1]
      /\ \A q \in Run : stage[q] = "storing" =>
           /\ tx[q].at \in 0..started
           /\ \A i \in DOMAIN tx[q].new : tx[q].new[i].at = tx[q].at
           /\ \A i \in DOMAIN items : items[i].at # tx[q].at
           /\ \A p \in Run \ {q} : stage[p] = "storing" => tx[p].at # tx[q].at
  BY DEF ComparedInv, StartsAreApart
<1>7. ASSUME NEW i \in DOMAIN items'
      PROVE  \/ i \in DOMAIN items /\ items'[i].at = items[i].at
             \/ i[1] = r /\ items'[i].at = tx[r].at
  BY <1>1, <1>3, <1>4, <1>6
<1>8. StartsAreApart'
  <2>1. \A i \in DOMAIN items' : items'[i].at \in 0..started'
    BY <1>1, <1>6, <1>7
  <2>2. ASSUME NEW i \in DOMAIN items', NEW j \in DOMAIN items', items'[i].at = items'[j].at
        PROVE  i[1] = j[1]
    <3>1. \A x \in DOMAIN items : items[x].at # tx[r].at
      BY <1>1, <1>6
    <3>2. CASE i \in DOMAIN items /\ items'[i].at = items[i].at
      <4>1. j \in DOMAIN items /\ items'[j].at = items[j].at
        BY <1>7, <2>2, <3>1, <3>2
      <4>2. \A x, y \in DOMAIN items : items[x].at = items[y].at => x[1] = y[1]
        BY <1>6
      <4>3. items[i].at = items[j].at
        BY <2>2, <3>2, <4>1
      <4> QED
        BY <3>2, <4>1, <4>2, <4>3
    <3>3. CASE i[1] = r /\ items'[i].at = tx[r].at
      BY <1>7, <2>2, <3>1, <3>3
    <3> QED
      BY <1>7, <3>2, <3>3
  <2>3. ASSUME NEW q \in Run, stage'[q] = "storing"
        PROVE  /\ tx'[q].at \in 0..started'
               /\ \A i \in DOMAIN tx'[q].new : tx'[q].new[i].at = tx'[q].at
               /\ \A i \in DOMAIN items' : items'[i].at # tx'[q].at
               /\ \A p \in Run \ {q} : stage'[p] = "storing" => tx'[p].at # tx'[q].at
    <3>1. q # r /\ stage[q] = "storing" /\ tx'[q] = tx[q]
      BY <1>5, <2>3
    <3>2. /\ tx[q].at \in 0..started
          /\ \A i \in DOMAIN tx[q].new : tx[q].new[i].at = tx[q].at
          /\ \A i \in DOMAIN items : items[i].at # tx[q].at
          /\ \A p \in Run \ {q} : stage[p] = "storing" => tx[p].at # tx[q].at
      BY <1>6, <3>1
    <3>3. tx[r].at # tx[q].at
      BY <1>1, <3>1, <3>2
    <3>4. \A i \in DOMAIN items' : items'[i].at # tx'[q].at
      BY <1>7, <3>1, <3>2, <3>3
    <3>5. \A p \in Run \ {q} : stage'[p] = "storing" => tx'[p].at # tx'[q].at
      BY <1>5, <3>1, <3>2
    <3> QED
      BY <1>1, <3>1, <3>2, <3>4, <3>5
  <2> QED
    BY <2>1, <2>2, <2>3 DEF StartsAreApart
<1>9. IdsAreBounded'
  <2>1. PICK k \in Nat : \A i \in DOMAIN items : i[2] <= k
    BY DEF ComparedInv, IdsAreBounded
  <2>2. PICK n \in Nat : \A i \in DOMAIN tx[r].new : i[2] <= n
    <3> DEFINE n == Cardinality(DOMAIN tx[r].new)
    <3>1. IsFiniteSet(DOMAIN tx[r].new) /\ DOMAIN tx[r].new = {<<r, m>> : m \in 1..n}
      BY DEF ComparedInv, MemoryInv, IdsAreFresh
    <3>2. n \in Nat
      BY <3>1, FS_CardinalityType
    <3> HIDE DEF n
    <3> QED
      BY <3>1, <3>2
  <2>3. DOMAIN items' \subseteq Run \X (Nat \ {0})
    BY <1>2 DEF MemoryInv, MemoryTypeOK, Id
  <2>4. \A i \in DOMAIN items' : i[2] \in Nat /\ (i[2] <= k \/ i[2] <= n)
    BY <1>1, <2>1, <2>2, <2>3
  <2>5. \A i \in DOMAIN items' : i[2] <= k + n
    BY <2>4
  <2> QED
    BY <2>5 DEF IdsAreBounded
<1> QED
  BY <1>1, <1>2, <1>8, <1>9, OthersKeepCompared DEF ComparedInv

LEMMA FailKeepsStarts ==
  ASSUME ComparedInv, NEW r \in Run, StoreFails(r)
  PROVE  ComparedInv'
<1>1. /\ stage' = [stage EXCEPT ![r] = "done"] /\ tx' = [tx EXCEPT ![r] = EmptyTx]
      /\ started' = started /\ compared' = compared /\ items' = items
  BY DEF StoreFails, memoryRows
<1>2. MemoryInv'
  BY FailPreserves DEF ComparedInv
<1>3. /\ stage \in [Run -> {"idle", "storing", "done"}] /\ tx = [q \in Run |-> tx[q]]
  BY DEF ComparedInv, MemoryInv, MemoryTypeOK, Shapes
<1>4. /\ stage'[r] = "done"
      /\ \A q \in Run \ {r} : stage'[q] = stage[q] /\ tx'[q] = tx[q]
  BY <1>1, <1>3
<1>5. StartsAreApart'
  <2>1. ASSUME NEW q \in Run, stage'[q] = "storing"
        PROVE  /\ tx'[q].at \in 0..started'
               /\ \A i \in DOMAIN tx'[q].new : tx'[q].new[i].at = tx'[q].at
               /\ \A i \in DOMAIN items' : items'[i].at # tx'[q].at
               /\ \A p \in Run \ {q} : stage'[p] = "storing" => tx'[p].at # tx'[q].at
    <3>1. q # r /\ stage[q] = "storing" /\ tx'[q] = tx[q]
      BY <1>4, <2>1
    <3>2. /\ tx[q].at \in 0..started
          /\ \A i \in DOMAIN tx[q].new : tx[q].new[i].at = tx[q].at
          /\ \A i \in DOMAIN items : items[i].at # tx[q].at
          /\ \A p \in Run \ {q} : stage[p] = "storing" => tx[p].at # tx[q].at
      BY <3>1 DEF ComparedInv, StartsAreApart
    <3>3. \A p \in Run \ {q} : stage'[p] = "storing" => tx'[p].at # tx'[q].at
      BY <1>4, <3>1, <3>2
    <3> QED
      BY <1>1, <3>1, <3>2, <3>3
  <2> QED
    BY <1>1, <2>1 DEF ComparedInv, StartsAreApart
<1>6. IdsAreBounded'
  BY <1>1 DEF ComparedInv, IdsAreBounded
<1> QED
  BY <1>1, <1>2, <1>5, <1>6, OthersKeepCompared DEF ComparedInv

\* compose, then store_candidates: an answer is compared with what other runs have
\* committed, never with a record of its own run or one that is rolled back.
THEOREM AnswersCompareOthers == MemorySpec => []NeverFromOwnWrite
<1>1. ComparedInv /\ [MemoryNext]_memoryVars => ComparedInv'
  <2> SUFFICES ASSUME ComparedInv, [MemoryNext]_memoryVars PROVE ComparedInv'
    OBVIOUS
  <2>1. CASE MemoryNext
    BY <2>1, ComposeCompares, StoreKeepsStarts, CommitKeepsStarts, FailKeepsStarts
    DEF MemoryNext
  <2>2. CASE UNCHANGED memoryVars
    <3>1. MemoryInv'
      BY <2>2, MemoryStepPreserves DEF ComparedInv
    <3>2. UNCHANGED <<items, stage, tx, started, compared>>
      BY <2>2 DEF memoryVars, memoryRows
    <3>3. StartsAreApart' /\ IdsAreBounded'
      BY <3>2, Zenon DEF ComparedInv, StartsAreApart, IdsAreBounded
    <3> QED
      BY <3>1, <3>2, <3>3, OthersKeepCompared DEF ComparedInv
  <2> QED
    BY <2>1, <2>2
<1>2. ComparedInv => NeverFromOwnWrite
  BY DEF ComparedInv
<1> QED
  BY <1>1, <1>2, ComparedInit, PTL DEF MemorySpec

=============================================================================
