---- MODULE MCConsoleLanProofs ----
(***************************************************************************)
(* Proofs about the LAN console's modules as MCConsole instantiates them.  *)
(* Every part has an inductive invariant of its own (the names that end in *)
(* Sound), a lemma that a step of the part keeps it, and one that says     *)
(* what it implies.                                                        *)
(***************************************************************************)
EXTENDS MCConsole, FiniteSetTheorems, WellFoundedInduction, TLAPS

LEMMA AtMostOne ==
  ASSUME NEW S, \A x, y \in S : x = y
  PROVE  IsFiniteSet(S) /\ Cardinality(S) <= 1
<1>1. CASE S = {}
  BY <1>1, FS_EmptySet
<1>2. ASSUME NEW x \in S PROVE IsFiniteSet(S) /\ Cardinality(S) <= 1
  <2>1. S = {x}
    OBVIOUS
  <2>2. IsFiniteSet({x}) /\ Cardinality({x}) = 1
    BY FS_Singleton, Zenon
  <2> QED
    BY <2>1, <2>2
<1> QED
  BY <1>1, <1>2

----------------------------------------------------------------------------
(* LanDevices.                                                               *)
DeviceRow == [id : 1..MaxRows, serial : Serials, token : 1..MaxTokens,
              list : Lists \cup {NULL}, group : Groups \cup {NULL}]

TableTyped ==
  /\ lists \subseteq Lists /\ groups \subseteq [id : Groups, list : Lists \cup {NULL}]
  /\ devs \subseteq DeviceRow /\ rules \subseteq [dev : 1..MaxRows, list : Lists]
  /\ card \in [Serials -> 0..MaxTokens]
  /\ nextRow \in Nat \ {0} /\ nextToken \in Nat \ {0}

\* An enrollment under way is of a known serial.
TableAsked ==
  /\ DOMAIN req = Workers
  /\ \A w \in Workers : Table!Has(w, "enroll") => req[w].serial \in Serials

\* A row is known by its id, and ids are never given twice.
TableKeyed ==
  /\ \A d \in devs : d.id < nextRow
  /\ \A d, e \in devs : d.id = e.id => d = e

TableSound == TableTyped /\ TableAsked /\ TableKeyed /\ Table!CardTokenWorks /\ Table!ReferencesResolve

LEMMA TableInit == Table!Init => TableSound
<1> SUFFICES ASSUME Table!Init PROVE TableSound
  OBVIOUS
<1> USE DEF Table!Init
<1>1. groups \subseteq [id : Groups, list : Lists \cup {NULL}]
  OBVIOUS
<1>2. \A w \in Workers : ~Table!Has(w, "enroll")
  BY DEF Table!Has
<1>3. TableTyped /\ TableAsked
  BY <1>1, <1>2, TableBounds DEF TableTyped, TableAsked
<1>4. \A g \in groups : Table!IsList(g.list)
  BY DEF Table!IsList
<1>5. TableKeyed /\ Table!CardTokenWorks /\ Table!ReferencesResolve
  BY <1>4 DEF TableKeyed, Table!CardTokenWorks, Table!ReferencesResolve
<1> QED
  BY <1>3, <1>5 DEF TableSound

\* One column of a row changed.
LEMMA RowChanged ==
  ASSUME NEW d \in DeviceRow
  PROVE  /\ \A l \in Lists \cup {NULL} :
              LET e == [d EXCEPT !.list = l]
              IN  e \in DeviceRow /\ e.list = l /\ e.id = d.id /\ e.serial = d.serial /\ e.token = d.token /\ e.group = d.group
         /\ \A g \in Groups \cup {NULL} :
              LET e == [d EXCEPT !.group = g]
              IN  e \in DeviceRow /\ e.group = g /\ e.id = d.id /\ e.serial = d.serial /\ e.token = d.token /\ e.list = d.list
         /\ \A t \in 1..MaxTokens :
              LET e == [d EXCEPT !.token = t]
              IN  e \in DeviceRow /\ e.token = t /\ e.id = d.id /\ e.serial = d.serial /\ e.list = d.list /\ e.group = d.group
BY DEF DeviceRow

\* A request begins with what it asks for, or ends.
LEMMA TableAskedStep ==
  ASSUME TableAsked, NEW w \in Workers,
         Table!Ends(w) \/ \E r : Table!Becomes(w, r) /\ (r.op = "enroll" => r.serial \in Serials)
  PROVE  TableAsked'
<1>1. PICK r : req' = [req EXCEPT ![w] = r] /\ (r = Table!Idle \/ (r.op = "enroll" => r.serial \in Serials))
  BY DEF Table!Ends, Table!Becomes
<1>2. DOMAIN req' = Workers /\ req'[w] = r /\ \A v \in Workers \ {w} : req'[v] = req[v]
  BY <1>1 DEF TableAsked
<1> QED
  BY <1>1, <1>2 DEF TableAsked, Table!Has

LEMMA TableStill ==
  ASSUME TableTyped, TableKeyed, Table!CardTokenWorks, Table!ReferencesResolve,
         UNCHANGED <<lists, groups, devs, rules, nextRow, nextToken, card>>
  PROVE  TableTyped' /\ TableKeyed' /\ Table!CardTokenWorks' /\ Table!ReferencesResolve'
BY DEF TableTyped, TableKeyed, Table!CardTokenWorks, Table!ReferencesResolve, Table!IsList, Table!IsGroup,
       Table!GroupIds, Table!DevIds

\* A row written under its own id, with references that resolve.
LEMMA RowWritten ==
  ASSUME TableSound, NEW d \in devs, NEW e \in DeviceRow,
         e.id = d.id, e.serial = d.serial, Table!IsList(e.list), Table!IsGroup(e.group),
         Table!SetDev(d.id, e), UNCHANGED <<lists, groups, rules>>
  PROVE  /\ devs' = (devs \ {d}) \cup {e} /\ devs' \subseteq DeviceRow
         /\ TableKeyed' <=> \A x \in devs' : x.id < nextRow'
         /\ Table!ReferencesResolve'
<1> USE DEF TableSound
<1>1. devs' = (devs \ {d}) \cup {e}
  BY DEF Table!SetDev, TableKeyed
<1>2. devs' \subseteq DeviceRow
  BY <1>1 DEF TableTyped
<1>3. \A x, y \in devs' : x.id = y.id => x = y
  BY <1>1 DEF TableKeyed
<1>4. Table!DevIds' = Table!DevIds /\ Table!GroupIds' = Table!GroupIds
  BY <1>1 DEF Table!DevIds, Table!GroupIds
<1>5. Table!ReferencesResolve'
  BY <1>1, <1>4 DEF Table!ReferencesResolve, Table!IsList, Table!IsGroup
<1> QED
  BY <1>1, <1>2, <1>3, <1>5 DEF TableKeyed

LEMMA RowOf ==
  ASSUME NEW i \in Table!DevIds
  PROVE  Table!Dev(i) \in devs /\ Table!Dev(i).id = i
BY DEF Table!DevIds, Table!Dev

LEMMA TableAssigns ==
  ASSUME TableSound, NEW w \in Workers, Table!AssignList(w) \/ Table!AssignGroup(w)
  PROVE  TableSound'
<1> USE DEF TableSound
<1>0. /\ UNCHANGED <<lists, groups, rules, nextRow, nextToken, card>> /\ Table!Ends(w)
  BY DEF Table!AssignList, Table!AssignGroup, Table!ids
<1>1. TableAsked'
  BY <1>0, TableAskedStep
<1>2. CASE UNCHANGED devs
  BY <1>0, <1>1, <1>2, TableStill
<1>3. ASSUME NEW d \in devs, NEW e \in DeviceRow, e.id = d.id, e.serial = d.serial, e.token = d.token,
             Table!IsList(e.list), Table!IsGroup(e.group), Table!SetDev(d.id, e)
      PROVE  TableSound'
  <2>1. /\ devs' = (devs \ {d}) \cup {e} /\ devs' \subseteq DeviceRow
        /\ TableKeyed' <=> \A x \in devs' : x.id < nextRow'
        /\ Table!ReferencesResolve'
    BY <1>0, <1>3, RowWritten
  <2>2. TableKeyed'
    BY <1>0, <1>3, <2>1 DEF TableKeyed
  <2>3. Table!CardTokenWorks'
    BY <1>0, <1>3, <2>1 DEF Table!CardTokenWorks
  <2>4. TableTyped'
    BY <1>0, <2>1 DEF TableTyped
  <2> QED
    BY <1>1, <2>1, <2>2, <2>3, <2>4
<1>4. CASE Table!AssignList(w) /\ ~UNCHANGED devs
  <2>1. PICK l \in Lists \cup {NULL}, i \in Table!DevIds :
          Table!IsList(l) /\ Table!SetDev(i, [Table!Dev(i) EXCEPT !.list = l])
    BY <1>4 DEF Table!AssignList, TableTyped, Table!IsList
  <2>2. PICK d \in devs : d = Table!Dev(i) /\ d.id = i /\ d \in DeviceRow
    BY <2>1, RowOf DEF TableTyped
  <2>3. PICK e \in DeviceRow : e = [d EXCEPT !.list = l] /\ e.id = d.id /\ e.serial = d.serial /\ e.token = d.token
                               /\ e.list = l /\ e.group = d.group
    BY <2>2, RowChanged
  <2>4. Table!IsGroup(d.group)
    BY DEF Table!ReferencesResolve
  <2> QED
    BY <1>3, <2>1, <2>2, <2>3, <2>4
<1>5. CASE Table!AssignGroup(w) /\ ~UNCHANGED devs
  <2>1. PICK g \in Groups \cup {NULL}, i \in Table!DevIds :
          Table!IsGroup(g) /\ Table!SetDev(i, [Table!Dev(i) EXCEPT !.group = g])
    BY <1>5 DEF Table!AssignGroup, TableTyped, Table!IsGroup, Table!GroupIds
  <2>2. PICK d \in devs : d = Table!Dev(i) /\ d.id = i /\ d \in DeviceRow
    BY <2>1, RowOf DEF TableTyped
  <2>3. PICK e \in DeviceRow : e = [d EXCEPT !.group = g] /\ e.id = d.id /\ e.serial = d.serial /\ e.token = d.token
                               /\ e.group = g /\ e.list = d.list
    BY <2>2, RowChanged
  <2>4. Table!IsList(d.list)
    BY DEF Table!ReferencesResolve
  <2> QED
    BY <1>3, <2>1, <2>2, <2>3, <2>4
<1> QED
  BY <1>2, <1>4, <1>5

LEMMA TableReads ==
  ASSUME TableSound, NEW w \in Workers, Table!CheckForm(w) \/ \E s \in Serials : Table!EnrollRead(w, s)
  PROVE  TableSound'
<1> USE DEF TableSound
<1>1. UNCHANGED <<lists, groups, devs, rules, nextRow, nextToken, card>>
  BY DEF Table!CheckForm, Table!EnrollRead, Table!db, Table!ids
<1>2. CASE Table!CheckForm(w)
  <2>1. ASSUME NEW r, Table!Becomes(w, r), r.op # "enroll" PROVE TableSound'
    BY <2>1, <1>1, TableAskedStep, TableStill
  <2>2. ASSUME NEW d, NEW l, Table!Becomes(w, [op |-> "assign", dev |-> d, list |-> l]) PROVE TableSound'
    BY <2>1, <2>2
  <2>3. ASSUME NEW d, NEW g, Table!Becomes(w, [op |-> "group", dev |-> d, group |-> g]) PROVE TableSound'
    BY <2>1, <2>3
  <2>4. ASSUME NEW g, NEW l, Table!Becomes(w, [op |-> "groupList", group |-> g, list |-> l]) PROVE TableSound'
    BY <2>1, <2>4
  <2>5. ASSUME NEW d, NEW l, Table!Becomes(w, [op |-> "rule", dev |-> d, list |-> l]) PROVE TableSound'
    BY <2>1, <2>5
  <2>6. ASSUME NEW l, NEW g, Table!Becomes(w, [op |-> "settings", list |-> l, group |-> g]) PROVE TableSound'
    BY <2>1, <2>6
  <2> QED
    BY <1>2, <2>2, <2>3, <2>4, <2>5, <2>6 DEF Table!CheckForm
<1>3. ASSUME NEW s \in Serials, Table!EnrollRead(w, s)
      PROVE  TableSound'
  <2>1. PICK r : Table!Becomes(w, r) /\ r.serial = s
    BY <1>3 DEF Table!EnrollRead
  <2> QED
    BY <2>1, <1>1, TableAskedStep, TableStill
<1> QED
  BY <1>2, <1>3

LEMMA TableGroupLists ==
  ASSUME TableSound, NEW w \in Workers, Table!AssignGroupList(w)
  PROVE  TableSound'
<1> USE DEF TableSound
<1>0. /\ UNCHANGED <<lists, devs, rules, nextRow, nextToken, card>> /\ Table!Ends(w)
  BY DEF Table!AssignGroupList, Table!ids
<1>1. TableAsked'
  BY <1>0, TableAskedStep
<1>2. CASE UNCHANGED groups
  BY <1>0, <1>1, <1>2, TableStill
<1>3. ASSUME NEW g, NEW l, Table!IsList(l),
             groups' = {IF x.id = g THEN [x EXCEPT !.list = l] ELSE x : x \in groups}
      PROVE  TableSound'
  <2>1. l \in Lists \cup {NULL}
    BY <1>3 DEF Table!IsList, TableTyped
  <2>2. ASSUME NEW y \in groups'
        PROVE  /\ y \in [id : Groups, list : Lists \cup {NULL}] /\ Table!IsList(y.list)
               /\ \E x \in groups : x.id = y.id
    <3>1. PICK x \in groups : y = IF x.id = g THEN [x EXCEPT !.list = l] ELSE x
      BY <1>3, <2>2
    <3>2. x \in [id : Groups, list : Lists \cup {NULL}] /\ Table!IsList(x.list)
      BY DEF TableTyped, Table!ReferencesResolve
    <3> QED
      BY <1>3, <2>1, <3>1, <3>2
  <2>3. ASSUME NEW x \in groups PROVE \E y \in groups' : y.id = x.id
    <3>1. x \in [id : Groups, list : Lists \cup {NULL}]
      BY DEF TableTyped
    <3>2. PICK y \in groups' : y = IF x.id = g THEN [x EXCEPT !.list = l] ELSE x
      BY <1>3
    <3> QED
      BY <3>1, <3>2
  <2>4. Table!GroupIds' = Table!GroupIds
    BY <2>2, <2>3 DEF Table!GroupIds
  <2>5. TableTyped'
    BY <1>0, <2>2 DEF TableTyped
  <2>6. Table!ReferencesResolve'
    BY <1>0, <2>2, <2>4 DEF Table!ReferencesResolve, Table!IsList, Table!IsGroup, Table!DevIds
  <2> QED
    BY <1>0, <1>1, <2>5, <2>6 DEF TableKeyed, Table!CardTokenWorks
<1> QED
  BY <1>2, <1>3 DEF Table!AssignGroupList

LEMMA TableRules ==
  ASSUME TableSound,
         \/ \E w \in Workers : Table!CreateRule(w) \/ Table!SaveSettings(w)
         \/ \E r \in rules : Table!DeleteRule(r)
  PROVE  TableSound'
<1> USE DEF TableSound
<1>0. UNCHANGED <<lists, groups, devs, nextRow, nextToken, card>>
  BY DEF Table!CreateRule, Table!SaveSettings, Table!DeleteRule, Table!ids
<1>1. TableAsked'
  <2>1. ASSUME NEW w \in Workers, Table!Ends(w) PROVE TableAsked'
    BY <2>1, TableAskedStep
  <2>2. CASE UNCHANGED req
    BY <2>2 DEF TableAsked, Table!Has
  <2> QED
    BY <2>1, <2>2 DEF Table!CreateRule, Table!SaveSettings, Table!DeleteRule
<1>2. \A r \in rules' : r \in rules \/ \E d \in devs, l \in lists : r = [dev |-> d.id, list |-> l]
  BY DEF Table!CreateRule, Table!SaveSettings, Table!DeleteRule, Table!DevIds
<1>3. rules' \subseteq [dev : 1..MaxRows, list : Lists]
  BY <1>2 DEF TableTyped, DeviceRow
<1>4. \A r \in rules' : r.dev \in Table!DevIds /\ r.list \in lists
  BY <1>2 DEF Table!ReferencesResolve, Table!DevIds
<1>5. TableTyped'
  BY <1>0, <1>3 DEF TableTyped
<1>6. Table!ReferencesResolve'
  BY <1>0, <1>4 DEF Table!ReferencesResolve, Table!IsList, Table!IsGroup, Table!DevIds, Table!GroupIds
<1> QED
  BY <1>0, <1>1, <1>5, <1>6 DEF TableKeyed, Table!CardTokenWorks

\* A playlist or a group that goes takes the references along.
LEMMA TableListsGo ==
  ASSUME TableSound, NEW l \in lists, Table!DeleteList(l)
  PROVE  TableSound'
<1> USE DEF TableSound
<1>0. /\ UNCHANGED <<nextRow, nextToken, card, req>> /\ lists' = lists \ {l}
      /\ rules' = {r \in rules : r.list # l}
      /\ devs' = {IF d.list = l THEN [d EXCEPT !.list = NULL] ELSE d : d \in devs}
      /\ groups' = {IF g.list = l THEN [g EXCEPT !.list = NULL] ELSE g : g \in groups}
  BY DEF Table!DeleteList, Table!ClearList, Table!ids
<1>1. \A d \in devs : d \in DeviceRow
  BY DEF TableTyped
<1>2. ASSUME NEW d \in devs
      PROVE  \E e \in devs' : /\ e = (IF d.list = l THEN [d EXCEPT !.list = NULL] ELSE d) /\ e \in DeviceRow
                              /\ e.id = d.id /\ e.serial = d.serial /\ e.token = d.token
                              /\ e.group = d.group /\ e.list \in (lists \ {l}) \cup {NULL}
  <2>1. PICK e \in devs' : e = IF d.list = l THEN [d EXCEPT !.list = NULL] ELSE d
    BY <1>0
  <2>2. d.list \in lists \cup {NULL}
    BY DEF Table!ReferencesResolve, Table!IsList
  <2> QED
    BY <1>1, <2>1, <2>2, RowChanged
<1>3. ASSUME NEW e \in devs'
      PROVE  \E d \in devs : /\ e = (IF d.list = l THEN [d EXCEPT !.list = NULL] ELSE d) /\ e \in DeviceRow
                             /\ e.id = d.id /\ e.serial = d.serial /\ e.token = d.token
                             /\ e.group = d.group /\ e.list \in (lists \ {l}) \cup {NULL}
  <2>1. PICK d \in devs : e = IF d.list = l THEN [d EXCEPT !.list = NULL] ELSE d
    BY <1>0
  <2> QED
    BY <1>2, <2>1
<1>4. ASSUME NEW h \in groups'
      PROVE  /\ h \in [id : Groups, list : Lists \cup {NULL}] /\ h.list \in (lists \ {l}) \cup {NULL}
             /\ \E g \in groups : h.id = g.id
  <2>1. PICK g \in groups : h = IF g.list = l THEN [g EXCEPT !.list = NULL] ELSE g
    BY <1>0
  <2>2. g \in [id : Groups, list : Lists \cup {NULL}] /\ g.list \in lists \cup {NULL}
    BY DEF TableTyped, Table!ReferencesResolve, Table!IsList
  <2> QED
    BY <2>1, <2>2
<1>5. ASSUME NEW g \in groups PROVE \E h \in groups' : h.id = g.id
  <2>1. g \in [id : Groups, list : Lists \cup {NULL}]
    BY DEF TableTyped
  <2>2. PICK h \in groups' : h = IF g.list = l THEN [g EXCEPT !.list = NULL] ELSE g
    BY <1>0
  <2> QED
    BY <2>1, <2>2
<1>6. Table!GroupIds' = Table!GroupIds /\ Table!DevIds' = Table!DevIds
  <2>1. Table!GroupIds' = Table!GroupIds
    BY <1>4, <1>5 DEF Table!GroupIds
  <2>2. Table!DevIds' = Table!DevIds
    BY <1>2, <1>3 DEF Table!DevIds
  <2> QED
    BY <2>1, <2>2
<1>7. TableTyped'
  BY <1>0, <1>3, <1>4 DEF TableTyped
<1>8. TableKeyed'
  BY <1>0, <1>3 DEF TableKeyed
<1>9. Table!CardTokenWorks'
  BY <1>0, <1>2 DEF Table!CardTokenWorks
<1>10. Table!ReferencesResolve'
  <2>1. \A e \in devs' : e.list \in lists' \cup {NULL} /\ e.group \in Table!GroupIds \cup {NULL}
    BY <1>0, <1>3 DEF Table!ReferencesResolve, Table!IsGroup
  <2>2. \A h \in groups' : h.list \in lists' \cup {NULL}
    BY <1>0, <1>4
  <2>3. \A r \in rules' : r.dev \in Table!DevIds /\ r.list \in lists'
    BY <1>0 DEF Table!ReferencesResolve
  <2> QED
    BY <1>6, <2>1, <2>2, <2>3 DEF Table!ReferencesResolve, Table!IsList, Table!IsGroup
<1> QED
  BY <1>0, <1>7, <1>8, <1>9, <1>10 DEF TableAsked, Table!Has
LEMMA TableGroupsGo ==
  ASSUME TableSound, NEW k \in Table!GroupIds, Table!DeleteGroup(k)
  PROVE  TableSound'
<1> USE DEF TableSound
<1>0. /\ UNCHANGED <<lists, rules, nextRow, nextToken, card, req>>
      /\ groups' = {x \in groups : x.id # k}
      /\ devs' = {IF d.group = k THEN [d EXCEPT !.group = NULL] ELSE d : d \in devs}
  BY DEF Table!DeleteGroup, Table!ids
<1>1. \A d \in devs : d \in DeviceRow
  BY DEF TableTyped
<1>2. ASSUME NEW d \in devs
      PROVE  \E e \in devs' : /\ e = (IF d.group = k THEN [d EXCEPT !.group = NULL] ELSE d) /\ e \in DeviceRow
                              /\ e.id = d.id /\ e.serial = d.serial /\ e.token = d.token
                              /\ e.list = d.list /\ e.group \in (Table!GroupIds \ {k}) \cup {NULL}
  <2>1. PICK e \in devs' : e = IF d.group = k THEN [d EXCEPT !.group = NULL] ELSE d
    BY <1>0
  <2>2. d.group \in Table!GroupIds \cup {NULL}
    BY DEF Table!ReferencesResolve, Table!IsGroup
  <2>3. CASE d.group = k
    <3>1. d \in DeviceRow /\ NULL \in Groups \cup {NULL} /\ e = [d EXCEPT !.group = NULL]
      BY <1>1, <2>1, <2>3
    <3>2. e \in DeviceRow /\ e.group = NULL /\ e.id = d.id /\ e.serial = d.serial /\ e.token = d.token /\ e.list = d.list
      BY <3>1, RowChanged
    <3> QED
      BY <2>1, <3>2
  <2>4. CASE d.group # k
    BY <1>1, <2>1, <2>2, <2>4
  <2> QED
    BY <2>3, <2>4
<1>3. ASSUME NEW e \in devs'
      PROVE  \E d \in devs : /\ e = (IF d.group = k THEN [d EXCEPT !.group = NULL] ELSE d) /\ e \in DeviceRow
                             /\ e.id = d.id /\ e.serial = d.serial /\ e.token = d.token
                             /\ e.list = d.list /\ e.group \in (Table!GroupIds \ {k}) \cup {NULL}
  <2>1. PICK d \in devs : e = IF d.group = k THEN [d EXCEPT !.group = NULL] ELSE d
    BY <1>0
  <2> QED
    BY <1>2, <2>1
<1>4. Table!GroupIds' = Table!GroupIds \ {k}
  BY <1>0 DEF Table!GroupIds
<1>5. Table!DevIds' = Table!DevIds
  BY <1>2, <1>3 DEF Table!DevIds
<1>6. TableTyped'
  BY <1>0, <1>3 DEF TableTyped
<1>7. TableKeyed'
  BY <1>0, <1>3 DEF TableKeyed
<1>8. Table!CardTokenWorks'
  BY <1>0, <1>2 DEF Table!CardTokenWorks
<1>9. Table!ReferencesResolve'
  BY <1>0, <1>3, <1>4, <1>5 DEF Table!ReferencesResolve, Table!IsList, Table!IsGroup
<1> QED
  BY <1>0, <1>6, <1>7, <1>8, <1>9 DEF TableAsked, Table!Has

LEMMA TableDevicesGo ==
  ASSUME TableSound, NEW d \in devs, Table!DeleteDevice(d)
  PROVE  TableSound'
<1> USE DEF TableSound
<1>0. /\ UNCHANGED <<lists, groups, nextRow, nextToken, req>>
      /\ devs' = devs \ {d} /\ rules' = {r \in rules : r.dev # d.id} /\ card' = [card EXCEPT ![d.serial] = 0]
  BY DEF Table!DeleteDevice, Table!ids
<1>1. d.serial \in Serials /\ card \in [Serials -> 0..MaxTokens]
  BY DEF TableTyped, DeviceRow
<1>2. TableTyped'
  BY <1>0, <1>1, TableBounds DEF TableTyped
<1>3. Table!CardTokenWorks'
  BY <1>0, <1>1 DEF Table!CardTokenWorks
<1>4. Table!DevIds \ {d.id} \subseteq Table!DevIds' /\ Table!GroupIds' = Table!GroupIds
  BY <1>0 DEF Table!DevIds, Table!GroupIds
<1>5. Table!ReferencesResolve'
  BY <1>0, <1>4 DEF Table!ReferencesResolve, Table!IsList, Table!IsGroup
<1> QED
  BY <1>0, <1>2, <1>3, <1>5 DEF TableAsked, Table!Has, TableKeyed

\* A new row: a serial nobody has, the next id and the next token.
LEMMA RowInserted ==
  ASSUME TableSound, NEW s \in Serials, NEW l, NEW g, \A d \in devs : d.serial # s,
         Table!IsList(l), Table!IsGroup(g), nextRow <= MaxRows, nextToken <= MaxTokens,
         devs' = devs \cup {Table!Device(nextRow, s, nextToken, l, g)},
         nextRow' = nextRow + 1, nextToken' = nextToken + 1,
         UNCHANGED <<lists, groups, rules>>, card' = card \/ card' = Table!Given(s)
  PROVE  TableTyped' /\ TableKeyed' /\ Table!CardTokenWorks' /\ Table!ReferencesResolve'
<1> USE DEF TableSound
<1>1. l \in Lists \cup {NULL} /\ g \in Groups \cup {NULL}
  BY DEF Table!IsList, Table!IsGroup, TableTyped, Table!GroupIds
<1>2. nextRow \in 1..MaxRows /\ nextToken \in 1..MaxTokens /\ nextRow' \in Nat \ {0} /\ nextToken' \in Nat \ {0}
  BY TableBounds DEF TableTyped
<1>3. PICK e \in devs' : /\ e \in DeviceRow /\ devs' = devs \cup {e}
                        /\ e.id = nextRow /\ e.serial = s /\ e.token = nextToken /\ e.list = l /\ e.group = g
  <2> DEFINE n == Table!Device(nextRow, s, nextToken, l, g)
  <2>1. /\ n \in DeviceRow
        /\ n.id = nextRow /\ n.serial = s /\ n.token = nextToken /\ n.list = l /\ n.group = g
    BY <1>1, <1>2 DEF Table!Device, DeviceRow
  <2>2. devs' = devs \cup {n}
    OBVIOUS
  <2> HIDE DEF n
  <2> QED
    BY <2>1, <2>2
<1>4. card' \in [Serials -> 0..MaxTokens] /\ \A t \in Serials \ {s} : card'[t] = card[t]
  BY <1>2 DEF Table!Given, TableTyped
<1>5. TableTyped'
  BY <1>2, <1>3, <1>4 DEF TableTyped
<1>6. TableKeyed'
  BY <1>2, <1>3 DEF TableKeyed, TableTyped, DeviceRow
<1>7. card'[s] = card[s] \/ card'[s] = nextToken
  BY DEF Table!Given, TableTyped
<1>8. Table!CardTokenWorks'
  BY <1>3, <1>4, <1>7 DEF Table!CardTokenWorks
<1>9. Table!DevIds \subseteq Table!DevIds' /\ Table!GroupIds' = Table!GroupIds
  BY <1>3 DEF Table!DevIds, Table!GroupIds
<1>10. Table!ReferencesResolve'
  BY <1>3, <1>9 DEF Table!ReferencesResolve, Table!IsList, Table!IsGroup
<1> QED
  BY <1>5, <1>6, <1>8, <1>10

LEMMA TableGrows ==
  ASSUME TableSound,
         \/ \E s \in Serials : Table!CreateDevice(s)
         \/ \E w \in Workers : Table!EnrollInsert(w)
  PROVE  TableSound'
<1> USE DEF TableSound
<1>1. ASSUME NEW s \in Serials, Table!CreateDevice(s)
      PROVE  TableSound'
  <2>1. Table!IsList(NULL) /\ Table!IsGroup(NULL)
    BY DEF Table!IsList, Table!IsGroup
  <2>2. TableTyped' /\ TableKeyed' /\ Table!CardTokenWorks' /\ Table!ReferencesResolve'
    BY <1>1, <2>1, RowInserted DEF Table!CreateDevice
  <2> QED
    BY <1>1, <2>2 DEF Table!CreateDevice, TableAsked, Table!Has
<1>2. ASSUME NEW w \in Workers, Table!EnrollInsert(w)
      PROVE  TableSound'
  <2>0. Table!EnrollWith(w, card) /\ Table!Ends(w) /\ UNCHANGED <<lists, groups, rules>>
    BY <1>2 DEF Table!EnrollInsert, Table!EnrollWith
  <2>1. TableAsked'
    BY <2>0, TableAskedStep
  <2>2. CASE Table!Insertable(req[w])
    <3>1. req[w].serial \in Serials
      BY <2>0 DEF Table!EnrollWith, TableAsked
    <3>2. TableTyped' /\ TableKeyed' /\ Table!CardTokenWorks' /\ Table!ReferencesResolve'
      BY <2>0, <2>2, <3>1, RowInserted DEF Table!EnrollWith, Table!Insertable
    <3> QED
      BY <2>1, <3>2
  <2>3. CASE ~Table!Insertable(req[w])
    BY <2>0, <2>1, <2>3, TableStill DEF Table!EnrollWith
  <2> QED
    BY <2>2, <2>3
<1> QED
  BY <1>1, <1>2

LEMMA TableTokens ==
  ASSUME TableSound,
         \/ \E d \in devs : Table!RegenToken(d)
         \/ \E s \in Serials : Table!EnrollKnown(s)
  PROVE  TableSound'
<1> USE DEF TableSound
<1>1. ASSUME NEW d \in devs, Table!RegenToken(d)
      PROVE  TableSound'
  <2>0. /\ UNCHANGED <<lists, groups, rules, nextRow, req>> /\ nextToken' = nextToken + 1 /\ nextToken <= MaxTokens
        /\ card' = [card EXCEPT ![d.serial] = 0] /\ Table!SetDev(d.id, [d EXCEPT !.token = nextToken])
    BY <1>1 DEF Table!RegenToken
  <2>1. nextToken \in 1..MaxTokens /\ nextToken' \in Nat \ {0} /\ d \in DeviceRow
    BY <2>0, TableBounds DEF TableTyped
  <2>2. PICK e \in DeviceRow : e = [d EXCEPT !.token = nextToken] /\ e.id = d.id /\ e.serial = d.serial
                               /\ e.list = d.list /\ e.group = d.group
    BY <2>1, RowChanged
  <2>3. Table!IsList(d.list) /\ Table!IsGroup(d.group)
    BY DEF Table!ReferencesResolve
  <2>4. /\ devs' = (devs \ {d}) \cup {e} /\ devs' \subseteq DeviceRow
        /\ TableKeyed' <=> \A x \in devs' : x.id < nextRow'
        /\ Table!ReferencesResolve'
    BY <2>0, <2>2, <2>3, RowWritten
  <2>5. TableKeyed'
    BY <2>0, <2>2, <2>4 DEF TableKeyed
  <2>6. TableTyped'
    <3>1. 0 \in 0..MaxTokens /\ card' = [card EXCEPT ![d.serial] = 0] /\ card \in [Serials -> 0..MaxTokens]
      BY <2>0, TableBounds DEF TableTyped
    <3>2. card' \in [Serials -> 0..MaxTokens]
      BY <3>1, Zenon
    <3> QED
      BY <2>0, <2>1, <2>4, <3>2 DEF TableTyped
  <2>7. card'[d.serial] = 0 /\ \A s \in Serials \ {d.serial} : card'[s] = card[s]
    BY <2>0, <2>1 DEF TableTyped, DeviceRow
  <2>8. Table!CardTokenWorks'
    BY <2>4, <2>7 DEF Table!CardTokenWorks
  <2> QED
    BY <2>0, <2>4, <2>5, <2>6, <2>8 DEF TableAsked, Table!Has
<1>2. ASSUME NEW s \in Serials, Table!EnrollKnown(s)
      PROVE  TableSound'
  <2>1. PICK d \in devs : d.serial = s /\ card' = [card EXCEPT ![s] = d.token]
    BY <1>2 DEF Table!EnrollKnown
  <2>2. UNCHANGED <<lists, groups, devs, rules, nextRow, nextToken, req>>
    BY <1>2 DEF Table!EnrollKnown, Table!db, Table!ids
  <2>3. card' \in [Serials -> 0..MaxTokens] /\ card'[s] = d.token /\ \A t \in Serials \ {s} : card'[t] = card[t]
    BY <2>1 DEF TableTyped, DeviceRow
  <2>4. Table!CardTokenWorks'
    BY <2>1, <2>2, <2>3 DEF Table!CardTokenWorks
  <2>5. TableTyped' /\ TableKeyed'
    BY <2>2, <2>3 DEF TableTyped, TableKeyed
  <2>6. Table!ReferencesResolve'
    BY <2>2 DEF Table!ReferencesResolve, Table!IsList, Table!IsGroup, Table!GroupIds, Table!DevIds
  <2> QED
    BY <2>2, <2>4, <2>5, <2>6 DEF TableAsked, Table!Has
<1> QED
  BY <1>1, <1>2

LEMMA TableStep ==
  ASSUME TableSound, Table!Next
  PROVE  TableSound'
BY TableAssigns, TableReads, TableGroupLists, TableRules, TableListsGo, TableGroupsGo, TableDevicesGo,
   TableGrows, TableTokens DEF Table!Next

----------------------------------------------------------------------------
(* LanCommands.                                                              *)
CommandRow == [id : 1..MaxCommands, dev : Devices, learn : IrNames \cup {NULL}, count : Nat,
               end : {"open", "reported", "undeliverable"}]
Polls == [op : {"poll"}, open : SUBSET [id : Nat, count : Nat]]
Reports == [op : {"report"}, cmd : Nat, dev : Devices, name : IrNames \cup {NULL}, codes : SUBSET IrNames]
Asking == {Remote!Idle} \cup Polls \cup Reports

RemoteTyped ==
  /\ devs \subseteq Devices /\ codes \in [Devices -> SUBSET IrNames]
  /\ cmds \subseteq CommandRow /\ nextCmd \in Nat \ {0}
  /\ req \in [Workers -> Asking]

\* Ids are unique and never given twice, to a row or in what a poll has read.
RemoteFiled ==
  /\ \A c \in cmds : c.dev \in devs /\ c.id < nextCmd
  /\ \A c, e \in cmds : c.id = e.id => c = e
  /\ \A w \in Workers : req[w].op = "poll" => \A o \in req[w].open :
       /\ o.id < nextCmd
       /\ \A p \in req[w].open : p.id = o.id => p = o
       /\ \A c \in cmds : c.id = o.id => o.count <= c.count

\* The polls that will add a delivery to row i.
Adding(i) == {w \in Workers : req[w].op = "poll" /\ \E o \in req[w].open : o.id = i /\ ~Remote!Spent(o)}

RemoteCounted ==
  \A c \in cmds : /\ c.count + Cardinality(Adding(c.id)) <= MaxDeliveries + Cardinality(Workers) - 1
                  /\ c.end = "undeliverable" => c.count >= MaxDeliveries

IsOpenUpdate(c) == c.end = "open" /\ c.learn = NULL
OneUpdate == \A c, e \in cmds : IsOpenUpdate(c) /\ IsOpenUpdate(e) /\ c.dev = e.dev => c = e

\* Off the race, a result under way is alone with its device and has read the codes as they are.
Learning ==
  /\ \A k \in acked : k[1] \in devs \ raced => k[2] \in codes[k[1]]
  /\ \A w \in Workers : req[w].op = "report" /\ req[w].dev \notin raced =>
       /\ req[w].codes = codes[req[w].dev]
       /\ \A v \in Workers : req[v].op = "report" /\ req[v].dev = req[w].dev => v = w

RemoteSound == RemoteTyped /\ RemoteFiled /\ RemoteCounted /\ OneUpdate /\ Learning

LEMMA RemoteCardinality == \A S : Remote!Cardinality(S) = Cardinality(S)
BY DEF Remote!Cardinality, Cardinality

LEMMA AddingBounded ==
  ASSUME NEW i
  PROVE  /\ IsFiniteSet(Adding(i)) /\ Cardinality(Adding(i)) \in Nat
         /\ Cardinality(Workers) \in Nat /\ Cardinality(Adding(i)) <= Cardinality(Workers)
<1>1. Adding(i) \subseteq Workers /\ IsFiniteSet(Workers)
  BY RemoteBounds DEF Adding
<1> QED
  BY <1>1, FS_Subset, FS_CardinalityType

LEMMA RemoteInit == Remote!Init => RemoteSound
<1> SUFFICES ASSUME Remote!Init PROVE RemoteSound
  OBVIOUS
<1> USE DEF Remote!Init
<1>1. \A w \in Workers : req[w] = Remote!Idle /\ req[w].op = "idle"
  BY DEF Remote!Idle
<1>2. RemoteTyped
  BY DEF RemoteTyped, Asking
<1>3. RemoteFiled /\ RemoteCounted /\ OneUpdate /\ Learning
  BY <1>1 DEF RemoteFiled, RemoteCounted, OneUpdate, Learning
<1> QED
  BY <1>2, <1>3 DEF RemoteSound

LEMMA AskingTold ==
  ASSUME NEW r \in Asking
  PROVE  /\ r.op \in {"idle", "poll", "report"}
         /\ r.op = "poll" => r.open \subseteq [id : Nat, count : Nat]
         /\ r.op = "report" => r.dev \in Devices /\ r.name \in IrNames \cup {NULL} /\ r.codes \subseteq IrNames
         /\ r.op = "idle" <=> r = Remote!Idle
BY DEF Asking, Polls, Reports, Remote!Idle

\* New open rows under new ids, no second update for a device.
LEMMA RowsAdded ==
  ASSUME RemoteSound, NEW new \in SUBSET CommandRow, cmds' = cmds \cup new, nextCmd' \in Nat, nextCmd' >= nextCmd,
         \A c \in new : /\ c.dev \in devs /\ c.id >= nextCmd /\ c.id < nextCmd' /\ c.count = 0 /\ c.end = "open"
                        /\ IsOpenUpdate(c) => \A e \in cmds : ~(IsOpenUpdate(e) /\ e.dev = c.dev),
         \A c, e \in new : c.id = e.id \/ (IsOpenUpdate(c) /\ IsOpenUpdate(e) /\ c.dev = e.dev) => c = e,
         UNCHANGED <<devs, codes, req, acked, raced>>
  PROVE  RemoteSound'
<1> USE DEF RemoteSound
<1>1. RemoteTyped'
  BY DEF RemoteTyped
<1>2. nextCmd \in Nat /\ cmds \subseteq CommandRow
  BY DEF RemoteTyped
<1>3. \A c \in cmds : c.id < nextCmd /\ c.id \in Nat
  BY <1>2 DEF RemoteFiled, CommandRow
<1>4. \A c \in new : c.id \in Nat
  BY DEF CommandRow
<1>5. \A w \in Workers : req[w].op = "poll" => req[w].open \subseteq [id : Nat, count : Nat]
  BY AskingTold DEF RemoteTyped
<1>6. RemoteFiled'
  <2>1. \A c \in cmds' : c.dev \in devs' /\ c.id < nextCmd'
    BY <1>2, <1>3, <1>4 DEF RemoteFiled
  <2>2. \A c, e \in cmds' : c.id = e.id => c = e
    BY <1>2, <1>3, <1>4 DEF RemoteFiled
  <2>3. ASSUME NEW w \in Workers, req[w].op = "poll", NEW o \in req[w].open
        PROVE  /\ o.id < nextCmd'
               /\ \A p \in req[w].open : p.id = o.id => p = o
               /\ \A c \in cmds' : c.id = o.id => o.count <= c.count
    <3>1. o.id \in Nat /\ o.id < nextCmd
      BY <1>5, <2>3 DEF RemoteFiled
    <3> QED
      BY <1>2, <1>4, <2>3, <3>1 DEF RemoteFiled
  <2> QED
    BY <2>1, <2>2, <2>3 DEF RemoteFiled
<1>7. RemoteCounted'
  <2>1. \A i : Adding(i)' = Adding(i)
    BY DEF Adding
  <2>2. ASSUME NEW c \in new PROVE Adding(c.id) = {}
    BY <1>2, <1>4, <1>5 DEF RemoteFiled, Adding
  <2>3. ASSUME NEW c \in new PROVE c.count + Cardinality(Adding(c.id)) <= MaxDeliveries + Cardinality(Workers) - 1
    BY <2>2, AddingBounded, RemoteBounds, FS_EmptySet
  <2> QED
    BY <2>1, <2>3 DEF RemoteCounted
<1>8. OneUpdate'
  BY DEF OneUpdate
<1>9. Learning'
  BY DEF Learning
<1> QED
  BY <1>1, <1>6, <1>7, <1>8, <1>9

LEMMA CommandIs ==
  ASSUME NEW i \in 1..MaxCommands, NEW d \in Devices, NEW k \in IrNames \cup {NULL}
  PROVE  LET c == Remote!Command(i, d, k)
         IN  c \in CommandRow /\ c.id = i /\ c.dev = d /\ c.learn = k /\ c.count = 0 /\ c.end = "open"
BY DEF Remote!Command, CommandRow

LEMMA RemoteQueues ==
  ASSUME RemoteSound, Remote!UpdateAll \/ \E d \in devs, name \in IrNames : Remote!SendCommand(d, name)
  PROVE  RemoteSound'
<1>0. devs \subseteq Devices /\ cmds \subseteq CommandRow /\ nextCmd \in Nat \ {0}
  BY DEF RemoteSound, RemoteTyped
<1>1. ASSUME NEW d \in devs, NEW name \in IrNames, Remote!SendCommand(d, name)
      PROVE  RemoteSound'
  <2> DEFINE c == Remote!Command(nextCmd, d, name)
  <2>1. c \in CommandRow /\ c.id = nextCmd /\ c.dev = d /\ c.learn = name /\ c.count = 0 /\ c.end = "open"
    BY <1>0, <1>1, CommandIs, RemoteBounds DEF Remote!SendCommand
  <2>2. /\ cmds' = cmds \cup {c} /\ nextCmd' = nextCmd + 1 /\ UNCHANGED <<devs, codes, req, acked, raced>>
    BY <1>1 DEF Remote!SendCommand
  <2> HIDE DEF c
  <2>3. ~IsOpenUpdate(c)
    BY <2>1, RemoteBounds DEF IsOpenUpdate
  <2> DEFINE new == {c}
  <2>4. /\ new \in SUBSET CommandRow /\ cmds' = cmds \cup new /\ nextCmd' \in Nat /\ nextCmd' >= nextCmd
        /\ \A x \in new : /\ x.dev \in devs /\ x.id >= nextCmd /\ x.id < nextCmd' /\ x.count = 0 /\ x.end = "open"
                         /\ ~IsOpenUpdate(x)
        /\ \A x, y \in new : x = y
    BY <1>0, <2>1, <2>2, <2>3
  <2> HIDE DEF new
  <2> QED
    BY <2>2, <2>4, RowsAdded
<1>2. CASE Remote!UpdateAll
  <2> DEFINE n == Cardinality(Remote!WithoutUpdate)
  <2>1. PICK rank \in [Remote!WithoutUpdate -> 0..n - 1] :
          /\ \A d, e \in Remote!WithoutUpdate : d # e => rank[d] # rank[e]
          /\ cmds' = cmds \cup {Remote!Command(nextCmd + rank[d], d, NULL) : d \in Remote!WithoutUpdate}
    BY <1>2, RemoteCardinality, Zenon DEF Remote!UpdateAll
  <2>2. nextCmd' = nextCmd + n /\ nextCmd + n <= MaxCommands + 1 /\ UNCHANGED <<devs, codes, req, acked, raced>>
    BY <1>2, RemoteCardinality DEF Remote!UpdateAll
  <2>3. n \in Nat /\ Remote!WithoutUpdate \subseteq devs
    BY <1>0, RemoteBounds, FS_Subset, FS_CardinalityType DEF Remote!WithoutUpdate
  <2> DEFINE new == {Remote!Command(nextCmd + rank[d], d, NULL) : d \in Remote!WithoutUpdate}
  <2> HIDE DEF n
  <2>4. ASSUME NEW d \in Remote!WithoutUpdate
        PROVE  LET c == Remote!Command(nextCmd + rank[d], d, NULL)
               IN  /\ c \in CommandRow /\ c.id = nextCmd + rank[d] /\ c.dev = d /\ c.learn = NULL
                   /\ c.count = 0 /\ c.end = "open" /\ c.id < nextCmd' /\ c.id >= nextCmd
    <3>1. rank[d] \in 0..n - 1
      BY <2>1
    <3>2. nextCmd + rank[d] \in 1..MaxCommands /\ nextCmd + rank[d] < nextCmd' /\ nextCmd + rank[d] >= nextCmd
      BY <1>0, <2>2, <2>3, <3>1, RemoteBounds
    <3> QED
      BY <1>0, <2>3, <3>2, CommandIs
  <2>5. ASSUME NEW c \in new
        PROVE  \E d \in Remote!WithoutUpdate :
                 /\ c \in CommandRow /\ c.id = nextCmd + rank[d] /\ c.dev = d /\ c.learn = NULL
                 /\ c.count = 0 /\ c.end = "open" /\ c.id < nextCmd' /\ c.id >= nextCmd
                 /\ c = Remote!Command(nextCmd + rank[d], d, NULL)
    BY <2>4, <2>5
  <2> HIDE DEF new
  <2>6. \A c \in new : \A e \in cmds : ~(IsOpenUpdate(e) /\ e.dev = c.dev)
    BY <2>5 DEF Remote!WithoutUpdate, Remote!Open, IsOpenUpdate
  <2>7. ASSUME NEW c \in new, NEW e \in new, c.id = e.id \/ c.dev = e.dev
        PROVE  c = e
    <3>1. PICK d \in Remote!WithoutUpdate : c.id = nextCmd + rank[d] /\ c.dev = d /\ c = Remote!Command(nextCmd + rank[d], d, NULL)
      BY <2>5
    <3>2. PICK f \in Remote!WithoutUpdate : e.id = nextCmd + rank[f] /\ e.dev = f /\ e = Remote!Command(nextCmd + rank[f], f, NULL)
      BY <2>5
    <3>3. rank[d] \in Int /\ rank[f] \in Int
      BY <2>1, <2>3
    <3>4. d = f
      BY <1>0, <2>1, <2>7, <3>1, <3>2, <3>3
    <3> QED
      BY <3>1, <3>2, <3>4
  <2>8. new \in SUBSET CommandRow /\ cmds' = cmds \cup new
    BY <2>1, <2>5 DEF new
  <2>9. \A c \in new : /\ c.dev \in devs /\ c.id >= nextCmd /\ c.id < nextCmd' /\ c.count = 0 /\ c.end = "open"
    BY <2>3, <2>5
  <2>10. nextCmd' \in Nat /\ nextCmd' >= nextCmd
    BY <1>0, <2>2, <2>3
  <2> QED
    BY <2>2, <2>6, <2>7, <2>8, <2>9, <2>10, RowsAdded
<1> QED
  BY <1>1, <1>2

LEMMA RemoteDeletes ==
  ASSUME RemoteSound, NEW d \in devs, Remote!DeleteDevice(d)
  PROVE  RemoteSound'
<1> USE DEF RemoteSound
<1>0. /\ devs' = devs \ {d} /\ cmds' = {c \in cmds : c.dev # d} /\ UNCHANGED <<codes, nextCmd, req, acked, raced>>
  BY DEF Remote!DeleteDevice
<1>1. RemoteTyped'
  BY <1>0 DEF RemoteTyped
<1>2. RemoteFiled'
  BY <1>0 DEF RemoteFiled
<1>3. \A i : Adding(i)' = Adding(i)
  BY <1>0 DEF Adding
<1>4. RemoteCounted'
  BY <1>0, <1>3 DEF RemoteCounted
<1>5. OneUpdate' /\ Learning'
  BY <1>0 DEF OneUpdate, Learning
<1> QED
  BY <1>1, <1>2, <1>4, <1>5

LEMMA AskedAnew ==
  ASSUME RemoteTyped, NEW w \in Workers, NEW r \in Asking, req' = [req EXCEPT ![w] = r]
  PROVE  req' \in [Workers -> Asking] /\ req'[w] = r /\ \A v \in Workers \ {w} : req'[v] = req[v]
BY DEF RemoteTyped

LEMMA RemotePolls ==
  ASSUME RemoteSound, NEW w \in Workers, NEW d \in devs, Remote!PollRead(w, d)
  PROVE  RemoteSound'
<1> USE DEF RemoteSound
<1> DEFINE open == {[id |-> c.id, count |-> c.count] : c \in Remote!Open(d)}
           r == [op |-> "poll", open |-> open]
<1>0. /\ UNCHANGED <<devs, codes, cmds, nextCmd, acked, raced>>
      /\ req[w] = Remote!Idle /\ req' = [req EXCEPT ![w] = r]
  BY DEF Remote!PollRead, Remote!Becomes
<1>1. cmds \subseteq CommandRow /\ nextCmd \in Nat /\ \A c \in cmds : c.id \in Nat /\ c.count \in Nat
  BY DEF RemoteTyped, CommandRow
<1>2. ASSUME NEW o \in open
      PROVE  \E c \in cmds : o.id = c.id /\ o.count = c.count /\ o \in [id : Nat, count : Nat]
                             /\ o = [id |-> c.id, count |-> c.count]
  BY <1>1 DEF Remote!Open
<1> HIDE DEF open
<1>3. r \in Asking /\ r.op = "poll" /\ r.open = open
  <2>1. open \subseteq [id : Nat, count : Nat]
    BY <1>2
  <2> QED
    BY <2>1 DEF Asking, Polls
<1> HIDE DEF r
<1>4. req' \in [Workers -> Asking] /\ req'[w] = r /\ \A v \in Workers \ {w} : req'[v] = req[v]
  BY <1>0, <1>3, AskedAnew
<1>5. RemoteTyped'
  BY <1>0, <1>4 DEF RemoteTyped
<1>6. RemoteFiled'
  <2>1. ASSUME NEW o \in open
        PROVE  /\ o.id < nextCmd
               /\ \A p \in open : p.id = o.id => p = o
               /\ \A c \in cmds : c.id = o.id => o.count <= c.count
    <3>1. PICK c \in cmds : o.id = c.id /\ o.count = c.count /\ o = [id |-> c.id, count |-> c.count]
      BY <1>2
    <3>2. ASSUME NEW p \in open, p.id = o.id PROVE p = o
      <4>1. PICK e \in cmds : p.id = e.id /\ p = [id |-> e.id, count |-> e.count]
        BY <1>2
      <4>2. e = c
        BY <3>1, <3>2, <4>1 DEF RemoteFiled
      <4> QED
        BY <3>1, <4>1, <4>2
    <3>3. \A e \in cmds : e.id = o.id => e = c
      BY <3>1 DEF RemoteFiled
    <3> QED
      BY <1>1, <3>1, <3>2, <3>3 DEF RemoteFiled
  <2>2. ASSUME NEW v \in Workers, req'[v].op = "poll"
        PROVE  \A o \in req'[v].open : /\ o.id < nextCmd
                                       /\ \A p \in req'[v].open : p.id = o.id => p = o
                                       /\ \A c \in cmds : c.id = o.id => o.count <= c.count
    <3>1. CASE v = w
      BY <1>3, <1>4, <2>1, <3>1
    <3>2. CASE v # w
      BY <1>4, <2>2, <3>2 DEF RemoteFiled
    <3> QED
      BY <3>1, <3>2
  <2> QED
    BY <1>0, <2>2 DEF RemoteFiled
<1>7. RemoteCounted'
  <2>1. ASSUME NEW c \in cmds
        PROVE  c.count + Cardinality(Adding(c.id)') <= MaxDeliveries + Cardinality(Workers) - 1
    <3>1. CASE \E o \in open : o.id = c.id /\ ~Remote!Spent(o)
      <4>1. PICK o \in open : o.id = c.id /\ ~(o.count >= MaxDeliveries)
        BY <3>1 DEF Remote!Spent
      <4>2. o.count = c.count
        BY <1>2, <4>1 DEF RemoteFiled
      <4>3. Adding(c.id)' \subseteq Workers
        BY DEF Adding
      <4>4. Cardinality(Adding(c.id)') \in Nat /\ Cardinality(Adding(c.id)') <= Cardinality(Workers) /\ Cardinality(Workers) \in Nat
        BY <4>3, RemoteBounds, FS_Subset, FS_CardinalityType
      <4> QED
        BY <1>1, <4>1, <4>2, <4>4, RemoteBounds
    <3>2. CASE ~\E o \in open : o.id = c.id /\ ~Remote!Spent(o)
      <4>1. \A v \in Workers : (req'[v].op = "poll" /\ \E o \in req'[v].open : o.id = c.id /\ ~Remote!Spent(o))
                               <=> (req[v].op = "poll" /\ \E o \in req[v].open : o.id = c.id /\ ~Remote!Spent(o))
        <5>1. ~(req[w].op = "poll")
          BY <1>0 DEF Remote!Idle
        <5> QED
          BY <1>3, <1>4, <3>2, <5>1
      <4>2. Adding(c.id)' = Adding(c.id)
        BY <4>1 DEF Adding, Remote!Spent
      <4> QED
        BY <4>2 DEF RemoteCounted
    <3> QED
      BY <3>1, <3>2
  <2> QED
    BY <1>0, <2>1 DEF RemoteCounted
<1>8. OneUpdate'
  BY <1>0 DEF OneUpdate
<1>9. Learning'
  <2>1. req'[w].op # "report"
    BY <1>3, <1>4
  <2> QED
    BY <1>0, <1>4, <2>1 DEF Learning
<1> QED
  BY <1>5, <1>6, <1>7, <1>8, <1>9

LEMMA HandedOut ==
  ASSUME NEW c \in CommandRow, NEW o
  PROVE  LET e == Remote!HandOut(c, o)
         IN  /\ e \in CommandRow /\ e.id = c.id /\ e.dev = c.dev /\ e.learn = c.learn
             /\ e.count = IF Remote!Spent(o) THEN c.count ELSE c.count + 1
             /\ e.end = IF Remote!Spent(o) /\ c.end = "open" THEN "undeliverable" ELSE c.end
BY DEF Remote!HandOut, CommandRow

LEMMA RemoteAnswers ==
  ASSUME RemoteSound, NEW w \in Workers, Remote!PollWrite(w)
  PROVE  RemoteSound'
<1> USE DEF RemoteSound
<1> DEFINE Found(c) == \E o \in req[w].open : o.id = c.id
           Seen(c) == CHOOSE o \in req[w].open : o.id = c.id
           Then(c) == IF Found(c) THEN Remote!HandOut(c, Seen(c)) ELSE c
<1>0. /\ UNCHANGED <<devs, codes, nextCmd, acked, raced>> /\ req[w].op = "poll"
      /\ cmds' = {Then(c) : c \in cmds} /\ req' = [req EXCEPT ![w] = Remote!Idle]
  BY DEF Remote!PollWrite, Remote!Ends
<1>1. req' \in [Workers -> Asking] /\ req'[w] = Remote!Idle /\ (\A v \in Workers \ {w} : req'[v] = req[v])
  <2>1. Remote!Idle \in Asking
    BY DEF Asking
  <2> QED
    BY <1>0, <2>1, AskedAnew
<1>2. \A c \in cmds : c \in CommandRow /\ c.count \in Nat
  BY DEF RemoteTyped, CommandRow
<1>3. ASSUME NEW c \in cmds
      PROVE  /\ Then(c) \in CommandRow /\ Then(c).id = c.id /\ Then(c).dev = c.dev /\ Then(c).learn = c.learn
             /\ Then(c).count >= c.count
             /\ Then(c).end = c.end \/ (Then(c).end = "undeliverable" /\ Then(c).count >= MaxDeliveries)
             /\ Then(c).count = c.count \/ (Then(c).count = c.count + 1 /\ w \in Adding(c.id))
  <2>1. CASE Found(c)
    <3>1. PICK o \in req[w].open : o = Seen(c) /\ o.id = c.id
      BY <2>1
    <3>2. o.count <= c.count /\ o.count \in Nat
      <4>1. req[w] \in Asking
        BY DEF RemoteTyped
      <4>2. o \in [id : Nat, count : Nat]
        BY <1>0, <4>1, AskingTold
      <4> QED
        BY <1>0, <3>1, <4>2 DEF RemoteFiled
    <3>3. Then(c) = Remote!HandOut(c, o)
      BY <2>1, <3>1
    <3> HIDE DEF Then
    <3>4. /\ Then(c) \in CommandRow /\ Then(c).id = c.id /\ Then(c).dev = c.dev /\ Then(c).learn = c.learn
          /\ Then(c).count = IF Remote!Spent(o) THEN c.count ELSE c.count + 1
          /\ Then(c).end = IF Remote!Spent(o) /\ c.end = "open" THEN "undeliverable" ELSE c.end
      BY <1>2, <3>3, HandedOut
    <3>5. CASE Remote!Spent(o)
      <4>1. c.count >= MaxDeliveries
        BY <1>2, <3>2, <3>5, RemoteBounds DEF Remote!Spent
      <4> QED
        BY <1>2, <3>4, <3>5, <4>1
    <3>6. CASE ~Remote!Spent(o)
      <4>1. w \in Adding(c.id)
        BY <1>0, <3>1, <3>6 DEF Adding
      <4> QED
        BY <1>2, <3>4, <3>6, <4>1
    <3> QED
      BY <3>5, <3>6
  <2>2. CASE ~Found(c)
    BY <1>2, <2>2
  <2> QED
    BY <2>1, <2>2
<1>4. ASSUME NEW e \in cmds' PROVE \E c \in cmds : e = Then(c)
  BY <1>0
<1> HIDE DEF Then
<1>5. RemoteTyped'
  BY <1>0, <1>1, <1>3, <1>4 DEF RemoteTyped
<1>6. RemoteFiled'
  <2>1. \A e \in cmds' : e.dev \in devs' /\ e.id < nextCmd'
    BY <1>0, <1>3, <1>4 DEF RemoteFiled
  <2>2. \A e, f \in cmds' : e.id = f.id => e = f
    BY <1>3, <1>4 DEF RemoteFiled
  <2>3. ASSUME NEW v \in Workers, req'[v].op = "poll", NEW o \in req'[v].open
        PROVE  /\ o.id < nextCmd'
               /\ \A p \in req'[v].open : p.id = o.id => p = o
               /\ \A e \in cmds' : e.id = o.id => o.count <= e.count
    <3>1. v # w /\ req'[v] = req[v] /\ req[v] \in Asking
      BY <1>1, <2>3 DEF Remote!Idle, RemoteTyped
    <3>2. o \in [id : Nat, count : Nat]
      BY <2>3, <3>1, AskingTold
    <3>3. ASSUME NEW e \in cmds', e.id = o.id PROVE o.count <= e.count
      <4>1. PICK c \in cmds : e = Then(c)
        BY <1>4
      <4>2. o.count <= c.count /\ e.count >= c.count /\ e.count \in Nat /\ c.count \in Nat
        BY <1>2, <1>3, <2>3, <3>1, <3>3, <4>1 DEF RemoteFiled, CommandRow
      <4> QED
        BY <3>2, <4>2
    <3> QED
      BY <1>0, <2>3, <3>1, <3>3 DEF RemoteFiled
  <2> QED
    BY <2>1, <2>2, <2>3 DEF RemoteFiled
<1>7. RemoteCounted'
  <2>1. ASSUME NEW i PROVE Adding(i)' = Adding(i) \ {w}
    <3>1. req'[w].op # "poll"
      BY <1>1 DEF Remote!Idle
    <3> QED
      BY <1>1, <3>1 DEF Adding, Remote!Spent
  <2>2. ASSUME NEW e \in cmds'
        PROVE  /\ e.count + Cardinality(Adding(e.id)') <= MaxDeliveries + Cardinality(Workers) - 1
               /\ e.end = "undeliverable" => e.count >= MaxDeliveries
    <3>1. PICK c \in cmds : e = Then(c)
      BY <1>4
    <3>2. e.id = c.id /\ e.count >= c.count /\ c.count \in Nat /\ e.count \in Nat
      BY <1>2, <1>3, <3>1 DEF CommandRow
    <3>3. Adding(e.id)' = Adding(c.id) \ {w}
      BY <2>1, <3>2
    <3>4. /\ IsFiniteSet(Adding(c.id)) /\ Cardinality(Adding(c.id)) \in Nat /\ Cardinality(Workers) \in Nat
          /\ Cardinality(Adding(c.id) \ {w}) = IF w \in Adding(c.id) THEN Cardinality(Adding(c.id)) - 1 ELSE Cardinality(Adding(c.id))
      BY AddingBounded, FS_RemoveElement
    <3>5. c.count + Cardinality(Adding(c.id)) <= MaxDeliveries + Cardinality(Workers) - 1
      BY DEF RemoteCounted
    <3>6. e.count = c.count \/ (e.count = c.count + 1 /\ w \in Adding(c.id))
      BY <1>3, <3>1
    <3>7. e.count + Cardinality(Adding(e.id)') <= MaxDeliveries + Cardinality(Workers) - 1
      BY <3>2, <3>3, <3>4, <3>5, <3>6, RemoteBounds
    <3>8. e.end = "undeliverable" => e.count >= MaxDeliveries
      BY <1>3, <3>1, <3>2, RemoteBounds DEF RemoteCounted
    <3> QED
      BY <3>7, <3>8
  <2> QED
    BY <2>2 DEF RemoteCounted
<1>8. OneUpdate'
  <2>1. ASSUME NEW e \in cmds', NEW f \in cmds', IsOpenUpdate(e), IsOpenUpdate(f), e.dev = f.dev PROVE e = f
    <3>1. PICK c \in cmds : e = Then(c)
      BY <1>4
    <3>2. PICK k \in cmds : f = Then(k)
      BY <1>4
    <3>3. IsOpenUpdate(c) /\ IsOpenUpdate(k) /\ c.dev = k.dev
      BY <1>3, <2>1, <3>1, <3>2 DEF IsOpenUpdate
    <3> QED
      BY <3>1, <3>2, <3>3 DEF OneUpdate
  <2> QED
    BY <2>1 DEF OneUpdate
<1>9. Learning'
  <2>1. req'[w].op # "report"
    BY <1>1 DEF Remote!Idle
  <2> QED
    BY <1>0, <1>1, <2>1 DEF Learning
<1> QED
  BY <1>5, <1>6, <1>7, <1>8, <1>9

\* A report neither adds to what polls hold nor to the deliveries.
LEMMA RowsClosed ==
  ASSUME RemoteSound, NEW w \in Workers, NEW i, NEW r \in Asking, r.op # "poll", req[w].op # "poll",
         req' = [req EXCEPT ![w] = r], UNCHANGED <<devs, nextCmd>>,
         cmds' = {IF c.id = i THEN [c EXCEPT !.end = "reported"] ELSE c : c \in cmds}
  PROVE  /\ req' \in [Workers -> Asking] /\ req'[w] = r /\ (\A v \in Workers \ {w} : req'[v] = req[v])
         /\ cmds' \subseteq CommandRow /\ RemoteFiled' /\ RemoteCounted' /\ OneUpdate'
<1> USE DEF RemoteSound
<1> DEFINE Then(c) == IF c.id = i THEN [c EXCEPT !.end = "reported"] ELSE c
<1>1. req' \in [Workers -> Asking] /\ req'[w] = r /\ \A v \in Workers \ {w} : req'[v] = req[v]
  BY AskedAnew
<1>2. ASSUME NEW c \in cmds
      PROVE  /\ Then(c) \in CommandRow /\ Then(c).id = c.id /\ Then(c).dev = c.dev /\ Then(c).learn = c.learn
             /\ Then(c).count = c.count /\ Then(c).end \in {c.end, "reported"}
  BY DEF RemoteTyped, CommandRow
<1>3. ASSUME NEW e \in cmds' PROVE \E c \in cmds : e = Then(c)
  OBVIOUS
<1> HIDE DEF Then
<1>4. cmds' \subseteq CommandRow
  BY <1>2, <1>3
<1>5. \A v \in Workers : req'[v].op = "poll" => req'[v] = req[v] /\ req[v].op = "poll"
  BY <1>1
<1>6. \A v \in Workers : req[v].op = "poll" => req'[v] = req[v]
  BY <1>1
<1>7. RemoteFiled'
  <2>1. \A e \in cmds' : e.dev \in devs' /\ e.id < nextCmd'
    BY <1>2, <1>3 DEF RemoteFiled
  <2>2. \A e, f \in cmds' : e.id = f.id => e = f
    BY <1>2, <1>3 DEF RemoteFiled
  <2>3. ASSUME NEW v \in Workers, req'[v].op = "poll", NEW o \in req'[v].open
        PROVE  /\ o.id < nextCmd'
               /\ \A p \in req'[v].open : p.id = o.id => p = o
               /\ \A e \in cmds' : e.id = o.id => o.count <= e.count
    BY <1>2, <1>3, <1>5, <2>3 DEF RemoteFiled
  <2> QED
    BY <2>1, <2>2, <2>3 DEF RemoteFiled
<1>8. RemoteCounted'
  <2>1. ASSUME NEW k PROVE Adding(k)' = Adding(k)
    BY <1>5, <1>6 DEF Adding, Remote!Spent
  <2>2. ASSUME NEW e \in cmds'
        PROVE  /\ e.count + Cardinality(Adding(e.id)') <= MaxDeliveries + Cardinality(Workers) - 1
               /\ e.end = "undeliverable" => e.count >= MaxDeliveries
    <3>1. PICK c \in cmds : e = Then(c)
      BY <1>3
    <3>2. e.id = c.id /\ e.count = c.count /\ e.end \in {c.end, "reported"}
      BY <1>2, <3>1
    <3> QED
      BY <2>1, <3>2 DEF RemoteCounted
  <2> QED
    BY <2>2 DEF RemoteCounted
<1>9. OneUpdate'
  <2>1. ASSUME NEW e \in cmds', NEW f \in cmds', IsOpenUpdate(e), IsOpenUpdate(f), e.dev = f.dev PROVE e = f
    <3>1. PICK c \in cmds : e = Then(c)
      BY <1>3
    <3>2. PICK k \in cmds : f = Then(k)
      BY <1>3
    <3>3. IsOpenUpdate(c) /\ IsOpenUpdate(k) /\ c.dev = k.dev
      BY <1>2, <2>1, <3>1, <3>2 DEF IsOpenUpdate
    <3> QED
      BY <3>1, <3>2, <3>3 DEF OneUpdate
  <2> QED
    BY <2>1 DEF OneUpdate
<1> QED
  BY <1>1, <1>4, <1>7, <1>8, <1>9

LEMMA RemoteTakesResult ==
  ASSUME RemoteSound, NEW w \in Workers, NEW c \in cmds, NEW code \in BOOLEAN, Remote!ReportRead(w, c, code)
  PROVE  RemoteSound'
<1> USE DEF RemoteSound
<1> DEFINE r == [op |-> "report", cmd |-> c.id, dev |-> c.dev,
                 name |-> IF code THEN c.learn ELSE NULL, codes |-> codes[c.dev]]
<1>0. /\ UNCHANGED <<devs, codes, cmds, nextCmd, acked>>
      /\ req[w] = Remote!Idle /\ req' = [req EXCEPT ![w] = r]
      /\ raced' = IF \E v \in Workers : req[v].op = "report" /\ req[v].dev = c.dev THEN raced \cup {c.dev} ELSE raced
  BY DEF Remote!ReportRead, Remote!Becomes
<1>1. r \in Asking /\ r.op = "report" /\ r.dev = c.dev /\ r.codes = codes[c.dev]
  <2>1. c.id \in Nat /\ c.dev \in Devices /\ c.learn \in IrNames \cup {NULL} /\ codes[c.dev] \subseteq IrNames
    BY DEF RemoteTyped, CommandRow
  <2> QED
    BY <2>1 DEF Asking, Reports
<1> HIDE DEF r
<1>2. req' \in [Workers -> Asking] /\ req'[w] = r /\ (\A v \in Workers \ {w} : req'[v] = req[v])
  BY <1>0, <1>1, AskedAnew
<1>3. RemoteTyped'
  BY <1>0, <1>2 DEF RemoteTyped
<1>4. \A v \in Workers : (req'[v].op = "poll" => req'[v] = req[v]) /\ (req[v].op = "poll" => req'[v] = req[v])
  BY <1>0, <1>1, <1>2 DEF Remote!Idle
<1>5. RemoteFiled'
  BY <1>0, <1>4 DEF RemoteFiled
<1>6. RemoteCounted'
  <2>1. ASSUME NEW k PROVE Adding(k)' = Adding(k)
    BY <1>4 DEF Adding, Remote!Spent
  <2> QED
    BY <1>0, <2>1 DEF RemoteCounted
<1>7. OneUpdate'
  BY <1>0 DEF OneUpdate
<1>8. Learning'
  <2>1. raced \subseteq raced' /\ (c.dev \notin raced' => \A v \in Workers : ~(req[v].op = "report" /\ req[v].dev = c.dev))
    BY <1>0
  <2>2. ASSUME NEW v \in Workers, req'[v].op = "report", req'[v].dev \notin raced'
        PROVE  /\ req'[v].codes = codes[req'[v].dev]
               /\ \A u \in Workers : req'[u].op = "report" /\ req'[u].dev = req'[v].dev => u = v
    <3>1. CASE v = w
      BY <1>1, <1>2, <2>1, <2>2, <3>1
    <3>2. CASE v # w
      <4>1. req'[v] = req[v] /\ req[v].dev # c.dev /\ req[v].dev \notin raced
        BY <1>2, <2>1, <2>2, <3>2
      <4> QED
        BY <1>1, <1>2, <2>2, <3>2, <4>1 DEF Learning
    <3> QED
      BY <3>1, <3>2
  <2>3. \A k \in acked' : k[1] \in devs' \ raced' => k[2] \in codes'[k[1]]
    BY <1>0, <2>1 DEF Learning
  <2> QED
    BY <1>0, <2>2, <2>3 DEF Learning
<1> QED
  BY <1>3, <1>5, <1>6, <1>7, <1>8

LEMMA RemoteStoresResult ==
  ASSUME RemoteSound, NEW w \in Workers, Remote!ReportWrite(w)
  PROVE  RemoteSound'
<1> USE DEF RemoteSound
<1> DEFINE r == req[w]
<1>0. /\ UNCHANGED <<devs, nextCmd, raced>> /\ r.op = "report" /\ req' = [req EXCEPT ![w] = Remote!Idle]
      /\ cmds' = {IF c.id = r.cmd THEN [c EXCEPT !.end = "reported"] ELSE c : c \in cmds}
      /\ IF r.name # NULL /\ r.dev \in devs
         THEN codes' = [codes EXCEPT ![r.dev] = Remote!NewCodes(r)] /\ acked' = acked \cup {<<r.dev, r.name>>}
         ELSE UNCHANGED <<codes, acked>>
  BY DEF Remote!ReportWrite, Remote!Ends
<1>1. r \in Asking /\ r.dev \in Devices /\ r.name \in IrNames \cup {NULL} /\ r.codes \subseteq IrNames
  BY <1>0, AskingTold DEF RemoteTyped
<1>2. Remote!Idle \in Asking /\ Remote!Idle.op = "idle"
  BY DEF Asking, Remote!Idle
<1>3. /\ req' \in [Workers -> Asking] /\ req'[w] = Remote!Idle /\ (\A v \in Workers \ {w} : req'[v] = req[v])
      /\ cmds' \subseteq CommandRow /\ RemoteFiled' /\ RemoteCounted' /\ OneUpdate'
  BY <1>0, <1>2, RowsClosed
<1>4. /\ codes' \in [Devices -> SUBSET IrNames]
      /\ \A d \in Devices \ {r.dev} : codes'[d] = codes[d]
      /\ r.name # NULL /\ r.dev \in devs => codes'[r.dev] = r.codes \cup {r.name}
      /\ ~(r.name # NULL /\ r.dev \in devs) => codes' = codes
  BY <1>0, <1>1 DEF RemoteTyped, Remote!NewCodes
<1>5. RemoteTyped'
  BY <1>0, <1>3, <1>4 DEF RemoteTyped
<1>6. Learning'
  <2>1. ASSUME NEW v \in Workers, req'[v].op = "report", req'[v].dev \notin raced'
        PROVE  /\ req'[v].codes = codes'[req'[v].dev]
               /\ \A u \in Workers : req'[u].op = "report" /\ req'[u].dev = req'[v].dev => u = v
    <3>1. v # w /\ req'[v] = req[v] /\ req[v] \in Asking /\ req[v].dev \in Devices
      BY <1>2, <1>3, <2>1, AskingTold DEF RemoteTyped
    <3>2. req[v].dev # r.dev
      BY <1>0, <2>1, <3>1 DEF Learning
    <3>3. codes'[req[v].dev] = codes[req[v].dev]
      BY <1>4, <3>1, <3>2
    <3>4. req[v].codes = codes[req[v].dev] /\ \A u \in Workers : req[u].op = "report" /\ req[u].dev = req[v].dev => u = v
      BY <1>0, <2>1, <3>1 DEF Learning
    <3> QED
      BY <1>2, <1>3, <3>1, <3>3, <3>4
  <2>2. ASSUME NEW k \in acked', k[1] \in devs' \ raced'
        PROVE  k[2] \in codes'[k[1]]
    <3>1. k \in acked \/ (r.name # NULL /\ r.dev \in devs /\ k[1] = r.dev /\ k[2] = r.name)
      BY <1>0
    <3>2. k[1] \in Devices
      BY <1>0, <2>2 DEF RemoteTyped
    <3>3. CASE r.name # NULL /\ r.dev \in devs /\ k[1] = r.dev
      <4>1. r.dev \notin raced /\ r.codes = codes[r.dev]
        BY <1>0, <2>2, <3>3 DEF Learning
      <4> QED
        BY <1>0, <1>4, <2>2, <3>1, <3>3, <4>1 DEF Learning
    <3>4. CASE ~(r.name # NULL /\ r.dev \in devs /\ k[1] = r.dev)
      <4>1. codes'[k[1]] = codes[k[1]] /\ k \in acked
        BY <1>4, <3>1, <3>2, <3>4
      <4> QED
        BY <1>0, <2>2, <4>1 DEF Learning
    <3> QED
      BY <3>3, <3>4
  <2> QED
    BY <2>1, <2>2 DEF Learning
<1> QED
  BY <1>3, <1>5, <1>6

LEMMA RemoteStep ==
  ASSUME RemoteSound, Remote!Next
  PROVE  RemoteSound'
BY RemoteQueues, RemoteDeletes, RemotePolls, RemoteAnswers, RemoteTakesResult, RemoteStoresResult DEF Remote!Next

LEMMA RemoteHolds ==
  ASSUME RemoteSound
  PROVE  Remote!TypeOK /\ Remote!DeliveriesBounded /\ Remote!OneOpenUpdate /\ Remote!LearnedCodesStay
<1> USE DEF RemoteSound
<1>1. ASSUME NEW c \in cmds
      PROVE  /\ c.count <= MaxDeliveries + Cardinality(Workers) - 1 /\ c.count \in Nat
             /\ c.end = "undeliverable" => c.count >= MaxDeliveries
             /\ Cardinality(Workers) \in Nat
  BY AddingBounded, RemoteBounds DEF RemoteCounted, RemoteTyped, CommandRow
<1>2. Remote!DeliveriesBounded
  BY <1>1, RemoteCardinality DEF Remote!DeliveriesBounded
<1>3. Remote!TypeOK
  <2>1. ASSUME NEW c \in cmds
        PROVE  c \in [id : 1..MaxCommands, dev : devs, learn : IrNames \cup {NULL},
                      count : 0..MaxDeliveries + Cardinality(Workers),
                      end : {"open", "reported", "undeliverable"}]
    BY <1>1, RemoteBounds DEF RemoteTyped, RemoteFiled, CommandRow
  <2> QED
    BY <2>1, RemoteCardinality DEF Remote!TypeOK, RemoteTyped
<1>4. Remote!OneOpenUpdate
  <2>1. ASSUME NEW d \in devs
        PROVE  Remote!Cardinality({c \in Remote!Open(d) : c.learn = NULL}) <= 1
    <3> DEFINE S == {c \in Remote!Open(d) : c.learn = NULL}
    <3>1. \A c, e \in S : c = e
      BY DEF OneUpdate, IsOpenUpdate, Remote!Open
    <3> HIDE DEF S
    <3>2. Cardinality(S) <= 1
      BY <3>1, AtMostOne
    <3> USE DEF S
    <3> QED
      BY <3>2, RemoteCardinality
  <2> QED
    BY <2>1 DEF Remote!OneOpenUpdate
<1>5. Remote!LearnedCodesStay
  BY DEF Learning, Remote!LearnedCodesStay
<1> QED
  BY <1>2, <1>3, <1>4, <1>5

----------------------------------------------------------------------------
(* LanThrottle.                                                              *)
ThrottleTyped ==
  /\ now \in Nat /\ now <= MaxTime /\ checking \subseteq Workers
  /\ failed \in Seq(Nat) /\ stamps \subseteq 1..Len(failed)
  /\ \A i \in 1..Len(failed) : failed[i] <= now
  /\ \A i, j \in 1..Len(failed) : i <= j => failed[i] <= failed[j]

\* The list in memory has every failure of the last LockSeconds.
Fresh(i) == i \in 1..Len(failed) /\ now - failed[i] < LockSeconds
RecentKept == \A i : Fresh(i) => i \in stamps

\* The failures since a recent one, and those that checks under way may still add.
GuessesLeft ==
  \A i : Fresh(i) => Len(failed) - i + 1 + Cardinality(checking) <= MaxFailures + Cardinality(Workers) - 1

Guessed == \A i \in 1..Len(failed) : Cardinality(Throttle!InWindow(i)) <= MaxFailures + Cardinality(Workers) - 1

ThrottleSound == ThrottleTyped /\ RecentKept /\ GuessesLeft /\ Guessed

LEMMA ThrottleCardinality == \A S : Throttle!Cardinality(S) = Cardinality(S)
BY DEF Throttle!Cardinality, Cardinality

LEMMA CheckingBounded ==
  ASSUME NEW S, S \subseteq Workers
  PROVE  /\ IsFiniteSet(S) /\ Cardinality(S) \in Nat
         /\ Cardinality(Workers) \in Nat /\ Cardinality(S) <= Cardinality(Workers)
BY RemoteBounds, FS_Subset, FS_CardinalityType

LEMMA ThrottleInit == Throttle!Init => ThrottleSound
<1> SUFFICES ASSUME Throttle!Init PROVE ThrottleSound
  OBVIOUS
<1>1. now = 0 /\ failed = <<>> /\ Len(failed) = 0 /\ stamps = {} /\ checking = {}
  BY DEF Throttle!Init
<1>2. 1..0 = {} /\ failed \in Seq(Nat)
  BY <1>1
<1> QED
  BY <1>1, <1>2, ThrottleBounds DEF ThrottleSound, ThrottleTyped, RecentKept, GuessesLeft, Guessed, Fresh

\* The failures are numbered one after the other.
LEMMA Numbered ==
  ASSUME NEW n \in Nat, NEW i \in 1..n
  PROVE  IsFiniteSet(i..n) /\ Cardinality(i..n) = n - i + 1
BY FS_Interval

LEMMA StampsFinite ==
  ASSUME ThrottleTyped
  PROVE  IsFiniteSet(Throttle!Recent(stamps)) /\ Cardinality(Throttle!Recent(stamps)) \in Nat
<1>1. Len(failed) \in Nat
  BY DEF ThrottleTyped
<1>2. IsFiniteSet(1..Len(failed))
  BY <1>1, FS_Interval
<1>3. Throttle!Recent(stamps) \subseteq 1..Len(failed)
  BY DEF Throttle!Recent, ThrottleTyped
<1> QED
  BY <1>2, <1>3, FS_Subset, FS_CardinalityType

LEMMA ThrottleAsks ==
  ASSUME ThrottleSound, NEW w \in Workers, Throttle!Attempt(w)
  PROVE  ThrottleSound'
<1> USE DEF ThrottleSound
<1>0. /\ UNCHANGED <<now, failed>> /\ stamps' = Throttle!Recent(stamps) /\ w \notin checking
      /\ checking' = IF Throttle!Locked THEN checking ELSE checking \cup {w}
  BY DEF Throttle!Attempt
<1>1. now \in Nat /\ failed \in Seq(Nat) /\ Len(failed) \in Nat /\ checking \subseteq Workers /\ stamps \subseteq 1..Len(failed)
  BY DEF ThrottleTyped
<1>2. checking' \subseteq Workers
  BY <1>0, <1>1
<1>3. \A i : Fresh(i)' <=> Fresh(i)
  BY <1>0 DEF Fresh
<1>4. RecentKept'
  BY <1>0, <1>3 DEF RecentKept, Fresh, Throttle!Recent
<1>5. ThrottleTyped'
  BY <1>0, <1>2 DEF ThrottleTyped, Throttle!Recent
<1>6. GuessesLeft'
  <2>1. ASSUME NEW i, Fresh(i)
        PROVE  Len(failed) - i + 1 + Cardinality(checking') <= MaxFailures + Cardinality(Workers) - 1
    <3>1. CASE Throttle!Locked
      BY <1>0, <2>1, <3>1 DEF GuessesLeft
    <3>2. CASE ~Throttle!Locked
      <4>1. Cardinality(Throttle!Recent(stamps)) < MaxFailures
        <5>1. Cardinality(Throttle!Recent(stamps)) \in Nat
          BY StampsFinite
        <5> QED
          BY <3>2, <5>1, ThrottleBounds, ThrottleCardinality DEF Throttle!Locked
      <4>2. i..Len(failed) \subseteq Throttle!Recent(stamps)
        <5>1. ASSUME NEW j \in i..Len(failed) PROVE Fresh(j)
          <6>1. i \in 1..Len(failed) /\ j \in 1..Len(failed) /\ i <= j
            BY <1>1, <2>1 DEF Fresh
          <6>2. failed[i] \in Nat /\ failed[j] \in Nat /\ failed[i] <= failed[j]
            BY <1>1, <6>1 DEF ThrottleTyped
          <6> QED
            BY <1>1, <2>1, <6>1, <6>2, ThrottleBounds DEF Fresh
        <5> QED
          BY <5>1 DEF RecentKept, Fresh, Throttle!Recent
      <4>3. IsFiniteSet(Throttle!Recent(stamps)) /\ Cardinality(Throttle!Recent(stamps)) \in Nat
        BY StampsFinite
      <4>4. i \in 1..Len(failed) /\ Cardinality(i..Len(failed)) = Len(failed) - i + 1
        BY <1>1, <2>1, Numbered DEF Fresh
      <4>5. Cardinality(i..Len(failed)) <= Cardinality(Throttle!Recent(stamps))
        BY <4>2, <4>3, FS_Subset
      <4>6. Cardinality(checking') <= Cardinality(Workers) /\ Cardinality(checking') \in Nat /\ Cardinality(Workers) \in Nat
        BY <1>2, CheckingBounded
      <4> QED
        BY <1>1, <4>1, <4>3, <4>4, <4>5, <4>6, ThrottleBounds
    <3> QED
      BY <3>1, <3>2
  <2> QED
    BY <1>0, <1>3, <2>1 DEF GuessesLeft
<1>7. Guessed'
  BY <1>0 DEF Guessed, Throttle!InWindow
<1> QED
  BY <1>4, <1>5, <1>6, <1>7

LEMMA ThrottleFinds ==
  ASSUME ThrottleSound, NEW w \in Workers, Throttle!Wrong(w)
  PROVE  ThrottleSound'
<1> USE DEF ThrottleSound
<1> DEFINE n == Len(failed)
<1>0. /\ now' = now /\ w \in checking /\ checking' = checking \ {w}
      /\ stamps' = Throttle!Recent(stamps) \cup {n + 1} /\ failed' = Append(failed, now)
  BY DEF Throttle!Wrong, Throttle!Kept
<1>1. now \in Nat /\ failed \in Seq(Nat) /\ n \in Nat /\ checking \subseteq Workers /\ stamps \subseteq 1..n
  BY DEF ThrottleTyped
<1>2. failed' \in Seq(Nat) /\ Len(failed') = n + 1 /\ failed'[n + 1] = now /\ \A i \in 1..n : failed'[i] = failed[i]
  BY <1>0, <1>1
<1>3. /\ IsFiniteSet(checking) /\ Cardinality(checking) \in Nat /\ Cardinality(checking') = Cardinality(checking) - 1
      /\ Cardinality(Workers) \in Nat /\ Cardinality(checking) <= Cardinality(Workers)
  BY <1>0, <1>1, CheckingBounded, FS_RemoveElement
<1> HIDE DEF n
<1>4. 1..(n + 1) = 1..n \cup {n + 1}
  BY <1>1
<1>5. \A i \in 1..n : (Fresh(i)' <=> Fresh(i))
  BY <1>0, <1>1, <1>2, <1>4 DEF Fresh, n
<1>6. ASSUME NEW i, Fresh(i)' PROVE i \in 1..(n + 1)
  <2>1. i \in 1..Len(failed')
    BY <1>6 DEF Fresh
  <2> QED
    BY <1>2, <2>1
<1>7. ThrottleTyped'
  <2>1. ASSUME NEW i \in 1..(n + 1) PROVE failed'[i] <= now
    <3>1. \A k \in 1..n : failed[k] <= now
      BY DEF ThrottleTyped, n
    <3>2. CASE i = n + 1
      BY <1>1, <1>2, <3>2
    <3>3. CASE i \in 1..n
      BY <1>2, <3>1, <3>3
    <3> QED
      BY <1>4, <3>2, <3>3
  <2>2. \A i, j \in 1..(n + 1) : i <= j => failed'[i] <= failed'[j]
    <3>1. ASSUME NEW i \in 1..(n + 1), NEW j \in 1..(n + 1), i <= j
          PROVE  failed'[i] <= failed'[j]
      <4>1. CASE j = n + 1
        BY <1>1, <1>2, <2>1, <4>1
      <4>2. CASE j \in 1..n
        <5>1. i \in 1..n
          BY <1>1, <3>1, <4>2
        <5> QED
          BY <1>2, <3>1, <4>2, <5>1 DEF ThrottleTyped, n
      <4> QED
        BY <1>4, <4>1, <4>2
    <3> QED
      BY <3>1
  <2>3. checking' \subseteq Workers /\ stamps' \subseteq 1..(n + 1)
    BY <1>0, <1>1, <1>4 DEF Throttle!Recent
  <2> QED
    BY <1>0, <1>2, <2>1, <2>2, <2>3 DEF ThrottleTyped
<1>8. RecentKept'
  BY <1>0, <1>4, <1>5, <1>6 DEF RecentKept, Fresh, Throttle!Recent
<1>9. GuessesLeft'
  <2>1. ASSUME NEW i, Fresh(i)'
        PROVE  (n + 1) - i + 1 + Cardinality(checking') <= MaxFailures + Cardinality(Workers) - 1
    <3>1. CASE i \in 1..n
      <4>1. n - i + 1 + Cardinality(checking) <= MaxFailures + Cardinality(Workers) - 1
        BY <1>5, <2>1, <3>1 DEF GuessesLeft, n
      <4> QED
        BY <1>1, <1>3, <3>1, <4>1, ThrottleBounds
    <3>2. CASE i = n + 1
      BY <1>1, <1>3, <3>2, ThrottleBounds
    <3> QED
      BY <1>4, <1>6, <2>1, <3>1, <3>2
  <2> QED
    BY <1>2, <2>1 DEF GuessesLeft
<1>10. Guessed'
  <2>1. ASSUME NEW i \in 1..(n + 1)
        PROVE  Cardinality(Throttle!InWindow(i)') <= MaxFailures + Cardinality(Workers) - 1
    <3>1. Throttle!InWindow(i)' = {j \in i..(n + 1) : failed'[j] - failed'[i] < LockSeconds}
      BY <1>2 DEF Throttle!InWindow
    <3>2. CASE Fresh(i)'
      <4>1. Throttle!InWindow(i)' \subseteq i..(n + 1)
        BY <3>1
      <4>2. IsFiniteSet(i..(n + 1)) /\ Cardinality(i..(n + 1)) = (n + 1) - i + 1
        BY <1>1, Numbered
      <4>3. Cardinality(Throttle!InWindow(i)') <= (n + 1) - i + 1
        BY <4>1, <4>2, FS_Subset
      <4>4. (n + 1) - i + 1 + Cardinality(checking') <= MaxFailures + Cardinality(Workers) - 1
        BY <1>2, <1>9, <3>2 DEF GuessesLeft
      <4>5. Cardinality(Throttle!InWindow(i)') \in Nat
        BY <4>1, <4>2, FS_Subset, FS_CardinalityType
      <4> QED
        <5>1. \A a \in Nat, b \in Int, c \in Nat, d \in Int : a <= b /\ b + c <= d => a <= d
          OBVIOUS
        <5>2. (n + 1) - i + 1 \in Int /\ Cardinality(checking') \in Nat /\ MaxFailures + Cardinality(Workers) - 1 \in Int
          BY <1>0, <1>1, <1>3, CheckingBounded, ThrottleBounds
        <5> QED
          BY <4>3, <4>4, <4>5, <5>1, <5>2, Zenon
    <3>3. CASE ~Fresh(i)'
      <4>1. i \in 1..n /\ ~Fresh(i)
        <5>1. CASE i = n + 1
          <6>1. now' - failed'[i] = 0
            BY <1>0, <1>1, <1>2, <5>1
          <6>2. i \in 1..Len(failed')
            BY <1>1, <1>2, <5>1
          <6> QED
            BY <3>3, <6>1, <6>2, ThrottleBounds DEF Fresh
        <5>2. CASE i \in 1..n
          BY <1>5, <3>3, <5>2
        <5> QED
          BY <1>4, <5>1, <5>2
      <4>2. failed[i] \in Nat /\ now - failed[i] >= LockSeconds
        BY <1>1, <4>1, ThrottleBounds DEF Fresh, n
      <4>3. Throttle!InWindow(i)' = {j \in i..n : failed[j] - failed[i] < LockSeconds}
        <5>1. ~(failed'[n + 1] - failed'[i] < LockSeconds)
          BY <1>1, <1>2, <4>1, <4>2, ThrottleBounds
        <5>2. \A j : j \in i..(n + 1) <=> (j \in i..n \/ j = n + 1)
          BY <1>1, <4>1
        <5>3. \A j \in i..n : j \in 1..n
          BY <1>1, <4>1
        <5> QED
          BY <1>2, <3>1, <4>1, <5>1, <5>2, <5>3
      <4> QED
        BY <4>1, <4>3 DEF Guessed, Throttle!InWindow, n
    <3> QED
      BY <3>2, <3>3
  <2> QED
    BY <1>2, <2>1 DEF Guessed
<1> QED
  BY <1>7, <1>8, <1>9, <1>10

LEMMA ThrottleTicks ==
  ASSUME ThrottleSound, Throttle!Tick
  PROVE  ThrottleSound'
<1> USE DEF ThrottleSound
<1>0. now \in Nat /\ now' = now + 1 /\ now < MaxTime /\ UNCHANGED <<stamps, checking, failed>>
  BY DEF Throttle!Tick, ThrottleTyped
<1>1. ThrottleTyped'
  <2>1. \A i \in 1..Len(failed) : failed[i] \in Nat /\ failed[i] <= now
    BY DEF ThrottleTyped
  <2> QED
    BY <1>0, <2>1, ThrottleBounds DEF ThrottleTyped
<1>2. ASSUME NEW i, Fresh(i)' PROVE Fresh(i)
  <2>1. failed[i] \in Nat /\ i \in 1..Len(failed)
    BY <1>0, <1>2 DEF Fresh, ThrottleTyped
  <2> QED
    BY <1>0, <1>2, <2>1, ThrottleBounds DEF Fresh
<1>3. RecentKept' /\ GuessesLeft'
  BY <1>0, <1>2 DEF RecentKept, GuessesLeft
<1>4. Guessed'
  BY <1>0 DEF Guessed, Throttle!InWindow
<1> QED
  BY <1>1, <1>3, <1>4

LEMMA ThrottleForgets ==
  ASSUME ThrottleSound, NEW w \in Workers, Throttle!Right(w)
  PROVE  ThrottleSound'
<1>1. now' = now /\ failed' = <<>> /\ Len(failed') = 0 /\ stamps' = {} /\ checking' = checking \ {w}
  BY DEF Throttle!Right
<1>2. 1..0 = {} /\ failed' \in Seq(Nat)
  BY <1>1
<1> QED
  BY <1>1, <1>2 DEF ThrottleSound, ThrottleTyped, RecentKept, GuessesLeft, Guessed, Fresh

LEMMA ThrottleStep ==
  ASSUME ThrottleSound, Throttle!Next
  PROVE  ThrottleSound'
BY ThrottleTicks, ThrottleAsks, ThrottleFinds, ThrottleForgets DEF Throttle!Next

LEMMA ThrottleHolds ==
  ASSUME ThrottleSound
  PROVE  Throttle!TypeOK /\ Throttle!GuessesBounded
<1> USE DEF ThrottleSound
<1>1. now \in Nat /\ failed \in Seq(Nat) /\ \A i \in 1..Len(failed) : failed[i] \in Nat /\ failed[i] <= now
  BY DEF ThrottleTyped
<1>2. failed \in Seq(0..now)
  <2>1. \A i \in 1..Len(failed) : failed[i] \in 0..now
    BY <1>1
  <2> QED
    BY <1>1, <2>1
<1>3. Throttle!TypeOK
  BY <1>2, ThrottleBounds DEF Throttle!TypeOK, ThrottleTyped
<1> QED
  BY <1>3, ThrottleCardinality DEF Guessed, Throttle!GuessesBounded

----------------------------------------------------------------------------
(* LanAccess.                                                                *)
UserRow == [id : 1..MaxUsers, role : Access!Roles, no : 1..MaxUsers]
Writes == [op : {"create", "promote", "demote", "delete", "password"}, target : 1..MaxUsers]

AccessTyped ==
  /\ users \subseteq UserRow /\ nextUser \in 1..MaxUsers + 1
  /\ sess \in [Browsers -> 1..MaxUsers \cup {NULL}]
  /\ req \in [Workers -> {Access!Idle} \cup Writes] /\ raced \in BOOLEAN

\* An id is the number of the account it was made for, and is never given again.
AccessKeyed ==
  /\ \A u \in users : u.id = u.no /\ u.id < nextUser
  /\ \A u, v \in users : u.id = v.id => u = v
  /\ who = sess

\* Off the race: one request at a time, and one admin at least that it leaves alone.
Lasting(u, r) == u.role = "admin" /\ (r # Access!Idle /\ r.op \in {"demote", "delete"} => u.id # r.target)
AccessLasts ==
  ~raced =>
    /\ \A v, w \in Workers : req[v] # Access!Idle /\ req[w] # Access!Idle => v = w
    /\ \A w \in Workers : \E u \in users : Lasting(u, req[w])
    /\ \E u \in users : u.role = "admin"

AccessSound == AccessTyped /\ AccessKeyed /\ AccessLasts

LEMMA AccountRow ==
  ASSUME NEW i \in 1..MaxUsers, NEW role \in Access!Roles
  PROVE  LET u == [id |-> i, role |-> role, no |-> i]
         IN  u \in UserRow /\ u.id = i /\ u.no = i /\ u.role = role
BY DEF UserRow

LEMMA AccessInit == Access!Init => AccessSound
<1> SUFFICES ASSUME Access!Init PROVE AccessSound
  OBVIOUS
<1> DEFINE u == [id |-> 1, role |-> "admin", no |-> 1]
<1>0. /\ users = {u} /\ nextUser = 2 /\ sess = [b \in Browsers |-> NULL] /\ who = [b \in Browsers |-> NULL]
      /\ req = [w \in Workers |-> Access!Idle] /\ raced = FALSE
  BY DEF Access!Init
<1>1. u \in UserRow /\ u.id = 1 /\ u.no = 1 /\ u.role = "admin"
  <2>1. 1 \in 1..MaxUsers /\ "admin" \in Access!Roles
    BY AccountBound DEF Access!Roles
  <2> QED
    BY <2>1, AccountRow
<1> HIDE DEF u
<1>2. AccessTyped
  <2>1. users \subseteq UserRow /\ nextUser \in 1..MaxUsers + 1
    BY <1>0, <1>1, AccountBound
  <2>2. sess \in [Browsers -> 1..MaxUsers \cup {NULL}] /\ req \in [Workers -> {Access!Idle} \cup Writes] /\ raced \in BOOLEAN
    BY <1>0
  <2> QED
    BY <2>1, <2>2 DEF AccessTyped
<1>3. AccessKeyed
  BY <1>0, <1>1 DEF AccessKeyed
<1>4. AccessLasts
  BY <1>0, <1>1 DEF AccessLasts, Lasting
<1> QED
  BY <1>2, <1>3, <1>4 DEF AccessSound

\* A new account under the next id.
LEMMA AccountMade ==
  ASSUME AccessTyped, AccessKeyed, NEW role \in Access!Roles, nextUser <= MaxUsers, nextUser' = nextUser + 1,
         users' = users \cup {[id |-> nextUser, role |-> role, no |-> nextUser]}, UNCHANGED <<sess, who>>
  PROVE  users' \subseteq UserRow /\ nextUser' \in 1..MaxUsers + 1 /\ AccessKeyed'
<1> DEFINE u == [id |-> nextUser, role |-> role, no |-> nextUser]
<1>1. nextUser \in 1..MaxUsers /\ nextUser' \in 1..MaxUsers + 1 /\ nextUser' > nextUser
  BY AccountBound DEF AccessTyped
<1>2. u \in UserRow /\ u.id = nextUser /\ u.no = nextUser
  BY <1>1, AccountRow
<1>3. users' = users \cup {u}
  OBVIOUS
<1> HIDE DEF u
<1>4. \A v \in users : v.id \in Nat /\ v.id < nextUser
  BY DEF AccessTyped, UserRow, AccessKeyed
<1>5. \A v \in users' : v.id = v.no /\ v.id < nextUser'
  BY <1>1, <1>2, <1>3, <1>4 DEF AccessKeyed
<1>6. \A v, x \in users' : v.id = x.id => v = x
  BY <1>1, <1>2, <1>3, <1>4 DEF AccessKeyed
<1> QED
  BY <1>1, <1>2, <1>3, <1>5, <1>6 DEF AccessTyped, AccessKeyed

\* Another role.
LEMMA RoleSet ==
  ASSUME AccessTyped, AccessKeyed, NEW i, NEW role \in Access!Roles,
         users' = Access!SetRole(i, role), UNCHANGED <<nextUser, sess, who>>
  PROVE  /\ users' \subseteq UserRow /\ AccessKeyed'
         /\ \A u \in users : u.id # i => u \in users'
         /\ \A u \in users : u.role = role => u \in users'
<1> DEFINE Then(u) == IF u.id = i THEN [u EXCEPT !.role = role] ELSE u
<1>1. ASSUME NEW u \in users
      PROVE  /\ Then(u) \in UserRow /\ Then(u).id = u.id /\ Then(u).no = u.no /\ Then(u) \in users'
             /\ u.id # i => Then(u) = u
             /\ u.role = role => Then(u) = u
  <2>1. u \in UserRow
    BY DEF AccessTyped
  <2>2. Then(u) \in users'
    BY DEF Access!SetRole
  <2> QED
    BY <2>1, <2>2 DEF UserRow
<1>2. ASSUME NEW v \in users' PROVE \E u \in users : v = Then(u)
  BY DEF Access!SetRole
<1> HIDE DEF Then
<1>3. users' \subseteq UserRow
  BY <1>1, <1>2
<1>4. AccessKeyed'
  BY <1>1, <1>2 DEF AccessKeyed
<1> QED
  BY <1>1, <1>3, <1>4

LEMMA AccessAsks ==
  ASSUME AccessSound, NEW w \in Workers, NEW b \in Browsers, NEW t \in Access!Ids,
         NEW op \in {"create", "promote", "demote", "delete", "password"}, Access!Ask(w, b, op, t)
  PROVE  AccessSound'
<1> USE DEF AccessSound
<1> DEFINE r == [op |-> op, target |-> t]
<1>0. /\ UNCHANGED <<users, nextUser, sess, who>> /\ req[w] = Access!Idle /\ req' = [req EXCEPT ![w] = r]
      /\ raced' = (raced \/ \E v \in Workers : req[v] # Access!Idle)
      /\ Access!User(b) \in Access!Admins /\ Access!Allowed(Access!User(b), op, t)
  BY DEF Access!Ask
<1>1. t \in 1..MaxUsers /\ r \in Writes /\ r.op = op /\ r.target = t
  BY DEF Access!Ids, AccessTyped, UserRow, Writes
<1> HIDE DEF r
<1>2. req' \in [Workers -> {Access!Idle} \cup Writes] /\ req'[w] = r /\ \A v \in Workers \ {w} : req'[v] = req[v]
  BY <1>0, <1>1 DEF AccessTyped
<1>3. AccessTyped'
  BY <1>0, <1>2 DEF AccessTyped
<1>4. AccessKeyed'
  BY <1>0 DEF AccessKeyed
<1>5. AccessLasts'
  <2>1. SUFFICES ASSUME ~raced' PROVE AccessLasts'
    BY DEF AccessLasts
  <2>2. ~raced /\ \A v \in Workers : req[v] = Access!Idle
    BY <1>0, <2>1
  <2>3. PICK u \in users : u.role = "admin" /\ u.id = Access!User(b)
    BY <1>0 DEF Access!Admins
  <2>4. op \in {"demote", "delete"} => t # Access!User(b)
    BY <1>0 DEF Access!Allowed
  <2>5. Lasting(u, r)
    BY <1>1, <2>3, <2>4 DEF Lasting
  <2>6. \A v \in Workers \ {w} : req'[v] = Access!Idle
    BY <1>2, <2>2
  <2>7. \A v \in Workers : Lasting(u, req'[v])
    BY <1>2, <2>3, <2>5, <2>6 DEF Lasting
  <2> QED
    BY <1>0, <2>3, <2>6, <2>7 DEF AccessLasts
<1> QED
  BY <1>3, <1>4, <1>5

LEMMA AccessWrites ==
  ASSUME AccessSound, NEW w \in Workers, Access!Write(w)
  PROVE  AccessSound'
<1> USE DEF AccessSound
<1> DEFINE r == req[w]
<1>0. /\ r # Access!Idle /\ req' = [req EXCEPT ![w] = Access!Idle] /\ UNCHANGED <<sess, who, raced>>
  BY DEF Access!Write
<1>1. r \in Writes /\ r.op \in {"create", "promote", "demote", "delete", "password"}
  BY <1>0 DEF AccessTyped, Writes
<1>2. \/ /\ r.op = "create" /\ nextUser <= MaxUsers /\ nextUser' = nextUser + 1
         /\ \E role \in Access!Roles : users' = users \cup {[id |-> nextUser, role |-> role, no |-> nextUser]}
      \/ r.op = "promote" /\ users' = Access!SetRole(r.target, "admin") /\ UNCHANGED nextUser
      \/ r.op = "demote" /\ users' = Access!SetRole(r.target, "viewer") /\ UNCHANGED nextUser
      \/ r.op = "delete" /\ users' = {u \in users : u.id # r.target} /\ UNCHANGED nextUser
      \/ r.op = "password" /\ UNCHANGED <<users, nextUser>>
  BY <1>1 DEF Access!Write, Access!NewId
<1> HIDE DEF r
<1>3. req' \in [Workers -> {Access!Idle} \cup Writes] /\ req'[w] = Access!Idle /\ \A v \in Workers \ {w} : req'[v] = req[v]
  BY <1>0 DEF AccessTyped
<1>4. /\ users' \subseteq UserRow /\ nextUser' \in 1..MaxUsers + 1 /\ AccessKeyed'
      /\ \A u \in users : Lasting(u, r) => u \in users'
  <2>1. ASSUME NEW role \in Access!Roles, nextUser <= MaxUsers, nextUser' = nextUser + 1,
               users' = users \cup {[id |-> nextUser, role |-> role, no |-> nextUser]}
        PROVE  /\ users' \subseteq UserRow /\ nextUser' \in 1..MaxUsers + 1 /\ AccessKeyed'
               /\ \A u \in users : Lasting(u, r) => u \in users'
    BY <1>0, <2>1, AccountMade
  <2>2. CASE r.op = "promote" /\ users' = Access!SetRole(r.target, "admin") /\ UNCHANGED nextUser
    BY <1>0, <2>2, RoleSet DEF Access!Roles, Lasting, AccessTyped
  <2>3. CASE r.op = "demote" /\ users' = Access!SetRole(r.target, "viewer") /\ UNCHANGED nextUser
    BY <1>0, <2>3, RoleSet DEF Access!Roles, Lasting, AccessTyped
  <2>4. CASE r.op = "delete" /\ users' = {u \in users : u.id # r.target} /\ UNCHANGED nextUser
    BY <1>0, <2>4 DEF Lasting, AccessTyped, AccessKeyed
  <2>5. CASE UNCHANGED <<users, nextUser>>
    BY <1>0, <2>5 DEF AccessTyped, AccessKeyed
  <2> QED
    BY <1>2, <2>1, <2>2, <2>3, <2>4, <2>5
<1>5. AccessTyped'
  BY <1>0, <1>3, <1>4 DEF AccessTyped
<1>6. AccessLasts'
  <2>1. SUFFICES ASSUME ~raced PROVE AccessLasts'
    BY <1>0 DEF AccessLasts
  <2>2. \A v \in Workers : req'[v] = Access!Idle
    BY <1>0, <1>3, <2>1 DEF AccessLasts, r
  <2>3. PICK u \in users : Lasting(u, r)
    BY <2>1 DEF AccessLasts, r
  <2>4. u \in users' /\ u.role = "admin"
    BY <1>4, <2>3 DEF Lasting
  <2> QED
    BY <2>2, <2>4 DEF AccessLasts, Lasting
<1> QED
  BY <1>4, <1>5, <1>6

LEMMA AccessOthers ==
  ASSUME AccessSound,
         Access!Restart \/ \E b \in Browsers : Access!Logout(b) \/ \E i \in Access!Ids : Access!Login(b, i)
  PROVE  AccessSound'
<1> USE DEF AccessSound
<1>1. CASE Access!Restart
  <2>0. /\ req' = [w \in Workers |-> Access!Idle] /\ UNCHANGED <<sess, who, raced>>
        /\ \/ /\ users = {} /\ nextUser <= MaxUsers /\ nextUser' = nextUser + 1
              /\ users' = users \cup {[id |-> nextUser, role |-> "admin", no |-> nextUser]}
           \/ UNCHANGED <<users, nextUser>>
    BY <1>1 DEF Access!Restart, Access!NoUsers
  <2>1. users' \subseteq UserRow /\ nextUser' \in 1..MaxUsers + 1 /\ AccessKeyed'
    <3>1. "admin" \in Access!Roles
      BY DEF Access!Roles
    <3>2. CASE UNCHANGED <<users, nextUser>>
      BY <2>0, <3>2 DEF AccessTyped, AccessKeyed
    <3> QED
      BY <2>0, <3>1, <3>2, AccountMade
  <2>2. AccessTyped'
    BY <2>0, <2>1 DEF AccessTyped
  <2>3. AccessLasts'
    BY <2>0 DEF AccessLasts, Lasting
  <2> QED
    BY <2>1, <2>2, <2>3
<1>2. ASSUME NEW b \in Browsers, Access!Logout(b) \/ \E i \in Access!Ids : Access!Login(b, i)
      PROVE  AccessSound'
  <2>0. UNCHANGED <<users, nextUser, req, raced>>
    BY <1>2 DEF Access!Logout, Access!Login
  <2>1. \A i \in Access!Ids : i \in 1..MaxUsers /\ Access!Account(i).no = i
    BY DEF Access!Ids, Access!Account, AccessKeyed, AccessTyped, UserRow
  <2>2. \E v \in 1..MaxUsers \cup {NULL} : sess' = [sess EXCEPT ![b] = v] /\ who' = [who EXCEPT ![b] = v]
    BY <1>2, <2>1 DEF Access!Logout, Access!Login
  <2>3. AccessTyped' /\ AccessKeyed'
    BY <2>0, <2>2 DEF AccessTyped, AccessKeyed
  <2> QED
    BY <2>0, <2>3 DEF AccessLasts
<1> QED
  BY <1>1, <1>2

LEMMA AccessStep ==
  ASSUME AccessSound, Access!Next
  PROVE  AccessSound'
BY AccessAsks, AccessWrites, AccessOthers DEF Access!Next

LEMMA AccessIsHeld ==
  ASSUME AccessSound
  PROVE  Access!TypeOK /\ Access!AdminLeft /\ Access!SessionIsOwn
<1> USE DEF AccessSound
<1>1. Access!TypeOK
  BY DEF Access!TypeOK, AccessTyped, UserRow
<1>2. Access!AdminLeft
  BY DEF AccessLasts, Access!AdminLeft, Access!Admins
<1>3. Access!SessionIsOwn
  BY DEF Access!SessionIsOwn, Access!User, Access!Ids, Access!Account, AccessKeyed
<1> QED
  BY <1>1, <1>2, <1>3

----------------------------------------------------------------------------
(* LanContent: p is the library of the instance.                             *)
MediaRow(p) == [id : 1..MaxMedia, file : FilesOf(p)]
ItemRow == [id : 1..MaxItems, list : Lists, media : 1..MaxMedia, pos : 0..MaxItems - 1]

LibraryTyped(p) ==
  /\ lists \subseteq Lists /\ disk \subseteq FilesOf(p) /\ media \subseteq MediaRow(p) /\ items \subseteq ItemRow
  /\ nextMedia \in 1..MaxMedia + 1 /\ nextItem \in 1..MaxItems + 1

\* A row is known by its id, and ids are never given twice; a playlist is never longer
\* than the number of items ever made.
ItemsKeyed ==
  /\ \A i \in items : i.id < nextItem /\ i.pos < nextItem - 1
  /\ \A i, j \in items : i.id = j.id => i = j

LibraryAsked(p) ==
  /\ DOMAIN req = Workers
  /\ \A w \in Workers :
       /\ req[w].op = "store" => req[w].file \in FilesOf(p)
       /\ req[w].op = "reorder" => \A i \in DOMAIN req[w].place : req[w].place[i] \in 0..nextItem - 2

LibrarySound(p) ==
  LibraryTyped(p) /\ ItemsKeyed /\ LibraryAsked(p) /\ Library(p)!OneRowPerContent /\ Library(p)!ItemsResolve

LEMMA LibraryCardinality == \A p, S : Library(p)!Cardinality(S) = Cardinality(S)
BY DEF Library!Cardinality, Cardinality

\* Items that have ids of their own are no more than the ids.
LEMMA ItemsCounted ==
  ASSUME NEW n \in Nat, NEW S, \A i \in S : i.id \in 1..n, \A i, j \in S : i.id = j.id => i = j
  PROVE  IsFiniteSet(S) /\ Cardinality(S) \in Nat /\ Cardinality(S) <= n
<1> DEFINE f == [i \in S |-> i.id]
<1>1. f \in Injection(S, 1..n)
  BY DEF Injection, IsInjective
<1>2. IsFiniteSet(1..n) /\ Cardinality(1..n) = n
  BY FS_Interval
<1> HIDE DEF f
<1>3. IsFiniteSet(S) /\ Cardinality(S) <= Cardinality(1..n)
  BY <1>1, <1>2, FS_Injection
<1> QED
  BY <1>2, <1>3, FS_CardinalityType

Less == {e \in Nat \X Nat : e[1] < e[2]}
LEMMA LessWellFounded == IsWellFoundedOn(Less, Nat)
<1>1. Less = OpToRel(<, Nat)
  BY DEF Less, OpToRel
<1> QED
  BY <1>1, NatLessThanWellFounded, Zenon
\* A set of naturals that is bounded has a greatest one.
LEMMA Greatest ==
  ASSUME NEW n \in Nat, NEW S, S \subseteq 0..n, S # {}
  PROVE  \E m \in S : \A k \in S : k <= m
<1> DEFINE T == {n - k : k \in S}
<1>1. T \subseteq Nat /\ T # {}
  <2>1. \A k \in S : n - k \in Nat
    OBVIOUS
  <2>2. \E k \in S : n - k \in T
    OBVIOUS
  <2> QED
    BY <2>1, <2>2
<1> HIDE DEF T
<1>2. PICK x \in T : \A y \in T : ~(<<y, x>> \in Less)
  BY <1>1, LessWellFounded, WFMin, Zenon
<1>3. \A y \in T : x <= y
  <2>1. \A a, b \in Nat : a < b => <<a, b>> \in Less
    BY DEF Less
  <2>2. ASSUME NEW y \in T PROVE x <= y
    <3>1. x \in Nat /\ y \in Nat /\ ~(y < x)
      BY <1>1, <1>2, <2>1
    <3> QED
      BY <3>1
  <2> QED
    BY <2>2
<1> USE DEF T
<1>4. PICK m \in S : x = n - m
  BY <1>2
<1>5. ASSUME NEW k \in S PROVE k <= m
  <2>1. x <= n - k
    BY <1>3
  <2> QED
    BY <1>4, <2>1
<1> QED
  BY <1>5

LEMMA LibraryInit ==
  ASSUME NEW p \in LibraryParts, Library(p)!Init
  PROVE  LibrarySound(p)
<1> USE DEF Library!Init
<1>1. /\ Len(Stock(p)) \in 0..MaxMedia
      /\ \A i \in 1..Len(Stock(p)) : Stock(p)[i] \in FilesOf(p)
      /\ \A i, j \in 1..Len(Stock(p)) : Stock(p)[i][1] = Stock(p)[j][1] => i = j
  BY LibraryBounds DEF Stock, FilesOf, LibraryParts, OneOfEach
<1>2. \A m \in media : \E i \in 1..Len(Stock(p)) : m = [id |-> i, file |-> Stock(p)[i]]
  OBVIOUS
<1>3. LibraryTyped(p)
  BY <1>1, LibraryBounds DEF LibraryTyped, MediaRow, ItemRow
<1>4. ItemsKeyed /\ LibraryAsked(p) /\ Library(p)!ItemsResolve
  BY DEF ItemsKeyed, LibraryAsked, Library!Idle, Library!ItemsResolve
<1>5. Library(p)!OneRowPerContent
  BY <1>1, <1>2 DEF Library!OneRowPerContent
<1> QED
  BY <1>3, <1>4, <1>5 DEF LibrarySound

LEMMA ItemMoved ==
  ASSUME NEW i \in ItemRow, NEW n \in 0..MaxItems - 1
  PROVE  LET a == [i EXCEPT !.pos = n]
         IN  a \in ItemRow /\ a.id = i.id /\ a.list = i.list /\ a.media = i.media /\ a.pos = n
BY DEF ItemRow

\* a is i, at some position.
SameItem(a, i) == a.id = i.id /\ a.list = i.list /\ a.media = i.media

\* The items of S and no others are left, at positions of their own.
Carried(S) ==
  /\ \A a \in items' : a \in ItemRow /\ a.pos < nextItem - 1 /\ \E i \in S : SameItem(a, i)
  /\ \A a, b \in items' : a.id = b.id => a = b

LEMMA ItemsCarried ==
  ASSUME NEW p \in LibraryParts, LibrarySound(p), NEW S, S \subseteq items, Carried(S), nextItem' = nextItem,
         \A i \in S : i.list \in lists' /\ i.media \in {m.id : m \in media'}
  PROVE  items' \subseteq ItemRow /\ ItemsKeyed' /\ Library(p)!ItemsResolve'
<1> USE DEF LibrarySound
<1>1. items' \subseteq ItemRow /\ ItemsKeyed'
  BY DEF Carried, SameItem, ItemsKeyed
<1>2. \A a \in items' : a.list \in lists' /\ a.media \in {m.id : m \in media'}
  BY DEF Carried, SameItem
<1>3. \A a, b \in items' : a # b /\ a.list = b.list => a.media # b.media
  <2> SUFFICES ASSUME NEW a \in items', NEW b \in items', a # b, a.list = b.list PROVE a.media # b.media
    OBVIOUS
  <2>1. PICK i \in S : SameItem(a, i)
    BY DEF Carried
  <2>2. PICK j \in S : SameItem(b, j)
    BY DEF Carried
  <2>3. i # j
    BY <2>1, <2>2 DEF Carried, SameItem
  <2> QED
    BY <2>1, <2>2, <2>3 DEF SameItem, Library!ItemsResolve
<1> QED
  BY <1>1, <1>2, <1>3 DEF Library!ItemsResolve, Library!MediaIds

\* The position Renumber gives an item.
NewPlace(S, i) == Cardinality({j \in S : j.list = i.list /\ (j.pos < i.pos \/ (j.pos = i.pos /\ j.id < i.id))})

LEMMA PlacesFound ==
  ASSUME NEW p \in LibraryParts, LibraryTyped(p), ItemsKeyed, NEW S, S \subseteq items, NEW ls
  PROVE  /\ Library(p)!Renumber(S, ls) = {IF i.list \notin ls THEN i ELSE [i EXCEPT !.pos = NewPlace(S, i)] : i \in S}
         /\ \A i \in S : NewPlace(S, i) \in Nat /\ NewPlace(S, i) < nextItem - 1 /\ NewPlace(S, i) \in 0..MaxItems - 1
         /\ \A i, j \in S : i.list = j.list /\ Library(p)!Before(i, j) => NewPlace(S, i) < NewPlace(S, j)
<1> DEFINE Ahead(i) == {j \in S : j.list = i.list /\ (j.pos < i.pos \/ (j.pos = i.pos /\ j.id < i.id))}
<1>1. Library(p)!Renumber(S, ls) = {IF i.list \notin ls THEN i ELSE [i EXCEPT !.pos = NewPlace(S, i)] : i \in S}
  BY LibraryCardinality DEF Library!Renumber, NewPlace, Library!Before
<1>2. nextItem \in Nat /\ nextItem - 1 \in Nat /\ nextItem - 1 <= MaxItems /\ MaxItems \in Nat
  BY LibraryBounds DEF LibraryTyped
<1>3. \A i \in S : i.id \in 1..nextItem - 1 /\ i.id \in Nat /\ i.pos \in Nat
  BY <1>2 DEF LibraryTyped, ItemRow, ItemsKeyed
<1>4. \A i, j \in S : i.id = j.id => i = j
  BY DEF ItemsKeyed
<1>5. IsFiniteSet(S) /\ Cardinality(S) \in Nat /\ Cardinality(S) <= nextItem - 1
  BY <1>2, <1>3, <1>4, ItemsCounted
<1>6. ASSUME NEW i \in S
      PROVE  /\ IsFiniteSet(Ahead(i)) /\ Cardinality(Ahead(i)) \in Nat /\ Cardinality(Ahead(i)) < Cardinality(S)
  <2>1. Ahead(i) \in SUBSET S /\ i \notin Ahead(i)
    BY <1>3
  <2>2. /\ IsFiniteSet(Ahead(i)) /\ Cardinality(Ahead(i)) <= Cardinality(S)
        /\ Cardinality(S) = Cardinality(Ahead(i)) => S = Ahead(i)
    BY <1>5, <2>1, FS_Subset
  <2>3. Cardinality(Ahead(i)) \in Nat
    BY <2>2, FS_CardinalityType
  <2> QED
    BY <1>5, <2>1, <2>2, <2>3
<1>7. ASSUME NEW i \in S, NEW j \in S, i.list = j.list, Library(p)!Before(i, j)
      PROVE  Cardinality(Ahead(i)) < Cardinality(Ahead(j))
  <2>1. Ahead(i) \in SUBSET Ahead(j) /\ i \in Ahead(j) /\ i \notin Ahead(i)
    BY <1>3, <1>7 DEF Library!Before
  <2>2. /\ IsFiniteSet(Ahead(i)) /\ Cardinality(Ahead(i)) <= Cardinality(Ahead(j))
        /\ Cardinality(Ahead(j)) = Cardinality(Ahead(i)) => Ahead(j) = Ahead(i)
    BY <1>6, <2>1, FS_Subset
  <2> QED
    BY <1>6, <2>1, <2>2
<1>8. \A i \in S : NewPlace(S, i) = Cardinality(Ahead(i))
  BY DEF NewPlace
<1> HIDE DEF Ahead
<1>9. \A i \in S : NewPlace(S, i) \in Nat /\ NewPlace(S, i) < nextItem - 1
  BY <1>2, <1>5, <1>6, <1>8
<1> QED
  BY <1>1, <1>2, <1>7, <1>8, <1>9

LEMMA Renumbered ==
  ASSUME NEW p \in LibraryParts, LibraryTyped(p), ItemsKeyed, NEW S, S \subseteq items, NEW ls,
         items' = Library(p)!Renumber(S, ls)
  PROVE  /\ Carried(S)
         /\ \A i, j \in S : \A a, b \in items' :
              i.id = a.id /\ j.id = b.id /\ i.list = j.list /\ Library(p)!Before(i, j) => ~Library(p)!Before(b, a)
<1> DEFINE At(i) == IF i.list \notin ls THEN i ELSE [i EXCEPT !.pos = NewPlace(S, i)]
<1>1. items' = {At(i) : i \in S}
  BY PlacesFound
<1>2. ASSUME NEW i \in S
      PROVE  /\ At(i) \in ItemRow /\ At(i).pos < nextItem - 1 /\ SameItem(At(i), i)
             /\ At(i).pos = IF i.list \notin ls THEN i.pos ELSE NewPlace(S, i)
  <2>1. i \in ItemRow /\ i.pos < nextItem - 1
    BY DEF LibraryTyped, ItemsKeyed
  <2>2. NewPlace(S, i) \in 0..MaxItems - 1 /\ NewPlace(S, i) < nextItem - 1
    BY PlacesFound
  <2>3. CASE i.list \notin ls
    BY <2>1, <2>3 DEF SameItem
  <2>4. CASE i.list \in ls
    BY <2>1, <2>2, <2>4, ItemMoved DEF SameItem
  <2> QED
    BY <2>3, <2>4
<1>3. \A i, j \in S : i.id = j.id => i = j
  BY DEF ItemsKeyed
<1>4. \A i \in S : i.pos \in Int /\ i.id \in Int /\ NewPlace(S, i) \in Int
  <2>1. \A i \in S : NewPlace(S, i) \in Nat
    BY PlacesFound
  <2> QED
    BY <2>1 DEF LibraryTyped, ItemRow
<1> HIDE DEF At
<1>5. Carried(S)
  BY <1>1, <1>2, <1>3 DEF Carried, SameItem
<1>6. ASSUME NEW i \in S, NEW j \in S, NEW a \in items', NEW b \in items',
             i.id = a.id, j.id = b.id, i.list = j.list, Library(p)!Before(i, j)
      PROVE  ~Library(p)!Before(b, a)
  <2>1. a = At(i) /\ b = At(j)
    BY <1>1, <1>2, <1>3, <1>6 DEF SameItem
  <2>2. NewPlace(S, i) < NewPlace(S, j)
    BY <1>6, PlacesFound
  <2> QED
    BY <1>2, <1>4, <1>6, <2>1, <2>2 DEF Library!Before
<1> QED
  BY <1>5, <1>6

\* What a request may hold.
MayHold(p, r) ==
  /\ r.op = "store" => r.file \in FilesOf(p)
  /\ r.op = "reorder" => \A i \in DOMAIN r.place : r.place[i] \in 0..nextItem - 2

RequestGoes(p) == UNCHANGED req \/ \E w \in Workers : \E r : MayHold(p, r) /\ req' = [req EXCEPT ![w] = r]

LEMMA AskedNext ==
  ASSUME NEW p \in LibraryParts, LibraryTyped(p), LibraryAsked(p), nextItem' \in Nat, nextItem' >= nextItem, RequestGoes(p)
  PROVE  LibraryAsked(p)'
<1> USE DEF RequestGoes
<1>1. nextItem \in Nat
  BY DEF LibraryTyped
<1>2. ASSUME NEW r, MayHold(p, r)
      PROVE  r.op = "reorder" => \A i \in DOMAIN r.place : r.place[i] \in 0..nextItem' - 2
  BY <1>1, <1>2 DEF MayHold
<1>3. ASSUME NEW w \in Workers
      PROVE  /\ req'[w].op = "store" => req'[w].file \in FilesOf(p)
             /\ req'[w].op = "reorder" => \A i \in DOMAIN req'[w].place : req'[w].place[i] \in 0..nextItem' - 2
  <2>1. MayHold(p, req[w])
    BY DEF LibraryAsked, MayHold
  <2>2. CASE req'[w] = req[w]
    BY <1>2, <2>1, <2>2 DEF MayHold
  <2>3. CASE \E r : MayHold(p, r) /\ req'[w] = r
    BY <1>2, <2>3 DEF MayHold
  <2> QED
    BY <2>2, <2>3 DEF LibraryAsked
<1>4. DOMAIN req' = Workers
  BY DEF LibraryAsked
<1> QED
  BY <1>3, <1>4 DEF LibraryAsked, FilesOf

\* An item that is not new is as it was.
LEMMA OrderStays ==
  ASSUME NEW p \in LibraryParts, LibraryTyped(p), ItemsKeyed, \A a \in items' : a \in items \/ a.id >= nextItem
  PROVE  Library(p)!OrderKeptStep
<1>1. \A i \in items : i.id \in Int /\ i.pos \in Int /\ i.id < nextItem
  BY DEF LibraryTyped, ItemRow, ItemsKeyed
<1>2. \A i \in items : \A a \in items' : i.id = a.id => i = a
  <2>1. nextItem \in Int
    BY DEF LibraryTyped
  <2> QED
    BY <1>1, <2>1 DEF ItemsKeyed
<1> QED
  BY <1>1, <1>2 DEF Library!OrderKeptStep, Library!Before

LEMMA RequestsMove ==
  ASSUME NEW p \in LibraryParts, LibrarySound(p), NEW w \in Workers,
         \/ \E f \in FilesOf(p) : Library(p)!UploadProbe(w, f)
         \/ Library(p)!UploadFails(w) \/ Library(p)!DeleteFile(w)
         \/ \E m \in media : Library(p)!DeleteRead(w, m)
         \/ \E l \in Lists : Library(p)!ReorderRead(w, l)
  PROVE  LibrarySound(p)' /\ Library(p)!OrderKeptStep
<1> USE DEF LibrarySound
<1>0. nextItem \in Nat /\ nextMedia \in Nat
  BY DEF LibraryTyped
<1>1. UNCHANGED <<lists, media, items, nextMedia, nextItem>> /\ disk' \subseteq disk
  BY DEF Library!UploadProbe, Library!UploadFails, Library!DeleteFile, Library!DeleteRead, Library!ReorderRead
<1>2. \E r : MayHold(p, r) /\ req' = [req EXCEPT ![w] = r]
  <2>1. ASSUME NEW f \in FilesOf(p), Library(p)!UploadProbe(w, f)
        PROVE  \E r : MayHold(p, r) /\ req' = [req EXCEPT ![w] = r]
    BY <2>1 DEF Library!UploadProbe, Library!Becomes, MayHold
  <2>2. CASE Library(p)!UploadFails(w) \/ Library(p)!DeleteFile(w)
    BY <2>2 DEF Library!UploadFails, Library!DeleteFile, Library!Ends, Library!Idle, MayHold
  <2>3. ASSUME NEW m \in media, Library(p)!DeleteRead(w, m)
        PROVE  \E r : MayHold(p, r) /\ req' = [req EXCEPT ![w] = r]
    BY <2>3 DEF Library!DeleteRead, Library!Becomes, MayHold
  <2>4. ASSUME NEW l \in Lists, Library(p)!ReorderRead(w, l)
        PROVE  \E r : MayHold(p, r) /\ req' = [req EXCEPT ![w] = r]
    <3> DEFINE ids == {i.id : i \in Library(p)!ItemsOf(l)}
    <3>1. PICK place \in Library(p)!Orders(ids) :
            req' = [req EXCEPT ![w] = [op |-> "reorder", list |-> l, place |-> place]]
      BY <2>4 DEF Library!ReorderRead, Library!Becomes
    <3>2. ids \in SUBSET (1..nextItem - 1)
      BY <1>0 DEF Library!ItemsOf, LibraryTyped, ItemRow, ItemsKeyed
    <3>3. nextItem - 1 \in Nat
      BY DEF LibraryTyped
    <3> HIDE DEF ids
    <3>4. IsFiniteSet(1..nextItem - 1) /\ Cardinality(1..nextItem - 1) = nextItem - 1
      BY <3>3, FS_Interval
    <3>5. Cardinality(ids) \in Nat /\ Cardinality(ids) <= nextItem - 1
      BY <3>2, <3>4, FS_Subset, FS_CardinalityType
    <3>6. place \in [ids -> 0..Cardinality(ids) - 1]
      BY <3>1, LibraryCardinality DEF Library!Orders
    <3>7. \A i \in DOMAIN place : place[i] \in 0..nextItem - 2
      BY <1>0, <3>5, <3>6
    <3> QED
      BY <3>1, <3>7 DEF MayHold
  <2> QED
    BY <2>1, <2>2, <2>3, <2>4
<1>3. LibraryAsked(p)'
  <2>1. RequestGoes(p)
    BY <1>2 DEF RequestGoes
  <2>2. nextItem' \in Nat /\ nextItem' >= nextItem
    BY <1>0, <1>1
  <2> QED
    BY <2>1, <2>2, AskedNext
<1>4. LibraryTyped(p)' /\ ItemsKeyed'
  BY <1>1 DEF LibraryTyped, ItemsKeyed, MediaRow, FilesOf, ItemRow
<1>5. Library(p)!OneRowPerContent' /\ Library(p)!ItemsResolve'
  BY <1>1 DEF Library!OneRowPerContent, Library!ItemsResolve, Library!MediaIds
<1>6. Library(p)!OrderKeptStep
  BY <1>1, OrderStays
<1> QED
  BY <1>3, <1>4, <1>5, <1>6

LEMMA UploadStored ==
  ASSUME NEW p \in LibraryParts, LibrarySound(p), NEW w \in Workers, Library(p)!UploadStore(w)
  PROVE  LibrarySound(p)' /\ Library(p)!OrderKeptStep
<1> USE DEF LibrarySound
<1> DEFINE f == req[w].file
           m == [id |-> nextMedia, file |-> f]
<1>0. nextItem \in Nat /\ nextMedia \in 1..MaxMedia /\ nextMedia + 1 \in 1..MaxMedia + 1 /\ f \in FilesOf(p)
  BY LibraryBounds DEF LibraryTyped, LibraryAsked, Library!UploadStore
<1>1. UNCHANGED <<lists, items, nextItem>> /\ req' = [req EXCEPT ![w] = Library(p)!Idle]
  BY DEF Library!UploadStore, Library!Ends
<1>2. disk' \subseteq disk \cup {f}
  BY DEF Library!UploadStore
<1>3. \/ UNCHANGED <<media, nextMedia>>
      \/ ~Library(p)!HasContent(f) /\ media' = media \cup {m} /\ nextMedia' = nextMedia + 1
  BY DEF Library!UploadStore, Library!Duplicate
<1>4. m \in MediaRow(p) /\ m.file = f /\ m.id = nextMedia
  BY <1>0 DEF MediaRow
<1> HIDE DEF m, f
<1>5. LibraryAsked(p)'
  <2>1. RequestGoes(p)
    BY <1>1 DEF RequestGoes, MayHold, Library!Idle
  <2>2. nextItem' \in Nat /\ nextItem' >= nextItem
    BY <1>0, <1>1
  <2> QED
    BY <2>1, <2>2, AskedNext
<1>6. LibraryTyped(p)' /\ ItemsKeyed'
  BY <1>0, <1>1, <1>2, <1>3, <1>4 DEF LibraryTyped, ItemsKeyed, MediaRow, FilesOf, ItemRow
<1>7. Library(p)!OneRowPerContent'
  BY <1>3, <1>4 DEF Library!OneRowPerContent, Library!HasContent
<1>8. Library(p)!ItemsResolve'
  BY <1>1, <1>3 DEF Library!ItemsResolve, Library!MediaIds
<1>9. Library(p)!OrderKeptStep
  BY <1>1, OrderStays
<1> QED
  BY <1>5, <1>6, <1>7, <1>8, <1>9

\* An order kept among the items of S is kept: there are no others.
LEMMA OrderCarried ==
  ASSUME NEW p \in LibraryParts, ItemsKeyed, NEW S, S \subseteq items, Carried(S),
         \A i, j \in S : \A a, b \in items' :
           i.id = a.id /\ j.id = b.id /\ i.list = j.list /\ Library(p)!Before(i, j) => ~Library(p)!Before(b, a)
  PROVE  Library(p)!OrderKeptStep
<1>1. \A i \in items : \A a \in items' : i.id = a.id => i \in S
  BY DEF Carried, SameItem, ItemsKeyed
<1> QED
  BY <1>1 DEF Library!OrderKeptStep

LEMMA RowDeleted ==
  ASSUME NEW p \in LibraryParts, LibrarySound(p), NEW w \in Workers, Library(p)!DeleteRow(w)
  PROVE  LibrarySound(p)' /\ Library(p)!OrderKeptStep
<1> USE DEF LibrarySound
<1> DEFINE gone == req[w].row
           S == {i \in items : i.media # gone.id}
           ls == req[w].affected
<1>1. /\ items' = Library(p)!Renumber(S, ls) /\ media' = media \ {gone}
      /\ UNCHANGED <<lists, disk, nextMedia, nextItem>>
  BY DEF Library!DeleteRow
<1>2. \A i \in S : i.list \in lists' /\ i.media \in {m.id : m \in media'}
  BY <1>1 DEF Library!ItemsResolve, Library!MediaIds
<1>3. S \subseteq items
  OBVIOUS
<1>4. \A i \in items \ S : i.media = gone.id
  OBVIOUS
<1> HIDE DEF S, ls, gone
<1>5. /\ Carried(S)
      /\ \A i, j \in S : \A a, b \in items' :
           i.id = a.id /\ j.id = b.id /\ i.list = j.list /\ Library(p)!Before(i, j) => ~Library(p)!Before(b, a)
  BY <1>1, <1>3, Renumbered
<1>6. items' \subseteq ItemRow /\ ItemsKeyed' /\ Library(p)!ItemsResolve'
  BY <1>1, <1>2, <1>3, <1>5, ItemsCarried
<1>7. LibraryAsked(p)'
  <2>1. RequestGoes(p)
    BY DEF RequestGoes, MayHold, Library!DeleteRow
  <2>2. nextItem' \in Nat /\ nextItem' >= nextItem
    BY <1>1 DEF LibraryTyped
  <2> QED
    BY <2>1, <2>2, AskedNext
<1>8. LibraryTyped(p)' /\ Library(p)!OneRowPerContent'
  BY <1>1, <1>6 DEF LibraryTyped, Library!OneRowPerContent, MediaRow, FilesOf, ItemRow
<1>9. Library(p)!OrderKeptStep
  BY <1>3, <1>5, OrderCarried
<1> QED
  BY <1>6, <1>7, <1>8, <1>9

LEMMA ItemRemoved ==
  ASSUME NEW p \in LibraryParts, LibrarySound(p), NEW e \in items, Library(p)!RemoveItem(e)
  PROVE  LibrarySound(p)' /\ Library(p)!OrderKeptStep
<1> USE DEF LibrarySound
<1> DEFINE S == items \ {e}
<1>1. /\ items' = Library(p)!Renumber(S, {e.list}) /\ S \subseteq items
      /\ UNCHANGED <<lists, media, disk, nextMedia, nextItem, req>>
  BY DEF Library!RemoveItem
<1>2. \A i \in S : i.list \in lists' /\ i.media \in {m.id : m \in media'}
  BY <1>1 DEF Library!ItemsResolve, Library!MediaIds
<1> HIDE DEF S
<1>5. /\ Carried(S)
      /\ \A i, j \in S : \A a, b \in items' :
           i.id = a.id /\ j.id = b.id /\ i.list = j.list /\ Library(p)!Before(i, j) => ~Library(p)!Before(b, a)
  BY <1>1, Renumbered
<1>6. items' \subseteq ItemRow /\ ItemsKeyed' /\ Library(p)!ItemsResolve'
  BY <1>1, <1>2, <1>5, ItemsCarried
<1>7. LibraryAsked(p)'
  <2>1. RequestGoes(p)
    BY <1>1 DEF RequestGoes
  <2>2. nextItem' \in Nat /\ nextItem' >= nextItem
    BY <1>1 DEF LibraryTyped
  <2> QED
    BY <2>1, <2>2, AskedNext
<1>8. LibraryTyped(p)' /\ Library(p)!OneRowPerContent'
  BY <1>1, <1>6 DEF LibraryTyped, Library!OneRowPerContent, MediaRow, FilesOf, ItemRow
<1>9. Library(p)!OrderKeptStep
  BY <1>1, <1>5, OrderCarried
<1> QED
  BY <1>6, <1>7, <1>8, <1>9

LEMMA ListsMove ==
  ASSUME NEW p \in LibraryParts, LibrarySound(p), NEW l \in Lists, Library(p)!CreateList(l) \/ Library(p)!DeleteList(l)
  PROVE  LibrarySound(p)' /\ Library(p)!OrderKeptStep
<1> USE DEF LibrarySound
<1>1. /\ UNCHANGED <<media, disk, nextMedia, nextItem, req>> /\ lists' \subseteq Lists
      /\ items' \subseteq items /\ \A i \in items' : i.list \in lists'
  BY DEF Library!CreateList, Library!DeleteList, Library!ItemsOf, Library!ItemsResolve, LibraryTyped
<1>2. LibraryAsked(p)'
  <2>1. RequestGoes(p)
    BY <1>1 DEF RequestGoes
  <2>2. nextItem' \in Nat /\ nextItem' >= nextItem
    BY <1>1 DEF LibraryTyped
  <2> QED
    BY <2>1, <2>2, AskedNext
<1>3. LibraryTyped(p)' /\ ItemsKeyed'
  BY <1>1 DEF LibraryTyped, ItemsKeyed, MediaRow, FilesOf, ItemRow
<1>4. Library(p)!OneRowPerContent' /\ Library(p)!ItemsResolve'
  BY <1>1 DEF Library!OneRowPerContent, Library!ItemsResolve, Library!MediaIds
<1>5. Library(p)!OrderKeptStep
  BY <1>1, OrderStays
<1> QED
  BY <1>2, <1>3, <1>4, <1>5

\* A new item goes behind those that are there.
LEMMA LastPlace ==
  ASSUME NEW p \in LibraryParts, LibraryTyped(p), ItemsKeyed, NEW l
  PROVE  Library(p)!NextPos(l) \in 0..nextItem - 1
<1> DEFINE S == {i.pos : i \in Library(p)!ItemsOf(l)}
<1>1. nextItem \in Nat /\ nextItem >= 1
  BY DEF LibraryTyped
<1>2. CASE Library(p)!ItemsOf(l) = {}
  BY <1>1, <1>2 DEF Library!NextPos
<1>3. ASSUME Library(p)!ItemsOf(l) # {}
      PROVE  Library(p)!NextPos(l) \in 0..nextItem - 1
  <2>1. PICK e \in items : e.pos \in S
    BY <1>3 DEF Library!ItemsOf
  <2>2. \A i \in items : i.pos \in Nat /\ i.pos <= nextItem - 2
    BY <1>1 DEF ItemsKeyed, LibraryTyped, ItemRow
  <2>3. S \subseteq 0..nextItem - 2 /\ S # {} /\ nextItem - 2 \in Nat
    BY <1>1, <2>1, <2>2 DEF Library!ItemsOf
  <2>4. \E m \in S : \A k \in S : k <= m
    <3> HIDE DEF S
    <3> QED
      BY <2>3, Greatest
  <2>5. \E m \in S : \A i \in Library(p)!ItemsOf(l) : i.pos <= m
    BY <2>4
  <2> DEFINE top == CHOOSE m \in S : \A i \in Library(p)!ItemsOf(l) : i.pos <= m
  <2>6. top \in S
    BY <2>5
  <2>7. Library(p)!NextPos(l) = 1 + top
    BY <1>3 DEF Library!NextPos
  <2> HIDE DEF top, S
  <2> QED
    BY <1>1, <2>3, <2>6, <2>7
<1> QED
  BY <1>2, <1>3

LEMMA ItemAdded ==
  ASSUME NEW p \in LibraryParts, LibrarySound(p), NEW l \in Lists, NEW m \in Library(p)!MediaIds, Library(p)!AddItem(l, m)
  PROVE  LibrarySound(p)' /\ Library(p)!OrderKeptStep
<1> USE DEF LibrarySound
<1> DEFINE e == [id |-> nextItem, list |-> l, media |-> m, pos |-> Library(p)!NextPos(l)]
<1>1. /\ UNCHANGED <<lists, media, disk, nextMedia, req>> /\ l \in lists /\ nextItem' = nextItem + 1
      /\ items' = items \cup {e} /\ \A i \in items : i.list = l => i.media # m
  BY DEF Library!AddItem, Library!ItemsOf
<1>2. nextItem \in 1..MaxItems /\ nextItem + 1 \in 1..MaxItems + 1
  BY LibraryBounds DEF LibraryTyped, Library!AddItem
<1>3. m \in 1..MaxMedia
  BY DEF Library!MediaIds, LibraryTyped, MediaRow
<1>4. Library(p)!NextPos(l) \in 0..nextItem - 1
  BY LastPlace
<1>5. Library(p)!NextPos(l) \in 0..MaxItems - 1 /\ Library(p)!NextPos(l) < nextItem' - 1
  <2>1. Library(p)!NextPos(l) < nextItem' - 1
    BY <1>1, <1>2, <1>4
  <2> QED
    BY <1>2, <1>4, <2>1, LibraryBounds
<1>6. e \in ItemRow /\ e.id = nextItem /\ e.list = l /\ e.media = m /\ e.pos = Library(p)!NextPos(l)
  BY <1>2, <1>3, <1>5 DEF ItemRow
<1> HIDE DEF e
<1>7. LibraryAsked(p)'
  <2>1. RequestGoes(p)
    BY <1>1 DEF RequestGoes
  <2>2. nextItem' \in Nat /\ nextItem' >= nextItem
    BY <1>1, <1>2
  <2> QED
    BY <2>1, <2>2, AskedNext
<1>8. LibraryTyped(p)'
  BY <1>1, <1>2, <1>6 DEF LibraryTyped, MediaRow, FilesOf, ItemRow
<1>9. ItemsKeyed'
  <2>1. ASSUME NEW i \in items PROVE i.id < nextItem' /\ i.pos < nextItem' - 1 /\ i.id # nextItem
    BY <1>1, <1>2 DEF ItemsKeyed, LibraryTyped, ItemRow
  <2>2. e.id < nextItem' /\ e.pos < nextItem' - 1
    BY <1>1, <1>2, <1>5, <1>6
  <2> QED
    BY <1>1, <1>6, <2>1, <2>2 DEF ItemsKeyed
<1>10. Library(p)!OneRowPerContent' /\ Library(p)!ItemsResolve'
  BY <1>1, <1>6 DEF Library!OneRowPerContent, Library!ItemsResolve, Library!MediaIds
<1>11. Library(p)!OrderKeptStep
  BY <1>1, <1>2, <1>6, OrderStays
<1> QED
  BY <1>7, <1>8, <1>9, <1>10, <1>11

LEMMA ItemsReordered ==
  ASSUME NEW p \in LibraryParts, LibrarySound(p), NEW w \in Workers, Library(p)!ReorderWrite(w)
  PROVE  LibrarySound(p)' /\ Library(p)!OrderKeptStep
<1> USE DEF LibrarySound
<1> DEFINE r == req[w]
           Put(i) == Library(p)!Place(i, r)
<1>1. /\ UNCHANGED <<lists, media, disk, nextMedia, nextItem>> /\ items' = {Put(i) : i \in items}
      /\ r.op = "reorder" /\ req' = [req EXCEPT ![w] = Library(p)!Idle] /\ req'[w] = Library(p)!Idle
  BY DEF Library!ReorderWrite, Library!Ends, LibraryAsked
<1>2. nextItem \in Nat /\ nextItem - 1 <= MaxItems /\ MaxItems \in Nat
  BY LibraryBounds DEF LibraryTyped
<1>3. ASSUME NEW i \in items
      PROVE  /\ Put(i) \in ItemRow /\ Put(i).pos < nextItem - 1 /\ SameItem(Put(i), i)
             /\ i.list # r.list => Put(i) = i
  <2>1. i \in ItemRow /\ i.pos < nextItem - 1
    BY DEF LibraryTyped, ItemsKeyed
  <2>2. CASE i.list = r.list /\ i.id \in DOMAIN r.place
    <3>1. r.place[i.id] \in 0..nextItem - 2
      BY <1>1, <2>2 DEF LibraryAsked
    <3>2. r.place[i.id] \in 0..MaxItems - 1 /\ r.place[i.id] < nextItem - 1
      BY <1>2, <3>1
    <3>3. Put(i) = [i EXCEPT !.pos = r.place[i.id]]
      BY <2>2 DEF Library!Place
    <3> QED
      BY <2>1, <2>2, <3>2, <3>3, ItemMoved DEF SameItem
  <2>3. CASE ~(i.list = r.list /\ i.id \in DOMAIN r.place)
    <3>1. Put(i) = i
      BY <2>3 DEF Library!Place
    <3> QED
      BY <2>1, <3>1 DEF SameItem
  <2> QED
    BY <2>2, <2>3
<1> HIDE DEF Put
<1>4. Carried(items)
  BY <1>1, <1>3 DEF Carried, SameItem, ItemsKeyed
<1>5. items' \subseteq ItemRow /\ ItemsKeyed' /\ Library(p)!ItemsResolve'
  <2>1. \A i \in items : i.list \in lists' /\ i.media \in {n.id : n \in media'}
    BY <1>1 DEF Library!ItemsResolve, Library!MediaIds
  <2> QED
    BY <1>1, <1>4, <2>1, ItemsCarried
<1>6. LibraryAsked(p)'
  <2>1. RequestGoes(p)
    BY <1>1 DEF RequestGoes, MayHold, Library!Idle
  <2>2. nextItem' \in Nat /\ nextItem' >= nextItem
    BY <1>1, <1>2
  <2> QED
    BY <2>1, <2>2, AskedNext
<1>7. LibraryTyped(p)' /\ Library(p)!OneRowPerContent'
  BY <1>1, <1>5 DEF LibraryTyped, Library!OneRowPerContent, MediaRow, FilesOf, ItemRow
<1>8. Library(p)!OrderKeptStep
  <2> SUFFICES ASSUME NEW i \in items, NEW j \in items, NEW a \in items', NEW b \in items',
                      i.id = a.id, j.id = b.id, i.list = j.list, Library(p)!Before(i, j), Library(p)!Before(b, a)
               PROVE  i.list = r.list
    BY <1>1 DEF Library!OrderKeptStep
  <2>1. a = Put(i) /\ b = Put(j)
    BY <1>1, <1>3 DEF SameItem, ItemsKeyed
  <2>2. \A x \in items : x.id \in Int /\ x.pos \in Int
    BY DEF LibraryTyped, ItemRow
  <2>3. SUFFICES ASSUME a = i, b = j PROVE FALSE
    BY <1>3, <2>1
  <2> QED
    BY <2>2, <2>3 DEF Library!Before
<1> QED
  BY <1>5, <1>6, <1>7, <1>8

LEMMA LibraryStep ==
  ASSUME NEW p \in LibraryParts, LibrarySound(p), Library(p)!Next
  PROVE  LibrarySound(p)' /\ Library(p)!OrderKeptStep
<1> USE DEF Library!Next
<1>1. ASSUME NEW w \in Workers,
             \/ Library(p)!UploadStore(w) \/ Library(p)!UploadFails(w) \/ Library(p)!DeleteRow(w)
             \/ Library(p)!DeleteFile(w) \/ Library(p)!ReorderWrite(w)
             \/ \E f \in FilesOf(p) : Library(p)!UploadProbe(w, f)
             \/ \E m \in media : Library(p)!DeleteRead(w, m)
             \/ \E l \in Lists : Library(p)!ReorderRead(w, l)
      PROVE  LibrarySound(p)' /\ Library(p)!OrderKeptStep
  <2>1. CASE Library(p)!UploadStore(w)
    BY <2>1, UploadStored
  <2>2. CASE Library(p)!DeleteRow(w)
    BY <2>2, RowDeleted
  <2>3. CASE Library(p)!ReorderWrite(w)
    BY <2>3, ItemsReordered
  <2> QED
    BY <1>1, <2>1, <2>2, <2>3, RequestsMove
<1>2. ASSUME NEW l \in Lists,
             Library(p)!CreateList(l) \/ Library(p)!DeleteList(l) \/ \E m \in Library(p)!MediaIds : Library(p)!AddItem(l, m)
      PROVE  LibrarySound(p)' /\ Library(p)!OrderKeptStep
  BY <1>2, ListsMove, ItemAdded
<1>3. ASSUME NEW i \in items, Library(p)!RemoveItem(i)
      PROVE  LibrarySound(p)' /\ Library(p)!OrderKeptStep
  BY <1>3, ItemRemoved
<1> QED
  BY <1>1, <1>2, <1>3 DEF FilesOf

LEMMA LibraryHolds ==
  ASSUME NEW p \in LibraryParts, LibrarySound(p)
  PROVE  Library(p)!TypeOK /\ Library(p)!OneRowPerContent /\ Library(p)!ItemsResolve
BY DEF LibrarySound, LibraryTyped, MediaRow, ItemRow, FilesOf, Library!TypeOK

LEMMA LibraryStill ==
  ASSUME NEW p \in LibraryParts, LibrarySound(p), UNCHANGED <<lists, req, content>>
  PROVE  LibrarySound(p)' /\ Library(p)!OrderKeptStep
<1> USE DEF LibrarySound, content
<1>1. LibrarySound(p)'
  BY DEF LibraryTyped, MediaRow, ItemRow, FilesOf, ItemsKeyed, LibraryAsked, Library!OneRowPerContent, Library!ItemsResolve, Library!MediaIds
<1>2. Library(p)!OrderKeptStep
  BY OrderStays
<1> QED
  BY <1>1, <1>2

----------------------------------------------------------------------------
(* LanReceive.                                                               *)
Upload == [token : {"none", "token", "badToken"}, files : 0..1, inFile : BOOLEAN, size : Nat, pending : Nat,
           ended : BOOLEAN, error : BOOLEAN]

ReceiveTyped ==
  /\ body \in Bodies /\ mode \in Receive!Modes /\ at \in 0..Len(body) /\ parsing \in BOOLEAN /\ checked \in BOOLEAN
  /\ recv \in Upload /\ written \in Nat /\ result \in {"none", "refused", "stored"}

\* What has arrived, as the receiver counts it: a refused block is counted and not kept.
Tallied ==
  /\ recv.size <= at /\ written + recv.pending <= recv.size
  /\ recv.files = 0 => recv.pending = 0 /\ ~recv.inFile
  /\ recv.ended => Receive!Received("end") # {}
  /\ recv.token = "token" => Receive!Received("token") # {}
  /\ ~recv.error =>
       /\ recv.size = Cardinality(Receive!Received("data")) /\ recv.size <= MaxBytes
       /\ written + recv.pending = recv.size
       /\ recv.files = Cardinality(Receive!Received("file")) /\ Receive!Received("badFile") = {}
       /\ at > 0 /\ body[at] \in {"file", "data"} => recv.inFile

\* Between chunks nothing is left to refuse.
Looked == ~parsing /\ result = "none" => ~recv.error /\ (checked \/ (recv.token = "none" /\ recv.files = 0))

TokenSeen == mode = "form" => IF checked THEN Receive!Received("token") # {} ELSE written = 0

ReceiveSound == ReceiveTyped /\ Tallied /\ Looked /\ TokenSeen /\ Receive!StoredIsWhole

LEMMA ReceiveCardinality == \A S : Receive!Cardinality(S) = Cardinality(S)
BY DEF Receive!Cardinality, Cardinality

LEMMA Rewritten ==
  ASSUME NEW r \in Upload
  PROVE  /\ \A t \in {"none", "token", "badToken"} : [r EXCEPT !.token = t, !.inFile = FALSE] \in Upload
         /\ [r EXCEPT !.files = 1, !.inFile = TRUE] \in Upload
         /\ [r EXCEPT !.error = TRUE, !.files = 1] \in Upload
         /\ [r EXCEPT !.ended = TRUE] \in Upload
         /\ \A n, m \in Nat : /\ [r EXCEPT !.size = n, !.error = TRUE] \in Upload
                             /\ [r EXCEPT !.size = n, !.pending = m] \in Upload
                             /\ [r EXCEPT !.pending = m] \in Upload
<1>1. TRUE \in BOOLEAN /\ FALSE \in BOOLEAN /\ 1 \in 0..1
  OBVIOUS
<1> QED
  BY <1>1, Zenon DEF Upload

LEMMA ParsedIs ==
  ASSUME NEW r \in Upload, NEW e \in Receive!Events
  PROVE  LET q == Receive!Parsed(r, e)
         IN  /\ q \in Upload
             /\ r.error => q = r
             /\ ~r.error /\ e \in {"token", "badToken"} =>
                  /\ q.token = "token" => e = "token"
                  /\ ~q.inFile /\ ~q.error /\ q.files = r.files /\ q.size = r.size /\ q.pending = r.pending /\ q.ended = r.ended
             /\ ~r.error /\ e = "file" /\ r.files = 0 =>
                  /\ q.files = 1 /\ q.inFile
                  /\ ~q.error /\ q.token = r.token /\ q.size = r.size /\ q.pending = r.pending /\ q.ended = r.ended
             /\ ~r.error /\ (e = "badFile" \/ (e = "file" /\ r.files # 0)) =>
                  q.error /\ q.files = 1 /\ q.token = r.token /\ q.size = r.size /\ q.pending = r.pending /\ q.ended = r.ended
             /\ ~r.error /\ e = "data" /\ ~r.inFile => q = r
             /\ ~r.error /\ e = "data" /\ r.inFile =>
                  /\ q.size = r.size + 1 /\ q.token = r.token /\ q.files = r.files /\ q.ended = r.ended /\ q.inFile
                  /\ \/ q.error /\ q.pending = r.pending
                     \/ ~q.error /\ q.size <= MaxBytes /\ q.pending = r.pending + 1
             /\ ~r.error /\ e = "end" =>
                  /\ q.ended /\ (q.inFile <=> r.inFile)
                  /\ ~q.error /\ q.token = r.token /\ q.size = r.size /\ q.pending = r.pending /\ q.files = r.files
<1> DEFINE q == Receive!Parsed(r, e)
<1>1. CASE r.error
  <2>1. q = r
    BY <1>1, Zenon DEF Receive!Parsed
  <2> QED
    BY <1>1, <2>1
<1>2. CASE ~r.error /\ e \in {"token", "badToken"}
  <2> DEFINE t == IF r.token = "none" THEN e ELSE "badToken"
  <2>1. q = [r EXCEPT !.token = t, !.inFile = FALSE]
    BY <1>2 DEF Receive!Parsed
  <2>2. t \in {"none", "token", "badToken"} /\ (t = "token" => e = "token")
    BY <1>2
  <2> HIDE DEF t
  <2>3. q \in Upload
    BY <2>1, <2>2, Rewritten
  <2> QED
    BY <1>2, <2>1, <2>2, <2>3 DEF Upload
<1>3. CASE ~r.error /\ e = "file" /\ r.files = 0
  <2>1. q = [r EXCEPT !.files = 1, !.inFile = TRUE]
    BY <1>3 DEF Receive!Parsed, Upload
  <2>2. q \in Upload
    BY <2>1, Rewritten
  <2> QED
    BY <1>3, <2>1, <2>2 DEF Upload
<1>4. CASE ~r.error /\ (e = "badFile" \/ (e = "file" /\ r.files # 0))
  <2>1. q = [r EXCEPT !.error = TRUE, !.files = 1]
    BY <1>4 DEF Receive!Parsed, Upload
  <2>2. q \in Upload
    BY <2>1, Rewritten
  <2> QED
    BY <1>4, <2>1, <2>2 DEF Upload
<1>5. CASE ~r.error /\ e = "data" /\ ~r.inFile
  <2>1. q = r
    BY <1>5 DEF Receive!Parsed, Receive!Block
  <2> QED
    BY <1>5, <2>1
<1>6. CASE ~r.error /\ e = "data" /\ r.inFile
  <2>0. r.size \in Nat /\ r.pending \in Nat /\ r.size + 1 \in Nat /\ r.pending + 1 \in Nat
    BY DEF Upload
  <2>1. CASE r.size + 1 > MaxBytes
    <3>1. q = [r EXCEPT !.size = @ + 1, !.error = TRUE]
      BY <1>6, <2>1 DEF Receive!Parsed, Receive!Block, Receive!TooLarge
    <3>2. q \in Upload
      BY <2>0, <3>1, Rewritten
    <3> QED
      BY <1>6, <3>1, <3>2 DEF Upload
  <2>2. CASE ~(r.size + 1 > MaxBytes)
    <3>1. q = [r EXCEPT !.size = @ + 1, !.pending = @ + 1]
      BY <1>6, <2>2 DEF Receive!Parsed, Receive!Block, Receive!TooLarge
    <3>2. q \in Upload
      <4>1. [r EXCEPT !.size = r.size + 1, !.pending = r.pending + 1] \in Upload
        BY <2>0, Rewritten, Zenon
      <4> QED
        BY <3>1, <4>1
    <3>3. r.size + 1 <= MaxBytes
      BY <2>0, <2>2, ReceiveBounds
    <3> QED
      BY <1>6, <3>1, <3>2, <3>3 DEF Upload
  <2> QED
    BY <2>1, <2>2
<1>7. CASE ~r.error /\ e = "end"
  <2>1. q = [r EXCEPT !.ended = TRUE]
    BY <1>7 DEF Receive!Parsed
  <2>2. q \in Upload
    BY <2>1, Rewritten
  <2> QED
    BY <1>7, <2>1, <2>2 DEF Upload
<1> QED
  BY <1>1, <1>2, <1>3, <1>4, <1>5, <1>6, <1>7 DEF Receive!Events

LEMMA ReceiveInit == Receive!Init => ReceiveSound
<1> SUFFICES ASSUME Receive!Init PROVE ReceiveSound
  OBVIOUS
<1> USE DEF Receive!Init
<1>1. recv \in Upload /\ ~recv.error /\ recv.size = 0 /\ recv.pending = 0 /\ recv.files = 0 /\ ~recv.inFile
      /\ recv.token = "none" /\ ~recv.ended
  BY DEF Receive!New, Upload
<1>2. Len(body) \in Nat
  BY ReceiveBounds
<1>3. ReceiveTyped
  <2>1. checked \in BOOLEAN /\ parsing \in BOOLEAN
    BY Zenon
  <2>2. mode \in Receive!Modes /\ body \in Bodies
    BY Zenon
  <2>3. at \in 0..Len(body) /\ written \in Nat /\ result \in {"none", "refused", "stored"}
    BY <1>2
  <2> QED
    BY <1>1, <2>1, <2>2, <2>3, Zenon DEF ReceiveTyped
<1>4. \A e : Receive!Received(e) = {}
  BY DEF Receive!Received
<1>5. Cardinality({}) = 0
  BY FS_EmptySet
<1>6. Tallied
  <2>1. at = 0 /\ written = 0 /\ MaxBytes \in Nat /\ at \in Nat
    BY ReceiveBounds
  <2>2. /\ Cardinality(Receive!Received("data")) = 0 /\ Cardinality(Receive!Received("file")) = 0
        /\ Receive!Received("badFile") = {}
    BY <1>4, <1>5
  <2> HIDE DEF Receive!Init
  <2> QED
    BY <1>1, <2>1, <2>2 DEF Tallied
<1>7. Looked /\ TokenSeen /\ Receive!StoredIsWhole
  BY <1>1 DEF Looked, TokenSeen, Receive!StoredIsWhole
<1> QED
  BY <1>3, <1>6, <1>7 DEF ReceiveSound

\* One more event has arrived.
LEMMA OneMore ==
  ASSUME ReceiveTyped, at < Len(body), at' = at + 1, body' = body, NEW e
  PROVE  LET d == Receive!Received(e) IN
         /\ IsFiniteSet(d) /\ Cardinality(d) \in Nat
         /\ body[at + 1] = e => Receive!Received(e)' # {} /\ Cardinality(Receive!Received(e)') = Cardinality(d) + 1
         /\ body[at + 1] # e => Receive!Received(e)' = d
         /\ d # {} => Receive!Received(e)' # {}
<1> DEFINE d == Receive!Received(e)
<1>1. at \in Nat
  BY ReceiveBounds DEF ReceiveTyped
<1>2. d \in SUBSET (1..at) /\ IsFiniteSet(1..at)
  BY <1>1, FS_Interval DEF Receive!Received
<1>3. IsFiniteSet(d) /\ Cardinality(d) \in Nat
  BY <1>2, FS_Subset, FS_CardinalityType
<1>4. CASE body[at + 1] = e
  <2>1. Receive!Received(e)' = d \cup {at + 1} /\ at + 1 \notin d
    BY <1>1, <1>4 DEF Receive!Received
  <2>2. Cardinality(d \cup {at + 1}) = Cardinality(d) + 1
    BY <1>3, <2>1, FS_AddElement
  <2> QED
    BY <1>3, <1>4, <2>1, <2>2
<1>5. CASE body[at + 1] # e
  <2>1. Receive!Received(e)' = d
    BY <1>1, <1>5 DEF Receive!Received
  <2> QED
    BY <1>3, <1>5, <2>1
<1> QED
  BY <1>4, <1>5

LEMMA ReceiveFeeds ==
  ASSUME ReceiveSound, Receive!Feed
  PROVE  ReceiveSound'
<1> USE DEF ReceiveSound
<1> DEFINE e == body[at + 1]
<1>1. /\ UNCHANGED <<body, mode, checked, written, tmp, result>> /\ result = "none" /\ at < Len(body) /\ at' = at + 1
      /\ recv' = Receive!Parsed(recv, e) /\ parsing' = TRUE
  BY DEF Receive!Feed
<1>2. body \in Seq(Receive!Events) /\ Len(body) \in Nat /\ at \in Nat /\ at + 1 \in 1..Len(body) /\ e \in Receive!Events
  BY <1>1, ReceiveBounds DEF ReceiveTyped
<1>3. e = "data" => at > 0 /\ body[at] \in {"file", "badFile", "data"}
  BY <1>2, ReceiveBounds DEF ReceiveTyped, Receive!InFile
<1>4. /\ recv' \in Upload
      /\ recv.error => recv' = recv
      /\ ~recv.error /\ e \in {"token", "badToken"} =>
           /\ recv'.token = "token" => e = "token"
           /\ ~recv'.inFile /\ ~recv'.error /\ recv'.files = recv.files /\ recv'.size = recv.size
           /\ recv'.pending = recv.pending /\ recv'.ended = recv.ended
      /\ ~recv.error /\ e = "file" /\ recv.files = 0 =>
           /\ recv'.files = 1 /\ recv'.inFile /\ ~recv'.error /\ recv'.token = recv.token
           /\ recv'.size = recv.size /\ recv'.pending = recv.pending /\ recv'.ended = recv.ended
      /\ ~recv.error /\ (e = "badFile" \/ (e = "file" /\ recv.files # 0)) =>
           /\ recv'.error /\ recv'.files = 1 /\ recv'.token = recv.token /\ recv'.size = recv.size
           /\ recv'.pending = recv.pending /\ recv'.ended = recv.ended
      /\ ~recv.error /\ e = "data" /\ ~recv.inFile => recv' = recv
      /\ ~recv.error /\ e = "data" /\ recv.inFile =>
           /\ recv'.size = recv.size + 1 /\ recv'.token = recv.token /\ recv'.files = recv.files
           /\ recv'.ended = recv.ended /\ recv'.inFile
           /\ \/ recv'.error /\ recv'.pending = recv.pending
              \/ ~recv'.error /\ recv'.size <= MaxBytes /\ recv'.pending = recv.pending + 1
      /\ ~recv.error /\ e = "end" =>
           /\ recv'.ended /\ (recv'.inFile <=> recv.inFile) /\ ~recv'.error /\ recv'.token = recv.token
           /\ recv'.size = recv.size /\ recv'.pending = recv.pending /\ recv'.files = recv.files
  <2>1. recv \in Upload
    BY DEF ReceiveTyped
  <2> HIDE DEF e
  <2> QED
    BY <1>1, <1>2, <2>1, ParsedIs
<1>5. \A x : LET d == Receive!Received(x) IN
         /\ IsFiniteSet(d) /\ Cardinality(d) \in Nat
         /\ e = x => Receive!Received(x)' # {} /\ Cardinality(Receive!Received(x)') = Cardinality(d) + 1
         /\ e # x => Receive!Received(x)' = d
         /\ d # {} => Receive!Received(x)' # {}
  BY <1>1, OneMore
<1>6. /\ written \in Nat /\ recv.size \in Nat /\ recv.pending \in Nat /\ recv.files \in 0..1
      /\ recv'.size \in Nat /\ recv'.pending \in Nat /\ recv'.files \in 0..1 /\ MaxBytes \in Nat
  BY <1>4, ReceiveBounds DEF ReceiveTyped, Upload
<1> HIDE DEF e
<1>7. ReceiveTyped'
  BY <1>1, <1>2, <1>4 DEF ReceiveTyped
<1>8. /\ recv'.size <= at' /\ written' + recv'.pending <= recv'.size
      /\ recv'.files = 0 => recv'.pending = 0 /\ ~recv'.inFile
  <2>1. CASE recv.error \/ (e = "data" /\ ~recv.inFile)
    BY <1>1, <1>2, <1>4, <1>6, <2>1 DEF Tallied
  <2>2. CASE ~recv.error /\ e = "data" /\ recv.inFile
    <3>1. /\ recv'.size = recv.size + 1 /\ recv'.files = recv.files
          /\ recv'.pending = recv.pending \/ recv'.pending = recv.pending + 1
      BY <1>4, <2>2, Zenon
    <3>2. recv.files # 0 /\ recv.size <= at /\ written + recv.pending <= recv.size
      BY <2>2 DEF Tallied
    <3>3. written' = written /\ at' = at + 1 /\ at \in Nat
      BY <1>1, <1>2
    <3>4. recv'.size <= at' /\ written' + recv'.pending <= recv'.size
      BY <1>6, <3>1, <3>2, <3>3
    <3> QED
      BY <3>1, <3>2, <3>4
  <2>3. CASE ~recv.error /\ e \in {"file", "badFile"}
    BY <1>1, <1>2, <1>4, <1>6, <2>3 DEF Tallied
  <2>4. CASE ~recv.error /\ e \in {"token", "badToken", "end"}
    BY <1>1, <1>2, <1>4, <1>6, <2>4 DEF Tallied
  <2> QED
    BY <1>2, <2>1, <2>2, <2>3, <2>4 DEF Receive!Events
<1>9. recv'.ended => Receive!Received("end")' # {}
  BY <1>1, <1>2, <1>4, <1>5 DEF Tallied, Receive!Events
<1>10. recv'.token = "token" => Receive!Received("token")' # {}
  BY <1>1, <1>2, <1>4, <1>5 DEF Tallied, Receive!Events
<1>11. ASSUME ~recv'.error
       PROVE  /\ recv'.size = Cardinality(Receive!Received("data")') /\ recv'.size <= MaxBytes
              /\ written' + recv'.pending = recv'.size
              /\ recv'.files = Cardinality(Receive!Received("file")') /\ Receive!Received("badFile")' = {}
              /\ at' > 0 /\ body'[at'] \in {"file", "data"} => recv'.inFile
  <2>1. ~recv.error
    BY <1>4, <1>11
  <2>2. e \in {"file", "data"} <=> body'[at'] \in {"file", "data"}
    BY <1>1 DEF e
  <2>3. e = "data" => recv.inFile
    <3>1. CASE e = "data" /\ body[at] = "badFile"
      <4>1. at \in Receive!Received("badFile")
        BY <1>2, <1>3, <3>1 DEF Receive!Received
      <4> QED
        BY <2>1, <4>1 DEF Tallied
    <3> QED
      BY <1>3, <2>1, <3>1 DEF Tallied
  <2>4. CASE e \in {"token", "badToken", "end"}
    BY <1>1, <1>4, <1>5, <1>6, <2>1, <2>2, <2>4 DEF Tallied
  <2>5. CASE e = "file"
    BY <1>1, <1>4, <1>5, <1>6, <1>11, <2>1, <2>2, <2>5 DEF Tallied
  <2>6. CASE e = "badFile"
    BY <1>4, <1>11, <2>1, <2>6
  <2>7. CASE e = "data"
    <3>1. /\ recv'.size = recv.size + 1 /\ recv'.files = recv.files /\ recv'.inFile
          /\ recv'.size <= MaxBytes /\ recv'.pending = recv.pending + 1
      BY <1>4, <1>11, <2>1, <2>3, <2>7, Zenon
    <3>2. /\ Cardinality(Receive!Received("data")') = Cardinality(Receive!Received("data")) + 1
          /\ Receive!Received("file")' = Receive!Received("file")
          /\ Receive!Received("badFile")' = Receive!Received("badFile")
      BY <1>5, <2>7
    <3>3. /\ recv.size = Cardinality(Receive!Received("data")) /\ written + recv.pending = recv.size
          /\ recv.files = Cardinality(Receive!Received("file")) /\ Receive!Received("badFile") = {}
      BY <2>1 DEF Tallied
    <3> QED
      BY <1>1, <1>6, <3>1, <3>2, <3>3
  <2> QED
    BY <1>2, <2>4, <2>5, <2>6, <2>7 DEF Receive!Events
<1>12. Tallied'
  BY <1>8, <1>9, <1>10, <1>11 DEF Tallied
<1>13. Looked' /\ TokenSeen' /\ Receive!StoredIsWhole'
  BY <1>1, <1>5 DEF Looked, TokenSeen, Receive!StoredIsWhole
<1> QED
  BY <1>7, <1>12, <1>13

LEMMA ReceiveLooks ==
  ASSUME ReceiveSound, Receive!EndChunk
  PROVE  ReceiveSound'
<1> USE DEF ReceiveSound
<1>1. UNCHANGED <<body, mode, at>> /\ parsing' = FALSE /\ result = "none" /\ \A e : Receive!Received(e)' = Receive!Received(e)
  BY DEF Receive!EndChunk, Receive!Received
<1>2. /\ written \in Nat /\ recv \in Upload /\ recv.size \in Nat /\ recv.pending \in Nat /\ recv.files \in 0..1
  BY DEF ReceiveTyped, Upload
<1>3. CASE Receive!Refused /\ Receive!Close("refused") /\ UNCHANGED <<recv, checked, written>>
  BY <1>1, <1>3 DEF Receive!Close, ReceiveTyped, Tallied, Looked, TokenSeen, Receive!StoredIsWhole
<1>4. CASE /\ ~Receive!Refused /\ checked' = (checked \/ recv.token = "token") /\ UNCHANGED result
           /\ \/ UNCHANGED <<recv, written>>
              \/ Receive!Flush
  <2>1. /\ written' \in Nat /\ written' + recv'.pending = written + recv.pending /\ recv' \in Upload
        /\ recv'.pending \in {recv.pending, 0} /\ recv'.size = recv.size /\ recv'.files = recv.files /\ recv'.token = recv.token
        /\ (recv'.inFile <=> recv.inFile) /\ (recv'.ended <=> recv.ended) /\ (recv'.error <=> recv.error)
        /\ written' = written \/ written' = written + recv.pending
    <3>1. CASE UNCHANGED <<recv, written>>
      BY <1>2, <3>1
    <3>2. CASE Receive!Flush
      <4>1. recv' \in Upload
        <5>1. [recv EXCEPT !.pending = 0] \in Upload
          BY <1>2, Rewritten, Zenon
        <5> QED
          BY <3>2, <5>1 DEF Receive!Flush
      <4> QED
        BY <1>2, <3>2, <4>1 DEF Receive!Flush, Upload
    <3> QED
      BY <1>4, <3>1, <3>2
  <2>2. ReceiveTyped'
    BY <1>1, <1>4, <2>1 DEF ReceiveTyped
  <2>3. Tallied'
    BY <1>1, <1>2, <2>1 DEF Tallied
  <2>4. ~recv.error /\ (checked' \/ (recv.token = "none" /\ recv.files = 0))
    <3>1. /\ ~recv.error
          /\ checked \/ (recv.token # "badToken" /\ (recv.token = "none" => ~(recv.files > 0)))
      BY <1>4 DEF Receive!Refused
    <3>2. recv.token \in {"none", "token", "badToken"} /\ (recv.files > 0 \/ recv.files = 0)
      BY <1>2 DEF Upload
    <3> QED
      BY <1>4, <3>1, <3>2
  <2>5. Looked'
    BY <2>1, <2>4 DEF Looked
  <2>6. TokenSeen'
    BY <1>1, <1>2, <1>4, <2>1, <2>4 DEF TokenSeen, Tallied, ReceiveTyped
  <2>7. Receive!StoredIsWhole'
    BY <1>1, <1>4 DEF Receive!StoredIsWhole
  <2> QED
    BY <2>2, <2>3, <2>5, <2>6, <2>7
<1> QED
  BY <1>3, <1>4 DEF Receive!EndChunk

LEMMA ReceiveEnds ==
  ASSUME ReceiveSound, Receive!Finish
  PROVE  ReceiveSound'
<1> USE DEF ReceiveSound
<1>1. /\ UNCHANGED <<body, mode, at, parsing, checked>> /\ ~parsing /\ result = "none"
      /\ \A e : Receive!Received(e)' = Receive!Received(e)
  BY DEF Receive!Finish, Receive!Received
<1>2. /\ written \in Nat /\ recv \in Upload /\ recv.size \in Nat /\ recv.pending \in Nat /\ recv.files \in 0..1
  BY DEF ReceiveTyped, Upload
<1>3. /\ written' = written + recv.pending /\ recv' \in Upload
      /\ recv'.pending = 0 /\ recv'.size = recv.size /\ recv'.files = recv.files /\ recv'.token = recv.token
      /\ (recv'.inFile <=> recv.inFile) /\ (recv'.ended <=> recv.ended) /\ (recv'.error <=> recv.error)
  <2>1. recv' = [recv EXCEPT !.pending = 0] /\ written' = written + recv.pending
    BY DEF Receive!Finish, Receive!Flush
  <2>2. recv' \in Upload
    <3>1. [recv EXCEPT !.pending = 0] \in Upload
      BY <1>2, Rewritten, Zenon
    <3> QED
      BY <2>1, <3>1
  <2> QED
    BY <1>2, <2>1, <2>2 DEF Upload
<1>4. result' \in {"stored", "refused"} /\ (result' = "stored" => checked /\ Receive!Complete)
  BY DEF Receive!Finish, Receive!Close
<1>5. ReceiveTyped'
  BY <1>1, <1>2, <1>3, <1>4 DEF ReceiveTyped
<1>6. Tallied'
  BY <1>1, <1>2, <1>3 DEF Tallied
<1>7. Looked'
  BY <1>4 DEF Looked
<1>8. TokenSeen'
  BY <1>1, <1>2, <1>3 DEF TokenSeen, Looked, Tallied, ReceiveTyped
<1>9. Receive!StoredIsWhole'
  <2> SUFFICES ASSUME result' = "stored"
               PROVE  /\ Receive!Received("end") # {} /\ Receive!Received("badFile") = {}
                      /\ Cardinality(Receive!Received("file")) = 1
                      /\ written' = Cardinality(Receive!Received("data")) /\ written' \in 1..MaxBytes
    BY <1>1, ReceiveCardinality DEF Receive!StoredIsWhole
  <2> QED
    <3>1. ~recv.error /\ recv.ended /\ recv.files > 0 /\ recv.size > 0
      BY <1>1, <1>4 DEF Looked, Receive!Complete
    <3>2. /\ recv.size = Cardinality(Receive!Received("data")) /\ recv.size <= MaxBytes
          /\ written + recv.pending = recv.size
          /\ recv.files = Cardinality(Receive!Received("file")) /\ Receive!Received("badFile") = {}
          /\ Receive!Received("end") # {}
      BY <3>1 DEF Tallied
    <3> QED
      BY <1>2, <1>3, <3>1, <3>2, ReceiveBounds
<1> QED
  BY <1>5, <1>6, <1>7, <1>8, <1>9

LEMMA ReceiveStep ==
  ASSUME ReceiveSound, Receive!Next
  PROVE  ReceiveSound'
BY ReceiveFeeds, ReceiveLooks, ReceiveEnds DEF Receive!Next

LEMMA ReceiveHolds ==
  ASSUME ReceiveSound
  PROVE  Receive!TypeOK /\ Receive!BytesNeedToken /\ Receive!StoredIsWhole
<1> USE DEF ReceiveSound
<1>1. /\ written \in Nat /\ recv.size \in Nat /\ recv.pending \in Nat /\ recv.token \in {"none", "token", "badToken"} /\ at \in Nat
  BY ReceiveBounds DEF ReceiveTyped, Upload
<1>2. Receive!TypeOK
  BY <1>1 DEF Receive!TypeOK, ReceiveTyped, Tallied
<1>3. Receive!BytesNeedToken
  BY <1>1 DEF Receive!BytesNeedToken, TokenSeen
<1> QED
  BY <1>2, <1>3

LEMMA ReceiveStill ==
  ASSUME ReceiveSound, UNCHANGED receive
  PROVE  ReceiveSound'
<1>1. \A e : Receive!Received(e)' = Receive!Received(e)
  BY DEF receive, Receive!Received
<1> QED
  BY <1>1 DEF receive, ReceiveSound, ReceiveTyped, Upload, Tallied, Looked, TokenSeen, Receive!StoredIsWhole

----------------------------------------------------------------------------
(* Schedules: a moment is a minute of a day.                                 *)
TimesSound ==
  /\ rules \in RuleSets /\ fallback \in Fallbacks
  /\ now \in Times!At(1, 0)..Times!At(LastDay + 1, 0)

LEMMA Product ==
  ASSUME NEW a \in Int, NEW b \in Int, NEW n \in Int
  PROVE  a * n \in Int /\ (a + b) * n = a * n + b * n /\ (0 <= n /\ a <= b => a * n <= b * n)
OBVIOUS

LEMMA Moment ==
  ASSUME NEW t \in Int
  PROVE  /\ DayLength \in Int /\ DayLength > 0
         /\ Times!DayOf(t) \in Int /\ Times!Minute(t) \in 0..DayLength - 1
         /\ t = Times!DayOf(t) * DayLength + Times!Minute(t)
<1> DEFINE n == DayLength
<1>1. n \in Int /\ n > 0
  BY ScheduleBounds
<1> HIDE DEF n
<1>2. t \div n \in Int /\ t % n \in 0..n - 1
  BY <1>1
<1>3. t = (t \div n) * n + (t % n)
  BY <1>1, <1>2, Z3T(20)
<1> QED
  BY <1>1, <1>2, <1>3 DEF n, Times!DayOf, Times!Minute

LEMMA MomentAt ==
  ASSUME NEW d \in Int, NEW m \in 0..DayLength - 1
  PROVE  /\ Times!At(d, m) \in Int /\ Times!At(d, m) = d * DayLength + m
         /\ Times!DayOf(Times!At(d, m)) = d /\ Times!Minute(Times!At(d, m)) = m
<1> DEFINE n == DayLength
<1>1. n \in Int /\ n > 0 /\ m \in Int /\ 0 <= m /\ m < n
  BY ScheduleBounds
<1> HIDE DEF n
<1>2. (d * n + m) \div n = d
  BY <1>1, SMTT(20)
<1>3. (d * n + m) % n = m
  BY <1>1, SMTT(20)
<1>4. d * n + m \in Int
  BY <1>1
<1> QED
  BY <1>2, <1>3, <1>4 DEF n, Times!DayOf, Times!Minute, Times!At

LEMMA TimesInit ==
  ASSUME Times!Init
  PROVE  TimesSound
<1>1. DayLength \in Nat /\ LastDay \in Nat /\ 1 <= LastDay + 1 /\ LastDay + 1 \in Int /\ 1 \in Int
  BY ScheduleBounds
<1>2. 1 * DayLength \in Int /\ (LastDay + 1) * DayLength \in Int /\ 1 * DayLength <= (LastDay + 1) * DayLength
  BY <1>1, Product
<1> QED
  BY <1>2 DEF Times!Init, TimesSound, Times!At

LEMMA TimesStep ==
  ASSUME TimesSound, Times!Next
  PROVE  TimesSound'
<1>1. DayLength \in Nat /\ LastDay \in Nat
  BY ScheduleBounds
<1>2. LastDay * DayLength \in Int /\ (LastDay + 1) * DayLength = LastDay * DayLength + DayLength /\ 1 * DayLength \in Int
  <2>1. 1 * DayLength = DayLength
    BY <1>1
  <2> QED
    BY <1>1, <2>1, Product
<1> QED
  BY <1>1, <1>2 DEF Times!Next, Times!Tick, TimesSound, Times!At

\* A rule that a form accepts.
RuleIs(r) ==
  /\ r.id \in Int /\ r.prio \in Int /\ r.list # NULL
  /\ r.start \in 0..DayLength - 1 \cup {NULL} /\ r.end \in 0..DayLength - 1 \cup {NULL}
  /\ r.start # NULL => r.start # r.end

LEMMA RulesAre ==
  ASSUME TimesSound
  PROVE  /\ IsFiniteSet(rules) /\ NULL \notin rules /\ (\A r, q \in rules : r.id = q.id => r = q)
         /\ \A r \in rules : RuleIs(r)
<1>1. rules \in RuleSets
  BY DEF TimesSound
<1>2. IsFiniteSet(rules) /\ NULL \notin rules /\ \A r, q \in rules : r.id = q.id => r = q
  BY <1>1, ScheduleBounds
<1>3. ASSUME NEW r \in rules PROVE RuleIs(r)
  BY <1>1, ScheduleBounds DEF RuleIs
<1> QED
  BY <1>2, <1>3

\* Where a rule's window begins and ends.
EndOf(r) == IF r.end = NULL THEN DayLength ELSE r.end

LEMMA BoundsOf ==
  ASSUME NEW r, RuleIs(r)
  PROVE  /\ Times!StartOf(r) \in 0..DayLength - 1 /\ EndOf(r) \in 0..DayLength /\ Times!StartOf(r) \in Int /\ EndOf(r) \in Int
         /\ DayLength \in Int /\ DayLength > 0
BY ScheduleBounds DEF Times!StartOf, EndOf, RuleIs

LEMMA WindowIs ==
  ASSUME NEW r, RuleIs(r), NEW d \in Int, NEW x \in Int, x = d * DayLength
  PROVE  Times!Window(r, d) = x + Times!StartOf(r)..(IF EndOf(r) < Times!StartOf(r) THEN x + DayLength ELSE x) + EndOf(r) - 1
<1>1. (d + 1) * DayLength = x + DayLength
  <2>1. 1 * DayLength = DayLength /\ DayLength \in Int
    BY ScheduleBounds
  <2> QED
    BY <2>1, Product
<1> DEFINE s == Times!StartOf(r)
           e == EndOf(r)
<1>2. Times!Window(r, d) = Times!At(d, s)..Times!At(IF e < s THEN d + 1 ELSE d, e) - 1
  BY DEF Times!Window, Times!StartOf, EndOf
<1>3. s \in Int /\ e \in Int /\ DayLength \in Int
  BY BoundsOf
<1> HIDE DEF s, e
<1>4. Times!At(d, s) = x + s /\ Times!At(d, e) = x + e /\ Times!At(d + 1, e) = x + DayLength + e
  BY <1>1, <1>3 DEF Times!At
<1>5. CASE e < s
  BY <1>2, <1>3, <1>4, <1>5 DEF s, e
<1>6. CASE ~(e < s)
  BY <1>2, <1>3, <1>4, <1>6 DEF s, e
<1> QED
  BY <1>5, <1>6

\* A rule matches in the windows of its days.
LEMMA MatchesOn ==
  ASSUME NEW r, RuleIs(r), NEW t \in Int
  PROVE  Times!ScheduleMatches(r, t) <=> Times!On(r, t)
<1> DEFINE d == Times!DayOf(t)
           m == Times!Minute(t)
           s == Times!StartOf(r)
           e == EndOf(r)
           x == d * DayLength
           y == (d - 1) * DayLength
<1>1. d \in Int /\ m \in 0..DayLength - 1 /\ x \in Int /\ t = x + m /\ DayLength \in Int /\ DayLength > 0
  BY Moment, Product
<1>2. d - 1 \in Int /\ y \in Int /\ y = x - DayLength
  <2>1. d - 1 \in Int /\ 1 * DayLength = DayLength /\ (d - 1) + 1 = d
    BY <1>1
  <2>2. y \in Int /\ ((d - 1) + 1) * DayLength = y + 1 * DayLength
    BY <1>1, <2>1, Product
  <2> QED
    BY <1>1, <2>1, <2>2
<1>3. s \in 0..DayLength - 1 /\ e \in 0..DayLength
  BY BoundsOf
<1>4. /\ Times!Window(r, d) = x + s..(IF e < s THEN x + DayLength ELSE x) + e - 1
      /\ Times!Window(r, d - 1) = y + s..(IF e < s THEN y + DayLength ELSE y) + e - 1
  BY <1>1, <1>2, WindowIs
<1> HIDE DEF d, m, s, e, x, y
<1>5. t \in Times!Window(r, d) <=> (IF e < s THEN m >= s ELSE s <= m /\ m < e)
  BY <1>1, <1>3, <1>4
<1>6. t \in Times!Window(r, d - 1) <=> e < s /\ m < e
  BY <1>1, <1>2, <1>3, <1>4
<1>7. Times!On(r, t) <=>
        \/ Times!DayAllowed(r, d - 1) /\ e < s /\ m < e
        \/ Times!DayAllowed(r, d) /\ (IF e < s THEN m >= s ELSE s <= m /\ m < e)
  <2>1. \A k : k \in d - 1..d <=> k = d - 1 \/ k = d
    BY <1>1
  <2>2. Times!On(r, t) <=> \E k : k \in d - 1..d /\ Times!DayAllowed(r, k) /\ t \in Times!Window(r, k)
    BY DEF Times!On, d
  <2>3. Times!On(r, t) <=>
          \/ Times!DayAllowed(r, d - 1) /\ t \in Times!Window(r, d - 1)
          \/ Times!DayAllowed(r, d) /\ t \in Times!Window(r, d)
    BY <2>1, <2>2
  <2> QED
    BY <1>5, <1>6, <2>3
<1>8. Times!ScheduleMatches(r, t) <=>
        /\ Times!DayAllowed(r, IF r.start # NULL /\ r.end # NULL /\ r.end <= r.start /\ m < r.end THEN d - 1 ELSE d)
        /\ Times!InTimeWindow(m, r.start, r.end)
  BY DEF Times!ScheduleMatches, Times!Anchor, d, m
<1>9. NULL \notin Nat /\ RuleIs(r)
  BY ScheduleBounds
<1>10. CASE r.start = NULL /\ r.end = NULL
  <2>1. s = 0 /\ e = DayLength /\ Times!InTimeWindow(m, r.start, r.end)
    BY <1>10 DEF s, e, Times!StartOf, EndOf, Times!InTimeWindow
  <2> QED
    BY <1>1, <1>7, <1>8, <1>10, <2>1
<1>11. CASE r.start # NULL /\ r.end = NULL
  <2>1. s = r.start /\ e = DayLength /\ (Times!InTimeWindow(m, r.start, r.end) <=> m >= s)
    BY <1>11 DEF s, e, Times!StartOf, EndOf, Times!InTimeWindow
  <2> QED
    BY <1>1, <1>3, <1>7, <1>8, <1>11, <2>1
<1>12. CASE r.start = NULL /\ r.end # NULL
  <2>1. s = 0 /\ e = r.end /\ (Times!InTimeWindow(m, r.start, r.end) <=> m < e)
    BY <1>12 DEF s, e, Times!StartOf, EndOf, Times!InTimeWindow
  <2> QED
    BY <1>1, <1>3, <1>7, <1>8, <1>12, <2>1
<1>13. CASE r.start # NULL /\ r.end # NULL
  <2>1. /\ s = r.start /\ e = r.end /\ s # e
        /\ Times!InTimeWindow(m, r.start, r.end) <=> (IF s <= e THEN s <= m /\ m < e ELSE m >= s \/ m < e)
    BY <1>9, <1>13 DEF s, e, Times!StartOf, EndOf, Times!InTimeWindow, RuleIs
  <2>2. Times!ScheduleMatches(r, t) <=>
          /\ Times!DayAllowed(r, IF e <= s /\ m < e THEN d - 1 ELSE d)
          /\ IF s <= e THEN s <= m /\ m < e ELSE m >= s \/ m < e
    BY <1>8, <1>13, <2>1
  <2>3. CASE e < s /\ m < e
    <3>1. e <= s /\ ~(s <= e) /\ ~(m >= s)
      BY <1>1, <1>3, <2>3
    <3>2. Times!ScheduleMatches(r, t) <=> Times!DayAllowed(r, d - 1)
      BY <2>2, <2>3, <3>1
    <3>3. Times!On(r, t) <=> Times!DayAllowed(r, d - 1)
      BY <1>7, <2>3, <3>1
    <3> QED
      BY <3>2, <3>3
  <2>4. CASE e < s /\ ~(m < e)
    BY <1>1, <1>3, <1>7, <2>1, <2>2, <2>4
  <2>5. CASE s < e
    BY <1>1, <1>3, <1>7, <2>1, <2>2, <2>5
  <2> QED
    BY <1>1, <1>3, <2>1, <2>3, <2>4, <2>5
<1> QED
  BY <1>10, <1>11, <1>12, <1>13

LEMMA DayBefore ==
  ASSUME NEW t \in Int, NEW k \in Int
  PROVE  /\ k * DayLength \in Int /\ (Times!DayOf(t) < k <=> t < k * DayLength)
<1> DEFINE d == Times!DayOf(t)
           x == d * DayLength
           z == k * DayLength
<1>1. /\ d \in Int /\ x \in Int /\ z \in Int /\ DayLength \in Int /\ DayLength > 0
      /\ Times!Minute(t) \in 0..DayLength - 1 /\ t = x + Times!Minute(t)
  BY Moment, Product
<1>2. 1 * DayLength = DayLength /\ (d + 1) * DayLength = x + 1 * DayLength /\ d + 1 \in Int
  BY <1>1, Product
<1>3. d < k => (d + 1) * DayLength <= z
  <2>1. d < k => d + 1 <= k
    BY <1>1
  <2> QED
    BY <1>1, <1>2, <2>1, Product
<1>4. k <= d => z <= x
  BY <1>1, Product
<1> HIDE DEF d, x, z
<1> QED
  BY <1>1, <1>2, <1>3, <1>4 DEF d, z

LEMMA LeastOf ==
  ASSUME NEW a \in Int, NEW b \in Int, a <= b
  PROVE  Times!Min(a..b) = a
<1>1. a \in a..b /\ \A y \in a..b : a <= y
  OBVIOUS
<1>2. \A x \in a..b : (\A y \in a..b : x <= y) => x = a
  BY <1>1
<1> QED
  BY <1>1, <1>2 DEF Times!Min

\* A window opens at its rule's start, and there the rule matches.
LEMMA OpensAtStart ==
  ASSUME NEW r, RuleIs(r), NEW t \in Int
  PROVE  LET d == Times!DayOf(t) IN
         /\ Times!DayAllowed(r, d) /\ Times!Window(r, d) # {} /\ t = Times!Min(Times!Window(r, d))
         <=> /\ Times!ScheduleMatches(r, t) /\ t = Times!At(d, Times!StartOf(r))
<1> DEFINE d == Times!DayOf(t)
           s == Times!StartOf(r)
           e == EndOf(r)
           x == d * DayLength
           y == (d - 1) * DayLength
           h == (IF e < s THEN x + DayLength ELSE x) + e - 1
           g == (IF e < s THEN y + DayLength ELSE y) + e - 1
<1>1. d \in Int /\ x \in Int /\ DayLength \in Int /\ DayLength > 0
  BY Moment, Product
<1>2. d - 1 \in Int /\ y \in Int /\ y = x - DayLength
  <2>1. d - 1 \in Int /\ 1 * DayLength = DayLength /\ (d - 1) + 1 = d
    BY <1>1
  <2>2. y \in Int /\ ((d - 1) + 1) * DayLength = y + 1 * DayLength
    BY <1>1, <2>1, Product
  <2> QED
    BY <1>1, <2>1, <2>2
<1>3. s \in 0..DayLength - 1 /\ e \in 0..DayLength
  BY BoundsOf
<1>4. Times!Window(r, d) = x + s..h /\ Times!Window(r, d - 1) = y + s..g
  BY <1>1, <1>2, WindowIs
<1>5. Times!At(d, s) = x + s
  BY <1>1, <1>3, MomentAt
<1>6. Times!ScheduleMatches(r, t) <=> \E k : k \in d - 1..d /\ Times!DayAllowed(r, k) /\ t \in Times!Window(r, k)
  BY MatchesOn DEF Times!On
<1> HIDE DEF d, s, e, x, y
<1>7. h \in Int /\ g \in Int /\ g < x + s
  BY <1>1, <1>2, <1>3
<1> HIDE DEF h, g
<1>8. ASSUME Times!DayAllowed(r, d), Times!Window(r, d) # {}, t = Times!Min(Times!Window(r, d))
      PROVE  Times!ScheduleMatches(r, t) /\ t = Times!At(d, s)
  <2>1. x + s <= h /\ x + s \in Int
    BY <1>1, <1>3, <1>4, <1>7, <1>8
  <2>2. t = x + s
    BY <1>4, <1>7, <1>8, <2>1, LeastOf
  <2>3. t \in Times!Window(r, d) /\ d \in d - 1..d
    BY <1>1, <1>4, <1>7, <2>1, <2>2
  <2> QED
    BY <1>5, <1>6, <1>8, <2>2, <2>3
<1>9. ASSUME Times!ScheduleMatches(r, t), t = Times!At(d, s)
      PROVE  Times!DayAllowed(r, d) /\ Times!Window(r, d) # {} /\ t = Times!Min(Times!Window(r, d))
  <2>1. PICK k : k \in d - 1..d /\ Times!DayAllowed(r, k) /\ t \in Times!Window(r, k)
    BY <1>6, <1>9
  <2>2. t = x + s /\ ~(t \in Times!Window(r, d - 1))
    BY <1>1, <1>2, <1>3, <1>4, <1>5, <1>7, <1>9
  <2>3. k = d
    BY <1>1, <2>1, <2>2
  <2>4. x + s <= h /\ x + s \in Int
    BY <1>1, <1>3, <1>4, <1>7, <2>1, <2>3
  <2>5. Times!Min(Times!Window(r, d)) = x + s
    BY <1>4, <1>7, <2>4, LeastOf
  <2> QED
    BY <2>1, <2>2, <2>3, <2>5
<1> QED
  BY <1>8, <1>9 DEF d, s

\* What may start within the horizon is what opens within it.
LEMMA StartIsNext ==
  ASSUME TimesSound
  PROVE  Times!AnnouncedStartIsNext
<1> DEFINE Opens(t) == \E r \in rules : \E day \in {Times!DayOf(t)} :
                         /\ Times!DayAllowed(r, day) /\ Times!Window(r, day) # {}
                         /\ t = Times!Min(Times!Window(r, day)) /\ Times!PickActive(t) = r
           soon == {t \in now + 1..Times!At(Times!DayOf(now) + Times!Horizon + 1, 0) - 1 : Opens(t)}
           all == UNION {Times!Starts(r) : r \in rules}
           d == Times!DayOf(now)
<1>1. now \in Int /\ d \in Int /\ Times!Horizon = 7
  <2>1. 1 * DayLength \in Int /\ (LastDay + 1) * DayLength \in Int /\ 1 \in Int /\ LastDay + 1 \in Int
    BY ScheduleBounds, Product
  <2>2. now \in Int
    BY <2>1, ScheduleBounds DEF TimesSound, Times!At
  <2> QED
    BY <2>2, Moment DEF Times!Horizon
<1>2. \A t \in Int : Opens(t) <=> \E r \in rules : /\ Times!ScheduleMatches(r, t) /\ Times!PickActive(t) = r
                                                 /\ t = Times!At(Times!DayOf(t), Times!StartOf(r))
  BY RulesAre, OpensAtStart
<1>3. Times!At(d + Times!Horizon + 1, 0) \in Int
  <2>1. d + 8 \in Int /\ d + Times!Horizon + 1 = d + 8
    BY <1>1
  <2> QED
    BY <2>1, DayBefore DEF Times!At
<1> HIDE DEF d
<1>4. \A t \in Int : now < t => (t < Times!At(d + Times!Horizon + 1, 0) <=> Times!DayOf(t) \in d..d + 7)
  <2>1. ASSUME NEW t \in Int, now < t
        PROVE  t < Times!At(d + Times!Horizon + 1, 0) <=> Times!DayOf(t) \in d..d + 7
    <3>1. d + 8 \in Int /\ d + Times!Horizon + 1 = d + 8 /\ (d + 8) * DayLength \in Int /\ d * DayLength \in Int
      BY <1>1, Product, Moment
    <3>2. Times!At(d + Times!Horizon + 1, 0) = (d + 8) * DayLength
      BY <3>1 DEF Times!At
    <3>3. Times!DayOf(t) \in Int /\ (Times!DayOf(t) < d + 8 <=> t < (d + 8) * DayLength)
      BY <3>1, Moment, DayBefore
    <3>4. ~(Times!DayOf(t) < d)
      <4>1. ~(now < d * DayLength)
        BY <1>1, DayBefore DEF d
      <4> QED
        BY <1>1, <2>1, <3>1, <4>1, DayBefore
    <3> QED
      BY <1>1, <3>1, <3>2, <3>3, <3>4
  <2> QED
    BY <2>1
<1>5. ASSUME NEW t \in soon PROVE t \in all
  <2>1. t \in Int /\ now < t /\ Times!DayOf(t) \in d..d + 7 /\ Opens(t)
    <3>1. t \in now + 1..Times!At(d + Times!Horizon + 1, 0) - 1 /\ Opens(t)
      BY DEF d
    <3>2. t \in Int /\ now < t /\ t < Times!At(d + Times!Horizon + 1, 0)
      BY <1>1, <1>3, <3>1
    <3> QED
      BY <1>4, <3>1, <3>2
  <2>2. PICK r \in rules : /\ Times!ScheduleMatches(r, t) /\ Times!PickActive(t) = r
                           /\ t = Times!At(Times!DayOf(t), Times!StartOf(r))
    BY <1>2, <2>1
  <2>3. \E k \in 0..7 : Times!DayOf(t) = d + k
    <3>1. Times!DayOf(t) - d \in 0..7 /\ Times!DayOf(t) = d + (Times!DayOf(t) - d)
      BY <1>1, <2>1
    <3> QED
      BY <3>1
  <2>4. t \in Times!Starts(r)
    BY <1>1, <2>1, <2>2, <2>3 DEF Times!Starts, d
  <2> QED
    BY <2>4
<1>6. ASSUME NEW t \in all PROVE t \in soon
  <2>1. PICK r \in rules : t \in Times!Starts(r)
    OBVIOUS
  <2>2. PICK k \in 0..7 : /\ t = Times!At(d + k, Times!StartOf(r)) /\ t > now
                          /\ Times!ScheduleMatches(r, t) /\ Times!PickActive(t) = r
    BY <1>1, <2>1 DEF Times!Starts, d
  <2>3. d + k \in Int /\ Times!StartOf(r) \in 0..DayLength - 1
    BY <1>1, RulesAre, BoundsOf
  <2>4. t \in Int /\ Times!DayOf(t) = d + k
    BY <2>2, <2>3, MomentAt
  <2>5. Opens(t)
    BY <1>2, <2>2, <2>4
  <2>6. now < t /\ Times!DayOf(t) \in d..d + 7
    BY <1>1, <2>2, <2>4
  <2>7. t < Times!At(d + Times!Horizon + 1, 0)
    BY <1>4, <2>4, <2>6
  <2>8. t \in now + 1..Times!At(d + Times!Horizon + 1, 0) - 1
    BY <1>1, <1>3, <2>4, <2>6, <2>7
  <2> QED
    BY <2>5, <2>8 DEF d
<1>7. all = soon
  BY <1>5, <1>6
<1> HIDE DEF Opens
<1>8. Times!NextStart = IF all = {} THEN NULL ELSE Times!Min(all)
  BY DEF Times!NextStart
<1> QED
  BY <1>7, <1>8 DEF Times!AnnouncedStartIsNext, Opens

\* The least of a set of naturals.
LEMMA LeastIs ==
  ASSUME NEW S, S \subseteq Nat, S # {}
  PROVE  Times!Min(S) \in S /\ \A y \in S : Times!Min(S) <= y
<1>1. PICK x \in S : \A y \in S : ~(<<y, x>> \in Less)
  BY LessWellFounded, WFMin, Zenon
<1>2. \A a, b \in Nat : a < b => <<a, b>> \in Less
  BY DEF Less
<1>3. ASSUME NEW y \in S PROVE x <= y
  <2>1. x \in Nat /\ y \in Nat /\ ~(y < x)
    BY <1>1, <1>2
  <2> QED
    BY <2>1
<1>4. \E z \in S : \A y \in S : z <= y
  BY <1>3
<1> QED
  BY <1>4 DEF Times!Min

\* Of the rules that match, one is above the others.
LEMMA PickIs ==
  ASSUME TimesSound, NEW t, Times!PickActive(t) # NULL
  PROVE  Times!PickActive(t) \in rules /\ Times!ScheduleMatches(Times!PickActive(t), t)
<1> DEFINE m == {r \in rules : Times!ScheduleMatches(r, t)}
           Higher(r) == {q \in m : Times!Above(q, r)}
           ranks == {Cardinality(Higher(r)) : r \in m}
<1>1. Times!PickActive(t) = (IF m = {} THEN NULL ELSE CHOOSE r \in m : \A q \in m \ {r} : Times!Above(r, q))
  BY DEF Times!PickActive
<1>2. m # {}
  BY <1>1
<1>3. IsFiniteSet(m) /\ (\A r, q \in m : r.id = q.id => r = q) /\ \A r \in m : r.id \in Int /\ r.prio \in Int
  <2>1. m \subseteq rules /\ IsFiniteSet(rules)
    BY RulesAre
  <2> QED
    BY <2>1, RulesAre, FS_Subset DEF RuleIs
<1> HIDE DEF m
<1>4. \A r, q \in m : Times!Above(r, q) => r # q /\ ~Times!Above(q, r)
  BY <1>3 DEF Times!Above
<1>5. \A r, q \in m : r = q \/ Times!Above(r, q) \/ Times!Above(q, r)
  BY <1>3 DEF Times!Above
<1>6. \A r, q, x \in m : Times!Above(r, q) /\ Times!Above(q, x) => Times!Above(r, x)
  BY <1>3 DEF Times!Above
<1>7. \A r : IsFiniteSet(Higher(r)) /\ Cardinality(Higher(r)) \in Nat
  <2>1. \A r : Higher(r) \subseteq m
    OBVIOUS
  <2> QED
    BY <1>3, <2>1, FS_Subset, FS_CardinalityType
<1>8. ranks \subseteq Nat /\ ranks # {}
  BY <1>2, <1>7
<1>9. PICK r \in m : \A q \in m : Cardinality(Higher(r)) <= Cardinality(Higher(q))
  <2>1. PICK k \in ranks : \A y \in ranks : k <= y
    BY <1>8, LeastIs
  <2> QED
    BY <2>1
<1>10. ASSUME NEW q \in m \ {r} PROVE Times!Above(r, q)
  <2>1. SUFFICES ASSUME Times!Above(q, r) PROVE FALSE
    BY <1>5
  <2>2. Higher(q) \subseteq Higher(r) /\ q \in Higher(r) /\ q \notin Higher(q)
    BY <1>4, <1>6, <2>1
  <2>3. Cardinality(Higher(q)) < Cardinality(Higher(r))
    <3> HIDE DEF Higher
    <3>1. Higher(q) # Higher(r)
      BY <2>2
    <3> QED
      BY <1>7, <2>2, <3>1, FS_Subset
  <2> QED
    BY <1>7, <1>9, <2>3
<1>11. Times!PickActive(t) \in m
  <2>1. \E z \in m : \A q \in m \ {z} : Times!Above(z, q)
    BY <1>10
  <2> QED
    BY <1>1, <1>2, <2>1
<1> QED
  BY <1>11 DEF m

LEMMA ResolveIs ==
  ASSUME TimesSound, NEW t, Times!PickActive(t) # NULL
  PROVE  Times!ResolveActive(t) # NULL
<1>1. RuleIs(Times!PickActive(t))
  BY PickIs, RulesAre
<1>2. Times!ResolveActive(t) = Times!PickActive(t).list
  BY DEF Times!ResolveActive
<1> QED
  BY <1>1, <1>2 DEF RuleIs

LEMMA ProjectorRight ==
  ASSUME TimesSound
  PROVE  Times!ProjectorFollows
<1> DEFINE Plays(t) == Times!ResolveActive(t) # NULL
           Opening(t) == \E r \in rules : Times!PickActive(t) = r /\ ~Times!On(r, t - 1)
           near == \E t \in now - IdleMinutes..now : Plays(t)
           ahead == \E t \in now + 1..now + LeadMinutes : Opening(t) /\ Times!Minute(t) = Times!StartOf(Times!PickActive(t))
           all == UNION {Times!Starts(r) : r \in rules}
           d == Times!DayOf(now)
<1>1. now \in Nat /\ d \in Int /\ LeadMinutes \in 0..DayLength /\ DayLength \in Nat /\ DayLength > 0 /\ IdleMinutes \in Nat
  <2>1. 1 * DayLength = DayLength /\ (LastDay + 1) * DayLength \in Int /\ LastDay + 1 \in Int
    BY ScheduleBounds, Product
  <2>2. now \in Nat
    BY <2>1, ScheduleBounds DEF TimesSound, Times!At
  <2> QED
    BY <2>2, Moment, ScheduleBounds
<1> HIDE DEF d
<1>2. ASSUME NEW t \in all
      PROVE  /\ t \in Nat /\ now < t /\ Times!PickActive(t) # NULL
  <2>1. PICK r \in rules : t \in Times!Starts(r)
    OBVIOUS
  <2>2. PICK k \in 0..Times!Horizon : t = Times!At(d + k, Times!StartOf(r)) /\ t > now /\ Times!PickActive(t) = r
    BY <2>1 DEF Times!Starts, d
  <2>3. d + k \in Int /\ Times!StartOf(r) \in 0..DayLength - 1
    BY <1>1, RulesAre, BoundsOf DEF Times!Horizon
  <2>4. t \in Int
    BY <2>2, <2>3, MomentAt
  <2>5. r # NULL
    BY RulesAre
  <2> QED
    BY <1>1, <2>2, <2>4, <2>5
<1>3. all # {} => Times!NextStart \in all /\ \A t \in all : Times!NextStart <= t
  <2>1. all \subseteq Nat
    BY <1>2
  <2>2. Times!NextStart = IF all = {} THEN NULL ELSE Times!Min(all)
    BY DEF Times!NextStart
  <2> HIDE DEF all
  <2> QED
    BY <2>1, <2>2, LeastIs
<1>4. all = {} => Times!NextStart = NULL
  BY DEF Times!NextStart
<1>5. ASSUME NEW t \in now + 1..now + LeadMinutes, Opening(t), Times!Minute(t) = Times!StartOf(Times!PickActive(t))
      PROVE  t \in all
  <2>1. PICK r \in rules : Times!PickActive(t) = r
    BY <1>5
  <2>2. t \in Int /\ now < t /\ t <= now + DayLength
    BY <1>1
  <2>3. r # NULL
    BY RulesAre
  <2>4. Times!ScheduleMatches(r, t)
    BY <2>1, <2>3, PickIs
  <2>5. t = Times!At(Times!DayOf(t), Times!StartOf(r))
    BY <1>5, <2>1, <2>2, Moment DEF Times!At
  <2>6. Times!DayOf(t) \in d..d + 1
    <3>1. d * DayLength <= now /\ now < (d + 1) * DayLength /\ d * DayLength \in Int /\ (d + 1) * DayLength \in Int
      BY <1>1, DayBefore DEF d
    <3>2. 1 * DayLength = DayLength /\ (d + 1) + 1 = d + 2 /\ (d + 2) * DayLength = (d + 1) * DayLength + DayLength
      <4>1. ((d + 1) + 1) * DayLength = (d + 1) * DayLength + 1 * DayLength
        BY <1>1, Product
      <4>2. 1 * DayLength = DayLength /\ (d + 1) + 1 = d + 2
        BY <1>1
      <4> QED
        BY <4>1, <4>2
    <3>3. Times!DayOf(t) < d + 2
      BY <1>1, <2>2, <3>1, <3>2, DayBefore
    <3>4. ~(Times!DayOf(t) < d)
      BY <1>1, <2>2, <3>1, DayBefore
    <3> QED
      BY <1>1, <2>2, <3>3, <3>4, Moment
  <2>7. \E k \in 0..Times!Horizon : Times!DayOf(t) = d + k
    <3>1. Times!DayOf(t) = d + 0 \/ Times!DayOf(t) = d + 1
      BY <1>1, <2>6
    <3>2. 0 \in 0..Times!Horizon /\ 1 \in 0..Times!Horizon
      BY DEF Times!Horizon
    <3> QED
      BY <3>1, <3>2
  <2>8. t \in Times!Starts(r)
    BY <2>1, <2>2, <2>4, <2>5, <2>7 DEF Times!Starts, d
  <2> QED
    BY <2>8
<1>6. Times!ProjectorWant = IF \/ Plays(now) \/ (Times!NextStart # NULL /\ Times!NextStart - now <= LeadMinutes)
                              \/ \E back \in 1..IdleMinutes : Plays(now - back)
                           THEN "on" ELSE "off"
  BY DEF Times!ProjectorWant
<1>7. near <=> Plays(now) \/ \E back \in 1..IdleMinutes : Plays(now - back)
  <2>1. ASSUME NEW t \in now - IdleMinutes..now, Plays(t)
        PROVE  Plays(now) \/ \E back \in 1..IdleMinutes : Plays(now - back)
    <3>1. t = now \/ (now - t \in 1..IdleMinutes /\ now - (now - t) = t)
      BY <1>1
    <3> QED
      BY <2>1, <3>1
  <2>2. now \in now - IdleMinutes..now /\ \A back \in 1..IdleMinutes : now - back \in now - IdleMinutes..now
    BY <1>1
  <2> QED
    BY <2>1, <2>2
<1>8. NULL \notin all
  BY <1>2, ScheduleBounds
<1> HIDE DEF all
<1>9. near => Times!ProjectorWant = "on"
  BY <1>6, <1>7
<1>10. ASSUME ahead PROVE Times!ProjectorWant = "on"
  <2>1. PICK t \in now + 1..now + LeadMinutes : t \in all
    BY <1>5, <1>10
  <2>2. Times!NextStart \in all /\ Times!NextStart <= t
    BY <1>3, <2>1
  <2>3. Times!NextStart \in Nat /\ Times!NextStart # NULL
    BY <1>2, <1>8, <2>2
  <2>4. Times!NextStart - now <= LeadMinutes
    BY <1>1, <2>1, <2>2, <2>3
  <2> QED
    BY <1>6, <2>3, <2>4
<1>11. ASSUME ~near, \A t \in now + 1..now + LeadMinutes : ~Plays(t)
       PROVE  Times!ProjectorWant = "off"
  <2>1. ~Plays(now) /\ ~\E back \in 1..IdleMinutes : Plays(now - back)
    BY <1>7, <1>11
  <2>2. ~(Times!NextStart # NULL /\ Times!NextStart - now <= LeadMinutes)
    <3>1. SUFFICES ASSUME Times!NextStart # NULL, Times!NextStart - now <= LeadMinutes PROVE FALSE
      OBVIOUS
    <3>2. Times!NextStart \in all
      BY <1>3, <1>4, <3>1
    <3>3. Times!NextStart \in Nat /\ now < Times!NextStart /\ Plays(Times!NextStart)
      BY <1>2, <3>2, ResolveIs
    <3>4. Times!NextStart \in now + 1..now + LeadMinutes
      BY <1>1, <3>1, <3>3
    <3> QED
      BY <1>11, <3>3, <3>4
  <2> HIDE DEF Plays
  <2> QED
    BY <1>6, <2>1, <2>2
<1> QED
  BY <1>9, <1>10, <1>11 DEF Times!ProjectorFollows

LEMMA TimesHold ==
  ASSUME TimesSound
  PROVE  Times!TypeOK /\ Times!MatchesItsWindows /\ Times!AnnouncedStartIsNext /\ Times!ProjectorFollows
<1>1. Times!TypeOK
  BY DEF TimesSound, Times!TypeOK
<1>2. now \in Int
  <2>1. 1 * DayLength \in Int /\ (LastDay + 1) * DayLength \in Int /\ LastDay + 1 \in Int
    BY ScheduleBounds, Product
  <2> QED
    BY <2>1, ScheduleBounds DEF TimesSound, Times!At
<1>3. Times!MatchesItsWindows
  BY <1>2, RulesAre, MatchesOn DEF Times!MatchesItsWindows
<1> QED
  BY <1>1, <1>3, StartIsNext, ProjectorRight

LEMMA TimesStill ==
  ASSUME TimesSound, UNCHANGED <<rules, now, fallback>>
  PROVE  TimesSound'
BY DEF TimesSound, Times!At
====
