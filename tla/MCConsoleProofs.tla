---- MODULE MCConsoleProofs ----
(***************************************************************************)
(* Proofs about the Worker's parts of MCConsole and the theorems about all *)
(* of its parts.                                                           *)
(***************************************************************************)
EXTENDS MCConsoleLanProofs

----------------------------------------------------------------------------
(* Ownership: p is the pair of accounts or the three of them.                *)
Refs(p) == AccountsOf(p) \cup {NULL}

Projectors(p) == [owner : Refs(p), list : Refs(p), group : Refs(p), rules : SUBSET AccountsOf(p)]

OwnersTyped(p) ==
  /\ users \subseteq AccountsOf(p) /\ SiteAdmin \in users
  /\ dev \in Projectors(p)
  /\ card \in Refs(p) /\ raced \in BOOLEAN /\ DOMAIN req = CrewOf(p)

OwnerSteps == {"idle", "pick", "hand", "batch", "token", "rules", "refs", "answer", "played"}
ChoosesNone(r) == r.what = "drop" \/ r.ref = NULL

\* What a request has read, whatever crosses it: a sync has settled on its account's playlist.
OwnerAsks(p, r) ==
  /\ r.at \in OwnerSteps
  /\ r.at = "pick" => /\ r.what \in {"list", "group", "rule", "drop"} /\ r.ref \in Refs(p)
                      /\ r.what = "rule" => r.ref \in AccountsOf(p)
  /\ r.at \in {"hand", "batch"} => r.new \in Refs(p) /\ r.then \in {NULL, r.new}
  /\ r.at = "token" => r.user \in Refs(p)
  /\ r.at = "answer" => r.list = r.for
  /\ r.at = "played" /\ r.for \in users => r.list = r.for

\* What it has read and found is still so, or is on the safe side of it.
Fits(p, r) ==
  LET new == Owners(p)!ContentOf(r.new) IN
  /\ r.at = "pick" => ChoosesNone(r) \/ r.ref = Owners(p)!Content
  /\ r.at = "hand" =>
       /\ r.moves <=> Owners(p)!Content # new
       /\ dev.list \in {NULL, r.list} /\ dev.group \in {NULL, r.group}
  /\ r.at = "batch" =>
       /\ r.moves <=> Owners(p)!Content # new
       /\ r.moves => /\ r.list \/ dev.list \in {NULL, new}
                     /\ r.group \/ dev.group \in {NULL, new}
                     /\ r.rules \/ dev.rules \subseteq {new}
  /\ r.at = "token" => r.user \in {NULL, Owners(p)!Content}

PointsAtOwn(p) == {dev.list, dev.group} \cup dev.rules \subseteq {NULL, Owners(p)!Content}

OwnersSound(p) ==
  /\ OwnersTyped(p)
  /\ \A w \in CrewOf(p) : OwnerAsks(p, req[w])
  /\ ~raced => /\ \A w \in CrewOf(p) : Fits(p, req[w])
               /\ card \in {NULL, Owners(p)!Content} /\ PointsAtOwn(p)

LEMMA AccountNames ==
  ASSUME NEW p \in OwnerParts
  PROVE  NULL \notin AccountsOf(p) /\ SiteAdmin \in AccountsOf(p)
BY OwnerNames DEF AccountsOf, OwnerParts

LEMMA OwnersInit ==
  ASSUME NEW p \in OwnerParts, Owners(p)!Init
  PROVE  OwnersSound(p)
<1>1. PICK u \in AccountsOf(p) : dev = [owner |-> u, list |-> NULL, group |-> NULL, rules |-> {}] /\ card = u
  BY DEF Owners!Init
<1>2. users = AccountsOf(p) /\ DOMAIN req = CrewOf(p) /\ raced = FALSE /\ \A w \in CrewOf(p) : req[w].at = "idle"
  BY DEF Owners!Init, Owners!Idle
<1>3. dev \in Projectors(p) /\ dev.owner = u /\ dev.list = NULL /\ dev.group = NULL /\ dev.rules = {}
  BY <1>1 DEF Projectors, Refs
<1>4. u # NULL /\ SiteAdmin \in AccountsOf(p)
  BY AccountNames
<1>5. Owners(p)!Content = u
  BY <1>3, <1>4 DEF Owners!Content, Owners!ContentOf
<1>6. \A w \in CrewOf(p) : OwnerAsks(p, req[w]) /\ Fits(p, req[w])
  BY <1>2 DEF OwnerAsks, Fits, OwnerSteps
<1> QED
  BY <1>1, <1>2, <1>3, <1>4, <1>5, <1>6 DEF OwnersSound, OwnersTyped, Refs, PointsAtOwn

LEMMA ProjectorIs ==
  ASSUME NEW p \in OwnerParts, NEW d \in Projectors(p)
  PROVE  /\ d.owner \in Refs(p) /\ d.list \in Refs(p) /\ d.group \in Refs(p) /\ d.rules \subseteq AccountsOf(p)
         /\ \A x \in Refs(p) : /\ LET e == [d EXCEPT !.list = x] IN
                                    e \in Projectors(p) /\ e.owner = d.owner /\ e.list = x /\ e.group = d.group /\ e.rules = d.rules
                               /\ LET e == [d EXCEPT !.group = x] IN
                                    e \in Projectors(p) /\ e.owner = d.owner /\ e.list = d.list /\ e.group = x /\ e.rules = d.rules
         /\ \A S \in SUBSET AccountsOf(p) :
              LET e == [d EXCEPT !.rules = S] IN
              e \in Projectors(p) /\ e.owner = d.owner /\ e.list = d.list /\ e.group = d.group /\ e.rules = S
         /\ \A o, l, g \in Refs(p), S \in SUBSET AccountsOf(p) :
              LET e == [owner |-> o, list |-> l, group |-> g, rules |-> S] IN
              e \in Projectors(p) /\ e.owner = o /\ e.list = l /\ e.group = g /\ e.rules = S
BY DEF Projectors

\* A request goes on to r, and nothing else changes.
LEMMA OwnersMove ==
  ASSUME NEW p \in OwnerParts, OwnersSound(p), NEW w \in CrewOf(p), NEW r,
         req' = [req EXCEPT ![w] = r], UNCHANGED <<users, dev, card, raced>>,
         OwnerAsks(p, r), ~raced => Fits(p, r)
  PROVE  OwnersSound(p)'
<1> USE DEF OwnersSound
<1>1. DOMAIN req' = CrewOf(p) /\ \A v \in CrewOf(p) : req'[v] = IF v = w THEN r ELSE req[v]
  BY DEF OwnersTyped
<1>2. Owners(p)!Content' = Owners(p)!Content
  BY DEF Owners!Content, Owners!ContentOf
<1>3. ASSUME NEW v \in CrewOf(p) PROVE OwnerAsks(p, req[v])' /\ (~raced => Fits(p, req[v])')
  <2>1. OwnerAsks(p, req'[v]) /\ (~raced => Fits(p, req'[v]))
    BY <1>1
  <2> QED
    BY <1>2, <2>1 DEF OwnerAsks, Fits, ChoosesNone, Refs, Owners!ContentOf
<1>4. OwnersTyped(p)' /\ (PointsAtOwn(p) => PointsAtOwn(p)')
  BY <1>1, <1>2 DEF OwnersTyped, PointsAtOwn, Projectors, Refs
<1> QED
  BY <1>2, <1>3, <1>4 DEF CrewOf

LEMMA ContentKnown ==
  ASSUME NEW p \in OwnerParts, OwnersTyped(p)
  PROVE  /\ Owners(p)!Content \in AccountsOf(p) /\ NULL \notin AccountsOf(p)
         /\ \A x \in Refs(p) : Owners(p)!ContentOf(x) \in AccountsOf(p)
         /\ \A x \in AccountsOf(p) : Owners(p)!ContentOf(x) = x
BY AccountNames, ProjectorIs DEF Owners!Content, Owners!ContentOf, OwnersTyped, Refs

LEMMA PagesAsk ==
  ASSUME NEW p \in OwnerParts, OwnersSound(p), NEW w \in CrewOf(p), NEW u \in AccountsOf(p),
         \/ \E what \in {"list", "group", "rule", "drop"} : Owners(p)!Pick(w, u, what)
         \/ Owners(p)!Regen(w, u)
  PROVE  OwnersSound(p)'
<1>1. ASSUME NEW what \in {"list", "group", "rule", "drop"}, Owners(p)!Pick(w, u, what)
      PROVE  OwnersSound(p)'
  <2>1. PICK ref \in Owners(p)!Chosen(u, what) : req' = [req EXCEPT ![w] = [at |-> "pick", what |-> what, ref |-> ref]]
    BY <1>1 DEF Owners!Pick, Owners!Goes
  <2> DEFINE r == [at |-> "pick", what |-> what, ref |-> ref]
  <2>2. Owners(p)!Content = u /\ UNCHANGED <<users, dev, card, raced>> /\ NULL \notin AccountsOf(p)
    BY <1>1, ContentKnown DEF Owners!Pick, OwnersSound
  <2>4. /\ ref \in Refs(p) /\ (what = "rule" => ref \in AccountsOf(p))
        /\ what = "drop" \/ ref = NULL \/ ref = u
    <3>1. dev.rules \subseteq AccountsOf(p)
      BY ProjectorIs DEF OwnersSound, OwnersTyped
    <3> QED
      BY <2>1, <3>1 DEF Owners!Chosen, Refs
  <2>5. OwnerAsks(p, r) /\ Fits(p, r)
    BY <2>2, <2>4 DEF OwnerAsks, Fits, ChoosesNone, OwnerSteps
  <2> QED
    BY <2>1, <2>2, <2>5, OwnersMove
<1>2. CASE Owners(p)!Regen(w, u)
  <2> DEFINE r == [at |-> "token", user |-> NULL]
  <2>1. req' = [req EXCEPT ![w] = r] /\ UNCHANGED <<users, dev, card, raced>>
    BY <1>2 DEF Owners!Regen, Owners!Goes
  <2>2. OwnerAsks(p, r) /\ Fits(p, r)
    BY DEF OwnerAsks, Fits, OwnerSteps, Refs
  <2> QED
    BY <2>1, <2>2, OwnersMove
<1> QED
  BY <1>1, <1>2

\* The row is read for a hand-over.
LEMMA RowReadFor ==
  ASSUME NEW p \in OwnerParts, OwnersSound(p), NEW w \in CrewOf(p), NEW new \in Refs(p), NEW then \in {NULL, new},
         Owners(p)!ReadRow(w, new, then), UNCHANGED <<users, dev, card, raced>>
  PROVE  OwnersSound(p)'
<1> DEFINE moves == Owners(p)!Content # Owners(p)!ContentOf(new)
           r == [at |-> "hand", new |-> new, moves |-> moves, list |-> dev.list, group |-> dev.group, then |-> then]
<1>1. req' = [req EXCEPT ![w] = r]
  BY DEF Owners!ReadRow, Owners!Goes
<1>2. OwnerAsks(p, r)
  BY DEF OwnerAsks, OwnerSteps
<1>3. r.at = "hand" /\ r.new = new /\ r.moves = moves /\ r.list = dev.list /\ r.group = dev.group
  OBVIOUS
<1> HIDE DEF r
<1>4. Fits(p, r)
  BY <1>3 DEF Fits
<1> QED
  BY <1>1, <1>2, <1>4, OwnersMove

LEMMA HandOversAsked ==
  ASSUME NEW p \in OwnerParts, OwnersSound(p), NEW w \in CrewOf(p),
         \/ \E u \in AccountsOf(p) : \E new \in Refs(p) : Owners(p)!SetOwner(w, u, new)
         \/ \E u \in Refs(p) : Owners(p)!Register(w, u)
  PROVE  OwnersSound(p)'
<1>1. ASSUME NEW u, NEW new \in Refs(p), Owners(p)!SetOwner(w, u, new)
      PROVE  OwnersSound(p)'
  BY <1>1, RowReadFor DEF Owners!SetOwner
<1>2. ASSUME NEW u \in Refs(p), Owners(p)!Register(w, u)
      PROVE  OwnersSound(p)'
  <2>1. UNCHANGED <<users, dev, card, raced>> /\ ~Owners(p)!NotCallers(u)
    BY <1>2 DEF Owners!Register
  <2>2. CASE u # NULL /\ dev.owner = NULL
    BY <1>2, <2>1, <2>2, RowReadFor DEF Owners!Register
  <2>3. CASE ~(u # NULL /\ dev.owner = NULL)
    <3> DEFINE r == [at |-> "token", user |-> Owners(p)!ContentOf(u)]
    <3>1. req' = [req EXCEPT ![w] = r]
      BY <1>2, <2>3 DEF Owners!Register, Owners!Goes
    <3>2. dev.owner = u
      BY <2>1, <2>3 DEF Owners!NotCallers
    <3>3. Owners(p)!ContentOf(u) = Owners(p)!Content /\ Owners(p)!Content \in Refs(p)
      BY <3>2, ContentKnown DEF Owners!Content, OwnersSound, Refs
    <3>4. OwnerAsks(p, r) /\ Fits(p, r)
      BY <3>3 DEF OwnerAsks, Fits, OwnerSteps
    <3> QED
      BY <2>1, <3>1, <3>4, OwnersMove
  <2> QED
    BY <2>2, <2>3
<1> QED
  BY <1>1, <1>2

LEMMA RowKept ==
  ASSUME NEW p \in OwnerParts, OwnersSound(p), NEW w \in CrewOf(p), Owners(p)!Keep(w)
  PROVE  OwnersSound(p)'
<1> DEFINE o == req[w]
           new == Owners(p)!ContentOf(o.new)
           l == Owners(p)!Clears(w, o.list)
           g == Owners(p)!Clears(w, o.group)
           rs == o.moves /\ dev.rules \ {new} # {}
           r == [at |-> "batch", new |-> o.new, moves |-> o.moves, then |-> o.then, list |-> l, group |-> g, rules |-> rs]
<1>1. req' = [req EXCEPT ![w] = r] /\ UNCHANGED <<users, dev, card, raced>> /\ o.at = "hand"
  BY DEF Owners!Keep, Owners!Goes, Owners!Under
<1>2. OwnerAsks(p, o) /\ (~raced => Fits(p, o))
  BY DEF OwnersSound
<1>3. OwnerAsks(p, r)
  BY <1>1, <1>2 DEF OwnerAsks, OwnerSteps
<1>4. r.at = "batch" /\ r.new = o.new /\ r.moves = o.moves /\ r.list = l /\ r.group = g /\ r.rules = rs
  OBVIOUS
<1>5. ASSUME ~raced PROVE Fits(p, r)
  <2>1. /\ o.moves <=> Owners(p)!Content # new
        /\ dev.list \in {NULL, o.list} /\ dev.group \in {NULL, o.group}
    BY <1>1, <1>2, <1>5 DEF Fits
  <2>2. o.moves => l \/ dev.list \in {NULL, new}
    BY <2>1 DEF Owners!Clears
  <2>3. o.moves => g \/ dev.group \in {NULL, new}
    BY <2>1 DEF Owners!Clears
  <2>4. o.moves => rs \/ dev.rules \subseteq {new}
    OBVIOUS
  <2> HIDE DEF r, l, g, rs
  <2> QED
    BY <1>4, <2>1, <2>2, <2>3, <2>4 DEF Fits
<1> HIDE DEF r
<1> QED
  BY <1>1, <1>3, <1>5, OwnersMove

LEMMA SyncsMove ==
  ASSUME NEW p \in OwnerParts, OwnersSound(p), NEW w \in CrewOf(p),
         \/ Owners(p)!Sync(w) \/ Owners(p)!ReadRules(w) \/ Owners(p)!ReadRefs(w) \/ Owners(p)!AnswerSync(w) \/ Owners(p)!Ends(w)
  PROVE  OwnersSound(p)'
<1> DEFINE Harmless(r) == /\ r.at \in {"idle", "rules", "refs", "answer", "played"}
                          /\ r.at = "answer" => r.list = r.for
                          /\ r.at = "played" /\ r.for \in users => r.list = r.for
<1>0. OwnerAsks(p, req[w])
  BY DEF OwnersSound
<1>1. \E r : Harmless(r) /\ req' = [req EXCEPT ![w] = r]
  <2>1. CASE Owners(p)!Sync(w)
    BY <2>1 DEF Owners!Sync, Owners!Goes
  <2>2. CASE Owners(p)!ReadRules(w)
    <3>1. CASE \E l \in Owners(p)!Own(w, dev.rules) : Owners(p)!Synced(w, "answer", l)
      BY <3>1 DEF Owners!Synced, Owners!Own, Owners!Goes
    <3>2. CASE Owners(p)!Goes(w, [req[w] EXCEPT !.at = "refs"])
      <4>1. [req[w] EXCEPT !.at = "refs"].at = "refs"
        OBVIOUS
      <4> QED
        BY <3>2, <4>1 DEF Owners!Goes
    <3> QED
      BY <2>2, <3>1, <3>2 DEF Owners!ReadRules
  <2>3. CASE Owners(p)!ReadRefs(w)
    BY <2>3 DEF Owners!ReadRefs, Owners!FirstOf, Owners!Synced, Owners!Own, Owners!Goes
  <2>4. CASE Owners(p)!AnswerSync(w)
    BY <1>0, <2>4 DEF Owners!AnswerSync, Owners!Synced, Owners!Goes, Owners!Under, OwnerAsks
  <2>5. CASE Owners(p)!Ends(w)
    BY <2>5 DEF Owners!Ends, Owners!Goes, Owners!Idle
  <2> QED
    BY <2>1, <2>2, <2>3, <2>4, <2>5
<1>2. PICK r : Harmless(r) /\ req' = [req EXCEPT ![w] = r]
  BY <1>1
<1>3. UNCHANGED <<users, dev, card, raced>>
  BY DEF Owners!Sync, Owners!ReadRules, Owners!ReadRefs, Owners!AnswerSync, Owners!Ends
<1>4. OwnerAsks(p, r) /\ Fits(p, r)
  BY <1>2 DEF OwnerAsks, Fits, OwnerSteps
<1> QED
  BY <1>2, <1>3, <1>4, OwnersMove

\* A request writes: the projector, its card or its account change.
LEMMA OwnersWrite ==
  ASSUME NEW p \in OwnerParts, OwnersSound(p), OwnersTyped(p)', users' \subseteq users,
         \A v \in CrewOf(p) : OwnerAsks(p, req'[v]),
         ~raced' => /\ \A v \in CrewOf(p) : Fits(p, req[v])'
                    /\ card' \in {NULL, Owners(p)!Content'} /\ PointsAtOwn(p)'
  PROVE  OwnersSound(p)'
<1>1. ASSUME NEW v \in CrewOf(p) PROVE OwnerAsks(p, req[v])'
  BY DEF OwnerAsks, Refs
<1> QED
  BY <1>1 DEF OwnersSound, CrewOf

LEMMA RowPicked ==
  ASSUME NEW p \in OwnerParts, OwnersSound(p), NEW w \in CrewOf(p), Owners(p)!Picked(w)
  PROVE  OwnersSound(p)'
<1> USE DEF OwnersSound
<1> DEFINE o == req[w]
<1>1. /\ o.at = "pick" /\ req' = [req EXCEPT ![w] = Owners(p)!Idle] /\ UNCHANGED <<users, card>>
      /\ raced' = (raced \/ (Owners(p)!Sets(w) /\ \E v \in CrewOf(p) : req[v].at \in {"hand", "batch"}))
  BY DEF Owners!Picked, Owners!Under, Owners!Goes
<1>2. /\ DOMAIN req' = CrewOf(p) /\ req'[w].at = "idle" /\ \A v \in CrewOf(p) : v = w \/ req'[v] = req[v]
  BY <1>1 DEF OwnersTyped, Owners!Idle
<1>3. o.ref \in Refs(p) /\ (o.what = "rule" => o.ref \in AccountsOf(p))
  BY <1>1 DEF OwnerAsks
<1>4. dev \in Projectors(p) /\ dev.rules \subseteq AccountsOf(p)
  BY ProjectorIs DEF OwnersTyped
<1>5. /\ dev' \in Projectors(p) /\ dev'.owner = dev.owner
      /\ dev'.list = dev.list \/ dev'.list = NULL \/ (Owners(p)!Sets(w) /\ dev'.list = o.ref)
      /\ dev'.group = dev.group \/ dev'.group = NULL \/ (Owners(p)!Sets(w) /\ dev'.group = o.ref)
      /\ dev'.rules \subseteq dev.rules \/ (Owners(p)!Sets(w) /\ dev'.rules \subseteq dev.rules \cup {o.ref})
  <2>0. o.ref = NULL \/ o.what = "drop" \/ Owners(p)!Sets(w)
    BY <1>1 DEF Owners!Sets, Owners!Under
  <2>1. CASE dev' = dev
    BY <1>4, <2>1
  <2>2. CASE dev' = [dev EXCEPT !.list = o.ref] /\ o.what = "list"
    <3>1. dev' \in Projectors(p) /\ dev'.owner = dev.owner /\ dev'.list = o.ref /\ dev'.group = dev.group /\ dev'.rules = dev.rules
      BY <1>3, <1>4, <2>2 DEF Projectors
    <3> QED
      BY <2>0, <2>2, <3>1
  <2>3. CASE dev' = [dev EXCEPT !.group = o.ref] /\ o.what = "group"
    <3>1. dev' \in Projectors(p) /\ dev'.owner = dev.owner /\ dev'.list = dev.list /\ dev'.group = o.ref /\ dev'.rules = dev.rules
      BY <1>3, <1>4, <2>3 DEF Projectors
    <3> QED
      BY <2>0, <2>3, <3>1
  <2>4. CASE dev' = [dev EXCEPT !.rules = @ \cup {o.ref}] /\ o.what = "rule"
    <3>1. o.ref # NULL /\ dev.rules \cup {o.ref} \in SUBSET AccountsOf(p)
      BY <1>3, <1>4, <2>4, AccountNames
    <3> QED
      BY <1>4, <2>0, <2>4, <3>1, ProjectorIs
  <2>5. CASE dev' = [dev EXCEPT !.rules = @ \ {o.ref}]
    <3>1. dev.rules \ {o.ref} \in SUBSET AccountsOf(p)
      BY <1>4
    <3> QED
      BY <1>4, <2>5, <3>1, ProjectorIs
  <2>6. o.what \in {"list", "group", "rule", "drop"}
    BY <1>1 DEF OwnerAsks
  <2> QED
    BY <2>1, <2>2, <2>3, <2>4, <2>5, <2>6 DEF Owners!Picked
<1>6. Owners(p)!Content' = Owners(p)!Content
  BY <1>5 DEF Owners!Content, Owners!ContentOf
<1>7. \A v \in CrewOf(p) : OwnerAsks(p, req'[v])
  BY <1>1, <1>2 DEF OwnerAsks, OwnerSteps
<1>8. OwnersTyped(p)'
  BY <1>1, <1>2, <1>5 DEF OwnersTyped, Projectors, Refs
<1>9. ASSUME ~raced'
      PROVE  /\ \A v \in CrewOf(p) : Fits(p, req[v])'
             /\ card' \in {NULL, Owners(p)!Content'} /\ PointsAtOwn(p)'
  <2>1. ~raced /\ (Owners(p)!Sets(w) => \A v \in CrewOf(p) : req[v].at \notin {"hand", "batch"})
    BY <1>1, <1>9
  <2>2. Owners(p)!Sets(w) => o.ref = Owners(p)!Content
    BY <2>1 DEF Fits, ChoosesNone, Owners!Sets, Owners!Under
  <2>3. PointsAtOwn(p)'
    BY <1>5, <1>6, <2>1, <2>2 DEF PointsAtOwn
  <2>4. ASSUME NEW v \in CrewOf(p) PROVE Fits(p, req[v])'
    <3>1. CASE v = w
      BY <1>2, <3>1 DEF Fits
    <3>2. CASE v # w
      <4>1. req'[v] = req[v] /\ Fits(p, req[v])
        BY <1>2, <2>1, <3>2
      <4>2. CASE Owners(p)!Sets(w)
        BY <1>6, <2>1, <4>1, <4>2 DEF Fits, ChoosesNone
      <4>3. CASE ~Owners(p)!Sets(w)
        BY <1>5, <1>6, <4>1, <4>3 DEF Fits, ChoosesNone, Owners!ContentOf
      <4> QED
        BY <4>2, <4>3
    <3> QED
      BY <3>1, <3>2
  <2> QED
    BY <1>1, <1>6, <2>1, <2>3, <2>4
<1> QED
  BY <1>1, <1>7, <1>8, <1>9, OwnersWrite

\* The projector changes hands.
LEMMA RowHandedOver ==
  ASSUME NEW p \in OwnerParts, OwnersSound(p), NEW w \in CrewOf(p), Owners(p)!HandOver(w)
  PROVE  OwnersSound(p)'
<1> USE DEF OwnersSound
<1> DEFINE o == req[w]
           new == Owners(p)!ContentOf(o.new)
<1>1. o.at = "batch" /\ o.new \in Refs(p) /\ o.then \in {NULL, o.new} /\ UNCHANGED users
  BY DEF Owners!HandOver, Owners!Under, OwnerAsks
<1>2. CASE o.new \notin users \cup {NULL}
  <2>1. req' = [req EXCEPT ![w] = Owners(p)!Idle] /\ UNCHANGED <<users, dev, card, raced>>
    BY <1>2 DEF Owners!HandOver, Owners!Goes
  <2>2. OwnerAsks(p, Owners(p)!Idle) /\ Fits(p, Owners(p)!Idle)
    BY DEF OwnerAsks, Fits, OwnerSteps, Owners!Idle
  <2> QED
    BY <2>1, <2>2, OwnersMove
<1>3. CASE o.new \in users \cup {NULL}
  <2>1. /\ dev' = Owners(p)!HandedOver(w) /\ card' = Owners(p)!CardAfter(w) /\ Owners(p)!Crossed(w)
        /\ req' = [req EXCEPT ![w] = IF o.then = NULL THEN Owners(p)!Idle ELSE [at |-> "token", user |-> o.then]]
    BY <1>3 DEF Owners!HandOver, Owners!Goes
  <2>2. /\ DOMAIN req' = CrewOf(p) /\ \A v \in CrewOf(p) : v = w \/ req'[v] = req[v]
        /\ req'[w].at = "idle" \/ (req'[w].at = "token" /\ req'[w].user = o.then /\ o.then # NULL)
    BY <2>1 DEF OwnersTyped, Owners!Idle
  <2>3. dev \in Projectors(p) /\ dev.list \in Refs(p) /\ dev.group \in Refs(p) /\ dev.rules \subseteq AccountsOf(p)
    BY ProjectorIs DEF OwnersTyped
  <2>4. /\ dev' \in Projectors(p) /\ dev'.owner = o.new
        /\ dev'.list = IF o.list THEN NULL ELSE dev.list
        /\ dev'.group = IF o.group THEN NULL ELSE dev.group
        /\ dev'.rules = IF o.rules THEN dev.rules \cap {new} ELSE dev.rules
    <3> DEFINE l == IF o.list THEN NULL ELSE dev.list
               g == IF o.group THEN NULL ELSE dev.group
               rs == IF o.rules THEN dev.rules \cap {new} ELSE dev.rules
    <3>1. dev' = [owner |-> o.new, list |-> l, group |-> g, rules |-> rs]
      BY <2>1 DEF Owners!HandedOver, Owners!RulesAfter
    <3>2. l \in Refs(p) /\ g \in Refs(p) /\ rs \in SUBSET AccountsOf(p)
      BY <2>3 DEF Refs
    <3> HIDE DEF l, g, rs
    <3>3. dev' \in Projectors(p) /\ dev'.owner = o.new /\ dev'.list = l /\ dev'.group = g /\ dev'.rules = rs
      BY <1>1, <3>1, <3>2 DEF Projectors
    <3> USE DEF l, g, rs
    <3> QED
      BY <3>3
  <2>5. Owners(p)!Content' = new
    BY <2>4 DEF Owners!Content, Owners!ContentOf
  <2>6. card' = IF o.moves THEN NULL ELSE card
    BY <2>1 DEF Owners!CardAfter
  <2>7. OwnersTyped(p)'
    BY <1>1, <2>1, <2>2, <2>4, <2>6 DEF OwnersTyped, Projectors, Refs, Owners!Crossed
  <2>8. \A v \in CrewOf(p) : OwnerAsks(p, req'[v])
    BY <1>1, <2>2 DEF OwnerAsks, OwnerSteps
  <2>9. ASSUME ~raced'
        PROVE  /\ \A v \in CrewOf(p) : Fits(p, req[v])'
               /\ card' \in {NULL, Owners(p)!Content'} /\ PointsAtOwn(p)'
    <3>1. ~raced /\ \A v \in CrewOf(p) \ {w} : ~Owners(p)!Sets(v) /\ req[v].at \notin {"hand", "batch", "token"}
      BY <2>1, <2>9 DEF Owners!Crossed
    <3>2. /\ o.moves <=> Owners(p)!Content # new
          /\ o.moves => /\ o.list \/ dev.list \in {NULL, new}
                        /\ o.group \/ dev.group \in {NULL, new}
                        /\ o.rules \/ dev.rules \subseteq {new}
      BY <1>1, <3>1 DEF Fits
    <3>3. card' \in {NULL, new}
      BY <2>6, <3>1, <3>2
    <3>4. PointsAtOwn(p)'
      <4>1. CASE o.moves
        BY <2>4, <2>5, <3>2, <4>1 DEF PointsAtOwn
      <4>2. CASE ~o.moves
        BY <2>4, <2>5, <3>1, <3>2, <4>2 DEF PointsAtOwn
      <4> QED
        BY <4>1, <4>2
    <3>5. ASSUME NEW v \in CrewOf(p) PROVE Fits(p, req[v])'
      <4>1. CASE v # w
        BY <2>2, <3>1, <4>1 DEF Fits, ChoosesNone, Owners!Sets, Owners!Under
      <4>2. CASE v = w /\ req'[w].at = "token"
        <5>1. o.then = o.new /\ o.new \in AccountsOf(p)
          BY <1>1, <2>2, <4>2 DEF Refs
        <5>2. new = o.then
          BY <5>1, AccountNames DEF Owners!ContentOf
        <5> QED
          BY <2>2, <2>5, <4>2, <5>2 DEF Fits
      <4>3. CASE v = w /\ req'[w].at = "idle"
        BY <4>3 DEF Fits
      <4> QED
        BY <2>2, <4>1, <4>2, <4>3
    <3> QED
      BY <2>5, <3>3, <3>4, <3>5
  <2> QED
    BY <1>1, <2>7, <2>8, <2>9, OwnersWrite
<1> QED
  BY <1>2, <1>3

LEMMA TokensSet ==
  ASSUME NEW p \in OwnerParts, OwnersSound(p),
         \/ \E w \in CrewOf(p) : Owners(p)!SetToken(w)
         \/ \E u \in AccountsOf(p) : Owners(p)!Install(u)
  PROVE  OwnersSound(p)'
<1> USE DEF OwnersSound
<1>1. ASSUME NEW w \in CrewOf(p), Owners(p)!SetToken(w)
      PROVE  OwnersSound(p)'
  <2>1. /\ req[w].at = "token" /\ card' = req[w].user /\ Owners(p)!Crossed(w) /\ UNCHANGED <<users, dev>>
        /\ req' = [req EXCEPT ![w] = Owners(p)!Idle]
    BY <1>1 DEF Owners!SetToken, Owners!Under, Owners!Goes
  <2>2. /\ DOMAIN req' = CrewOf(p) /\ \A v \in CrewOf(p) : v = w \/ req'[v] = req[v]
        /\ req'[w].at = "idle"
    BY <2>1 DEF OwnersTyped, Owners!Idle
  <2>3. Owners(p)!Content' = Owners(p)!Content /\ req[w].user \in Refs(p)
    BY <2>1 DEF Owners!Content, Owners!ContentOf, OwnerAsks
  <2>4. OwnersTyped(p)'
    BY <2>1, <2>2, <2>3 DEF OwnersTyped, Projectors, Refs, Owners!Crossed
  <2>5. \A v \in CrewOf(p) : OwnerAsks(p, req'[v])
    BY <2>2 DEF OwnerAsks, OwnerSteps
  <2>6. ASSUME ~raced'
        PROVE  /\ \A v \in CrewOf(p) : Fits(p, req[v])'
               /\ card' \in {NULL, Owners(p)!Content'} /\ PointsAtOwn(p)'
    <3>1. ~raced
      BY <2>1, <2>6 DEF Owners!Crossed
    <3>2. card' \in {NULL, Owners(p)!Content'} /\ PointsAtOwn(p)'
      BY <2>1, <2>3, <3>1 DEF Fits, PointsAtOwn
    <3>3. ASSUME NEW v \in CrewOf(p) PROVE Fits(p, req[v])'
      BY <2>1, <2>2, <2>3, <3>1 DEF Fits, ChoosesNone, Owners!ContentOf
    <3> QED
      BY <3>2, <3>3
  <2> QED
    BY <2>1, <2>4, <2>5, <2>6, OwnersWrite
<1>2. ASSUME NEW u \in AccountsOf(p), Owners(p)!Install(u)
      PROVE  OwnersSound(p)'
  <2>1. Owners(p)!Content = u /\ card' = u /\ UNCHANGED <<users, dev, req, raced>>
    BY <1>2 DEF Owners!Install
  <2>2. Owners(p)!Content' = Owners(p)!Content
    BY <2>1 DEF Owners!Content, Owners!ContentOf
  <2>3. OwnersTyped(p)' /\ \A v \in CrewOf(p) : OwnerAsks(p, req'[v])
    BY <2>1 DEF OwnersTyped, Projectors, Refs
  <2>4. ASSUME ~raced
        PROVE  /\ \A v \in CrewOf(p) : Fits(p, req[v])'
               /\ card' \in {NULL, Owners(p)!Content'} /\ PointsAtOwn(p)'
    BY <2>1, <2>2, <2>4 DEF Fits, ChoosesNone, PointsAtOwn, Owners!ContentOf
  <2> QED
    BY <2>1, <2>3, <2>4, OwnersWrite
<1> QED
  BY <1>1, <1>2

LEMMA AccountsGo ==
  ASSUME NEW p \in OwnerParts, OwnersSound(p), NEW u \in AccountsOf(p), Owners(p)!DeleteUser(u)
  PROVE  OwnersSound(p)'
<1> USE DEF OwnersSound
<1> DEFINE o == IF dev.owner = u THEN NULL ELSE dev.owner
           l == IF dev.list = u THEN NULL ELSE dev.list
           g == IF dev.group = u THEN NULL ELSE dev.group
           rs == dev.rules \ {u}
<1>1. /\ u # SiteAdmin /\ users' = users \ {u} /\ UNCHANGED req
      /\ card' = (IF dev.owner = u THEN NULL ELSE card)
      /\ raced' = (raced \/ \E v \in CrewOf(p) : Owners(p)!Sets(v) \/ req[v].at \in {"hand", "batch", "token"})
      /\ dev' = [owner |-> o, list |-> l, group |-> g, rules |-> rs]
  BY DEF Owners!DeleteUser, Owners!CardAfterDelete
<1>2. o \in Refs(p) /\ l \in Refs(p) /\ g \in Refs(p) /\ rs \in SUBSET AccountsOf(p)
  BY ProjectorIs DEF Refs, OwnersTyped
<1> HIDE DEF o, l, g, rs
<1>3. dev' \in Projectors(p) /\ dev'.owner = o /\ dev'.list = l /\ dev'.group = g /\ dev'.rules = rs
  BY <1>1, <1>2 DEF Projectors
<1> USE DEF o, l, g, rs
<1>4. OwnersTyped(p)'
  BY <1>1, <1>3 DEF OwnersTyped, Projectors, Refs
<1>5. \A v \in CrewOf(p) : OwnerAsks(p, req'[v])
  BY <1>1
<1>6. ASSUME ~raced'
      PROVE  /\ \A v \in CrewOf(p) : Fits(p, req[v])'
             /\ card' \in {NULL, Owners(p)!Content'} /\ PointsAtOwn(p)'
  <2>1. ~raced /\ \A v \in CrewOf(p) : ~Owners(p)!Sets(v) /\ req[v].at \notin {"hand", "batch", "token"}
    BY <1>1, <1>6
  <2>2. \A v \in CrewOf(p) : Fits(p, req[v])'
    BY <1>1, <2>1 DEF Fits, ChoosesNone, Owners!Sets, Owners!Under
  <2>3. u # NULL
    BY AccountNames
  <2>4. CASE dev.owner = u
    <3>1. Owners(p)!Content = u
      BY <2>3, <2>4 DEF Owners!Content, Owners!ContentOf
    <3> QED
      BY <1>1, <1>3, <2>1, <2>2, <2>4, <3>1 DEF PointsAtOwn
  <2>5. CASE dev.owner # u
    <3>1. Owners(p)!Content' = Owners(p)!Content
      BY <1>3, <2>5 DEF Owners!Content, Owners!ContentOf
    <3> QED
      BY <1>1, <1>3, <2>1, <2>2, <2>5, <3>1 DEF PointsAtOwn
  <2> QED
    BY <2>4, <2>5
<1> QED
  BY <1>1, <1>4, <1>5, <1>6, OwnersWrite

LEMMA OwnersStep ==
  ASSUME NEW p \in OwnerParts, OwnersSound(p), Owners(p)!Next
  PROVE  OwnersSound(p)'
<1> USE DEF Owners!Next
<1>1. ASSUME NEW u \in AccountsOf(p), Owners(p)!Install(u) \/ Owners(p)!DeleteUser(u)
      PROVE  OwnersSound(p)'
  BY <1>1, TokensSet, AccountsGo
<1>2. ASSUME NEW w \in CrewOf(p),
             \/ Owners(p)!Picked(w) \/ Owners(p)!Keep(w) \/ Owners(p)!HandOver(w) \/ Owners(p)!SetToken(w)
             \/ Owners(p)!Sync(w) \/ Owners(p)!ReadRules(w) \/ Owners(p)!ReadRefs(w) \/ Owners(p)!AnswerSync(w)
             \/ Owners(p)!Ends(w)
      PROVE  OwnersSound(p)'
  BY <1>2, RowPicked, RowKept, RowHandedOver, TokensSet, SyncsMove
<1>3. ASSUME NEW w \in CrewOf(p), NEW u \in Refs(p), Owners(p)!Register(w, u)
      PROVE  OwnersSound(p)'
  BY <1>3, HandOversAsked
<1>4. ASSUME NEW w \in CrewOf(p), NEW u \in AccountsOf(p),
             \/ Owners(p)!Regen(w, u)
             \/ \E what \in {"list", "group", "rule", "drop"} : Owners(p)!Pick(w, u, what)
      PROVE  OwnersSound(p)'
  BY <1>4, PagesAsk
<1>5. ASSUME NEW w \in CrewOf(p), NEW u \in AccountsOf(p), NEW new \in Refs(p), Owners(p)!SetOwner(w, u, new)
      PROVE  OwnersSound(p)'
  BY <1>5, HandOversAsked
<1> QED
  BY <1>1, <1>2, <1>3, <1>4, <1>5 DEF Refs

LEMMA OwnersHold ==
  ASSUME NEW p \in OwnerParts, OwnersSound(p)
  PROVE  Owners(p)!TypeOK /\ Owners(p)!PlaysOwn /\ Owners(p)!CardOfOwner /\ Owners(p)!RefsOfOwner
<1> USE DEF OwnersSound
<1>1. Owners(p)!TypeOK
  BY DEF Owners!TypeOK, OwnersTyped, Projectors, Owners!Device, Owners!Ref, Refs, OwnerAsks, OwnerSteps
<1>2. Owners(p)!PlaysOwn
  BY DEF Owners!PlaysOwn, Owners!Under, OwnerAsks
<1>3. Owners(p)!CardOfOwner /\ Owners(p)!RefsOfOwner
  BY DEF Owners!CardOfOwner, Owners!RefsOfOwner, PointsAtOwn
<1> QED
  BY <1>1, <1>2, <1>3

LEMMA OwnersStill ==
  ASSUME NEW p \in OwnerParts, OwnersSound(p), UNCHANGED <<users, dev, card, req, raced>>
  PROVE  OwnersSound(p)'
<1>1. Owners(p)!Content' = Owners(p)!Content
  BY DEF Owners!Content, Owners!ContentOf
<1> QED
  BY <1>1 DEF OwnersSound, OwnersTyped, Projectors, Refs, OwnerAsks, Fits, ChoosesNone, PointsAtOwn, Owners!ContentOf, CrewOf, AccountsOf

----------------------------------------------------------------------------
(* Alerts: p is two overlapping runs or one run at a time.                   *)
AlertTimes == 0..MaxAlertTime \cup {NULL}
AlertRow(p) == [kind : Told(p)!AllKinds, open : BOOLEAN, stamp : AlertTimes]
Announcement == [opened : Nat, closed : Nat, last : AlertTimes]
Reading(p) == [at : {"read"}, ts : 0..MaxAlertTime, active : SUBSET Told(p)!AllKinds, mixed : BOOLEAN]
Working(p) == [at : {"write", "stamp"}, ts : 0..MaxAlertTime, mixed : BOOLEAN, active : SUBSET Told(p)!AllKinds,
               cur : SUBSET Nat, todo : SUBSET Nat, opened : SUBSET Nat, closed : SUBSET Nat, repeated : SUBSET Nat]

AlertsTyped(p) ==
  /\ now \in 0..MaxAlertTime /\ deaths \in 0..MaxDeaths
  /\ rows \in Seq(AlertRow(p)) /\ told \in Seq(Announcement) /\ Len(told) = Len(rows)
  /\ crossed \cup lost \cup early \subseteq 1..Len(rows)
  /\ run \in [RunsOf(p) -> {Told(p)!Idle} \cup Reading(p) \cup Working(p)]

\* A run that nobody joined is alone.
RunAlone(p) ==
  \A r \in RunsOf(p) : run[r].at # "idle" /\ ~run[r].mixed => \A q \in RunsOf(p) \ {r} : run[q].at = "idle"

\* A run has announced row i and goes on to stamp it.
Holds(p, i) == \E r \in RunsOf(p) : run[r].at = "stamp" /\ i \in Told(p)!InHand(r)

\* What the table says of a row is what was told of it.
RowTold(p, i) ==
  /\ rows[i].stamp # NULL => told[i].last # NULL
  /\ told[i].closed > 0 => ~rows[i].open
  /\ i \notin crossed =>
       /\ told[i].opened <= 1 /\ told[i].closed <= 1
       /\ told[i].opened > 0 => rows[i].stamp # NULL \/ Holds(p, i)
       /\ rows[i].stamp # NULL => told[i].last = rows[i].stamp \/ Holds(p, i)

\* A row that a run nobody joined will announce was not announced before, or long ago.
WillTell(p, r) ==
  \A i \in 1..Len(rows) \ crossed :
    /\ i \in run[r].opened => told[i].opened = 0
    /\ i \in run[r].cur => told[i].closed = 0
    /\ i \in run[r].repeated => told[i].last # NULL /\ run[r].ts - told[i].last >= RepeatAfter

RunTells(p, r) ==
  /\ run[r].at \in {"write", "stamp"} => Told(p)!InHand(r) \cup run[r].cur \subseteq 1..Len(rows)
  /\ run[r].at = "write" => /\ run[r].closed \subseteq run[r].cur
                            /\ \A i \in run[r].closed : ~rows[i].open
                            /\ ~run[r].mixed => WillTell(p, r)
  /\ run[r].at = "stamp" => \A i \in Told(p)!InHand(r) : /\ told[i].last # NULL
                                                         /\ i \notin crossed => told[i].last = run[r].ts

AlertsSound(p) ==
  /\ AlertsTyped(p) /\ RunAlone(p)
  /\ \A i \in 1..Len(rows) : RowTold(p, i)
  /\ \A r \in RunsOf(p) : RunTells(p, r)
  /\ early \subseteq crossed /\ Told(p)!RecoveryTold

LEMMA SeqIs ==
  ASSUME NEW T, NEW n \in Nat, NEW f \in [1..n -> T]
  PROVE  f \in Seq(T) /\ Len(f) = n
OBVIOUS

LEMMA KindsCounted == Len(Kinds) \in Nat
BY AlertBounds

LEMMA AlertsInit ==
  ASSUME NEW p \in AlertParts, Told(p)!Init
  PROVE  AlertsSound(p)
<1> USE AlertBounds DEF Told!Init, Told!Idle
<1>1. AlertsTyped(p)
  BY DEF AlertsTyped
<1>2. Len(rows) = 0 /\ early \subseteq crossed /\ \A r \in RunsOf(p) : run[r].at = "idle"
  OBVIOUS
<1> QED
  BY <1>1, <1>2 DEF AlertsSound, RunAlone, RunTells, Told!RecoveryTold, Told!Ids

LEMMA RunIs ==
  ASSUME NEW p \in AlertParts, AlertsTyped(p), NEW r \in RunsOf(p)
  PROVE  /\ run[r].at \in {"idle", "read", "write", "stamp"}
         /\ run[r].at = "idle" => run[r] = Told(p)!Idle
         /\ run[r].at = "read" => run[r] \in Reading(p)
         /\ run[r].at \in {"write", "stamp"} => run[r] \in Working(p)
<1>1. run[r] \in {Told(p)!Idle} \cup Reading(p) \cup Working(p)
  BY DEF AlertsTyped
<1> QED
  BY <1>1 DEF Told!Idle, Reading, Working

LEMMA WorkingIs ==
  ASSUME NEW p \in AlertParts, NEW x \in Working(p)
  PROVE  /\ x.at \in {"write", "stamp"} /\ x.ts \in 0..MaxAlertTime /\ x.mixed \in BOOLEAN
         /\ x.active \subseteq Told(p)!AllKinds /\ x.cur \subseteq Nat /\ x.todo \subseteq Nat
         /\ x.opened \subseteq Nat /\ x.closed \subseteq Nat /\ x.repeated \subseteq Nat
BY DEF Working

\* Another run has started: x goes on as before.
SameWork(x, y) ==
  /\ y.at = x.at
  /\ x.at \in {"write", "stamp"} => /\ y.ts = x.ts /\ y.cur = x.cur /\ y.opened = x.opened
                                    /\ y.closed = x.closed /\ y.repeated = x.repeated

LEMMA JoinedIs ==
  ASSUME NEW p \in AlertParts, NEW x \in Reading(p) \cup Working(p)
  PROVE  LET y == [x EXCEPT !.mixed = TRUE] IN
         y \in Reading(p) \cup Working(p) /\ y.mixed = TRUE /\ SameWork(x, y)
<1> DEFINE y == [x EXCEPT !.mixed = TRUE]
<1>1. CASE x \in Reading(p)
  <2>1. y \in Reading(p) /\ y.mixed = TRUE /\ y.at = x.at /\ x.at = "read"
    BY <1>1 DEF Reading
  <2> QED
    BY <2>1 DEF SameWork
<1>2. CASE x \in Working(p)
  BY <1>2 DEF Working, SameWork
<1> QED
  BY <1>1, <1>2

\* Only runs move, and those in hand hold the same rows.
LEMMA RunsMove ==
  ASSUME NEW p \in AlertParts, AlertsSound(p), UNCHANGED <<rows, told, crossed, lost, early, deaths>>,
         now' \in 0..MaxAlertTime,
         run' \in [RunsOf(p) -> {Told(p)!Idle} \cup Reading(p) \cup Working(p)],
         \A q \in RunsOf(p) : run'[q].at = "stamp" <=> run[q].at = "stamp",
         \A q \in RunsOf(p) : run[q].at = "write" => run'[q].at = "write",
         \A q \in RunsOf(p) : run[q].at \in {"write", "stamp"} => SameWork(run[q], run'[q]),
         RunAlone(p)', \A q \in RunsOf(p) : RunTells(p, q)'
  PROVE  AlertsSound(p)'
<1> USE DEF AlertsSound
<1>1. AlertsTyped(p)'
  BY DEF AlertsTyped, AlertRow, Reading, Working, Told!AllKinds, Told!Idle, RunsOf
<1>2. ASSUME NEW i PROVE Holds(p, i) => Holds(p, i)'
  BY DEF Holds, Told!InHand, SameWork
<1>3. ASSUME NEW i \in 1..Len(rows) PROVE RowTold(p, i)'
  BY <1>2 DEF RowTold
<1>4. Told(p)!RecoveryTold'
  BY DEF Told!RecoveryTold, Told!Ids, SameWork
<1> QED
  BY <1>1, <1>3, <1>4 DEF RunsOf

\* A run in hand tells the same of the same rows.
LEMMA TellsOn ==
  ASSUME NEW p \in AlertParts, NEW q \in RunsOf(p), RunTells(p, q), UNCHANGED <<rows, told, crossed>>,
         run'[q].at = run[q].at, run[q].at \in {"write", "stamp"} => SameWork(run[q], run'[q]),
         run[q].mixed => run'[q].mixed
  PROVE  RunTells(p, q)'
<1>1. run[q].at \in {"write", "stamp"} => Told(p)!InHand(q)' = Told(p)!InHand(q)
  BY DEF SameWork, Told!InHand
<1>2. run[q].at = "write" /\ ~run[q].mixed /\ WillTell(p, q) => WillTell(p, q)'
  BY DEF SameWork, WillTell
<1> QED
  BY <1>1, <1>2 DEF SameWork, RunTells

LEMMA AlertsTick ==
  ASSUME NEW p \in AlertParts, AlertsSound(p), Told(p)!Tick
  PROVE  AlertsSound(p)'
<1> USE DEF Told!Tick
<1>1. now' \in 0..MaxAlertTime
  BY AlertBounds DEF AlertsSound, AlertsTyped
<1>2. \A q \in RunsOf(p) : RunTells(p, q)'
  BY TellsOn DEF AlertsSound, SameWork
<1> QED
  BY <1>1, <1>2, RunsMove DEF AlertsSound, AlertsTyped, RunAlone, SameWork

LEMMA AlertsReadDevices ==
  ASSUME NEW p \in AlertParts, AlertsSound(p), NEW r \in RunsOf(p),
         NEW seen \in {"never", "seen", "late"}, NEW bad \in SUBSET (Told(p)!AllKinds \ {"offline"}),
         Told(p)!ReadDevices(r, seen, bad)
  PROVE  AlertsSound(p)'
<1> DEFINE others == {q \in RunsOf(p) : run[q].at # "idle"}
           first == [at |-> "read", ts |-> now, active |-> Told(p)!Conditions(seen, bad), mixed |-> others # {}]
<1>1. /\ run[r].at = "idle"
      /\ run' = [q \in RunsOf(p) |-> IF q = r THEN first
                                     ELSE IF q \in others THEN [run[q] EXCEPT !.mixed = TRUE] ELSE run[q]]
      /\ UNCHANGED <<now, rows, told, crossed, lost, early, deaths>>
  BY DEF Told!ReadDevices
<1>2. AlertsTyped(p)
  BY DEF AlertsSound
<1>3. Told(p)!Conditions(seen, bad) \subseteq Told(p)!AllKinds
  BY AlertBounds DEF Told!AllKinds, Told!Conditions
<1>4. first \in Reading(p) /\ first.at = "read" /\ first.mixed = (others # {})
  BY <1>2, <1>3 DEF Reading, AlertsTyped
<1>5. ASSUME NEW q \in others
      PROVE  /\ q \in RunsOf(p) /\ q # r /\ run'[q] \in Reading(p) \cup Working(p)
             /\ run'[q].mixed = TRUE /\ SameWork(run[q], run'[q])
  <2>1. q \in RunsOf(p) /\ q # r /\ run[q] \in Reading(p) \cup Working(p)
    BY <1>1, <1>2, <1>5, RunIs
  <2>2. run'[q] = [run[q] EXCEPT !.mixed = TRUE]
    BY <1>1, <1>5, <2>1
  <2> QED
    BY <2>1, <2>2, JoinedIs
<1>6. run'[r] = first /\ \A q \in RunsOf(p) \ {r} : q \notin others => run'[q] = run[q] /\ run[q].at = "idle"
  BY <1>1
<1> HIDE DEF first
<1>7. run' \in [RunsOf(p) -> {Told(p)!Idle} \cup Reading(p) \cup Working(p)]
  <2>1. \A q \in RunsOf(p) : run'[q] \in {Told(p)!Idle} \cup Reading(p) \cup Working(p)
    BY <1>2, <1>4, <1>5, <1>6 DEF AlertsTyped
  <2> QED
    BY <1>1, <2>1
<1> HIDE DEF others
<1>8. ASSUME NEW q \in RunsOf(p), q # r
      PROVE  /\ run'[q].at = run[q].at /\ run[q].at \in {"write", "stamp"} => SameWork(run[q], run'[q])
             /\ q \in others => run'[q].mixed
             /\ q \notin others => run'[q] = run[q] /\ run[q].at = "idle"
  BY <1>5, <1>6, <1>8 DEF SameWork
<1>9. RunAlone(p)'
  <2>1. CASE others = {}
    BY <1>6, <1>8, <2>1 DEF RunAlone, RunsOf
  <2>2. CASE others # {}
    BY <1>4, <1>6, <1>8, <2>2 DEF RunAlone, RunsOf
  <2> QED
    BY <2>1, <2>2
<1>10. ASSUME NEW q \in RunsOf(p) PROVE RunTells(p, q)'
  <2>1. CASE q = r
    BY <1>4, <1>6, <2>1 DEF RunTells
  <2>2. CASE q # r /\ q \in others
    BY <1>1, <1>8, <2>2, TellsOn DEF AlertsSound
  <2>3. CASE q # r /\ q \notin others
    BY <1>8, <2>3 DEF RunTells
  <2> QED
    BY <2>1, <2>2, <2>3
<1>11. now' \in 0..MaxAlertTime /\ UNCHANGED <<rows, told, crossed, lost, early, deaths>>
  BY <1>1, <1>2 DEF AlertsTyped
<1>12. ASSUME NEW q \in RunsOf(p)
       PROVE  /\ run'[q].at = "stamp" <=> run[q].at = "stamp"
              /\ run[q].at = "write" => run'[q].at = "write"
              /\ run[q].at \in {"write", "stamp"} => SameWork(run[q], run'[q])
  BY <1>1, <1>4, <1>6, <1>8
<1> QED
  BY <1>7, <1>9, <1>10, <1>11, <1>12, RunsMove

LEMMA RowIs ==
  ASSUME NEW p \in AlertParts, AlertsTyped(p), NEW i \in 1..Len(rows)
  PROVE  /\ rows[i].kind \in Told(p)!AllKinds /\ rows[i].open \in BOOLEAN /\ rows[i].stamp \in AlertTimes
         /\ told[i].opened \in Nat /\ told[i].closed \in Nat /\ told[i].last \in AlertTimes
         /\ rows[i] \in AlertRow(p) /\ told[i] \in Announcement
<1>1. rows[i] \in AlertRow(p) /\ told[i] \in Announcement
  BY DEF AlertsTyped
<1> QED
  BY <1>1 DEF AlertRow, Announcement

LEMMA AlertsReadOpen ==
  ASSUME NEW p \in AlertParts, AlertsSound(p), NEW r \in RunsOf(p), Told(p)!ReadOpen(r)
  PROVE  AlertsSound(p)'
<1> DEFINE active == run[r].active
           going == {i \in 1..Len(rows) : rows[i].open /\ rows[i].kind \in active}
           next == [at |-> "write", ts |-> run[r].ts, mixed |-> run[r].mixed,
                    active |-> active, cur |-> {i \in 1..Len(rows) : rows[i].open},
                    todo |-> {k \in 1..Len(Kinds) : Told(p)!ToWrite(Kinds[k], active)},
                    opened |-> {i \in going : rows[i].stamp = NULL}, closed |-> {},
                    repeated |-> {i \in going : Told(p)!Repeats(i, run[r].ts)}]
<1>0. AlertsTyped(p) /\ RunAlone(p) /\ DOMAIN run = RunsOf(p)
  BY DEF AlertsSound, AlertsTyped
<1>1. /\ run[r].at = "read" /\ run' = [run EXCEPT ![r] = next]
      /\ UNCHANGED <<now, rows, told, crossed, lost, early, deaths>>
  BY DEF Told!ReadOpen, Told!Ids
<1>2. run[r].ts \in 0..MaxAlertTime /\ active \subseteq Told(p)!AllKinds /\ run[r].mixed \in BOOLEAN
  BY <1>0, <1>1, RunIs DEF Reading
<1>3. Len(rows) \in Nat /\ Len(Kinds) \in Nat
  BY <1>0, KindsCounted DEF AlertsTyped
<1>4. {k \in 1..Len(Kinds) : Told(p)!ToWrite(Kinds[k], active)} \subseteq Nat
  BY <1>3
<1>5. next \in Working(p)
  BY <1>2, <1>3, <1>4 DEF Working
<1>6. /\ next.at = "write" /\ next.ts = run[r].ts /\ next.mixed = run[r].mixed /\ next.closed = {}
      /\ next.cur = {i \in 1..Len(rows) : rows[i].open}
      /\ next.opened = {i \in going : rows[i].stamp = NULL}
      /\ next.repeated = {i \in going : Told(p)!Repeats(i, run[r].ts)}
  OBVIOUS
<1> HIDE DEF next
<1>7. run' \in [RunsOf(p) -> {Told(p)!Idle} \cup Reading(p) \cup Working(p)]
  BY <1>0, <1>1, <1>5 DEF AlertsTyped
<1>8. run'[r] = next /\ \A q \in RunsOf(p) : q # r => run'[q] = run[q]
  BY <1>0, <1>1
<1>9. RunAlone(p)'
  BY <1>0, <1>1, <1>6, <1>8 DEF RunAlone, RunsOf
<1>10. RunTells(p, r)'
  <2>1. Told(p)!InHand(r)' \cup run'[r].cur \subseteq 1..Len(rows)
    BY <1>6, <1>8 DEF Told!InHand
  <2>2. ASSUME ~run[r].mixed, NEW i \in 1..Len(rows) \ crossed
        PROVE  /\ i \in next.opened => told[i].opened = 0
               /\ i \in next.cur => told[i].closed = 0
               /\ i \in next.repeated => told[i].last # NULL /\ next.ts - told[i].last >= RepeatAfter
    <3>1. ~Holds(p, i)
      BY <1>0, <1>1, <2>2 DEF Holds, RunAlone
    <3>2. RowTold(p, i) /\ told[i].opened \in Nat /\ told[i].closed \in Nat
      BY <1>0, RowIs DEF AlertsSound
    <3> QED
      BY <1>6, <2>2, <3>1, <3>2 DEF RowTold, Told!Repeats
  <2>3. ~run[r].mixed => WillTell(p, r)'
    BY <1>1, <1>8, <2>2 DEF WillTell
  <2> QED
    BY <1>1, <1>6, <1>8, <2>1, <2>3 DEF RunTells
<1>11. ASSUME NEW q \in RunsOf(p) PROVE RunTells(p, q)'
  BY <1>1, <1>8, <1>10, TellsOn DEF AlertsSound, SameWork
<1>12. now' \in 0..MaxAlertTime
  BY <1>0, <1>1 DEF AlertsTyped
<1>13. ASSUME NEW q \in RunsOf(p)
       PROVE  /\ run'[q].at = "stamp" <=> run[q].at = "stamp"
              /\ run[q].at = "write" => run'[q].at = "write"
              /\ run[q].at \in {"write", "stamp"} => SameWork(run[q], run'[q])
  BY <1>1, <1>6, <1>8 DEF SameWork
<1> QED
  BY <1>1, <1>7, <1>9, <1>11, <1>12, <1>13, RunsMove

\* Run r is under way and goes on as x: the others are as they were, and whoever is under way
\* with it is joined.
LEMMA RunGoes ==
  ASSUME NEW p \in AlertParts, AlertsTyped(p), RunAlone(p), NEW r \in RunsOf(p), NEW x, run' = [run EXCEPT ![r] = x],
         run[r].at # "idle", x.at = "idle" \/ x.mixed = run[r].mixed,
         x \in {Told(p)!Idle} \cup Working(p)
  PROVE  /\ run' \in [RunsOf(p) -> {Told(p)!Idle} \cup Reading(p) \cup Working(p)]
         /\ run'[r] = x /\ \A q \in RunsOf(p) : q # r => run'[q] = run[q]
         /\ \A q \in RunsOf(p) : q # r /\ run[q].at # "idle" => run[q].mixed
         /\ RunAlone(p)'
<1>1. run'[r] = x /\ \A q \in RunsOf(p) : q # r => run'[q] = run[q]
  BY DEF AlertsTyped
<1>2. run' \in [RunsOf(p) -> {Told(p)!Idle} \cup Reading(p) \cup Working(p)]
  BY DEF AlertsTyped
<1>3. \A q \in RunsOf(p) : q # r /\ run[q].at # "idle" => run[q].mixed
  BY DEF RunAlone
<1>4. RunAlone(p)'
  BY <1>1 DEF RunAlone, RunsOf
<1> QED
  BY <1>1, <1>2, <1>3, <1>4

LEMMA SentIs ==
  ASSUME NEW p \in AlertParts, NEW x \in Working(p),
         NEW y, y = [x EXCEPT !.at = "stamp"]
  PROVE  /\ y \in Working(p) /\ y.at = "stamp" /\ y.ts = x.ts /\ y.mixed = x.mixed /\ y.cur = x.cur
         /\ y.opened = x.opened /\ y.closed = x.closed /\ y.repeated = x.repeated
<1> DEFINE z == [x EXCEPT !.at = "stamp"]
<1>1. z \in Working(p)
  BY DEF Working
<1>2. /\ z.at = "stamp" /\ z.ts = x.ts /\ z.mixed = x.mixed /\ z.cur = x.cur
      /\ z.opened = x.opened /\ z.closed = x.closed /\ z.repeated = x.repeated
  BY DEF Working
<1>3. y = z
  OBVIOUS
<1> HIDE DEF z
<1> QED
  BY <1>1, <1>2, <1>3

LEMMA AlertsOpen ==
  ASSUME NEW p \in AlertParts, AlertsSound(p), NEW r \in RunsOf(p), NEW k \in 1..Len(Kinds), Told(p)!Open(r, k)
  PROVE  AlertsSound(p)'
<1> DEFINE id == Len(rows) + 1
           done == [run[r] EXCEPT !.todo = @ \ {k}]
           opens == [run[r] EXCEPT !.todo = @ \ {k}, !.opened = @ \cup {id}]
<1>0. AlertsTyped(p) /\ RunAlone(p) /\ DOMAIN run = RunsOf(p) /\ Len(rows) \in Nat /\ RunTells(p, r)
  BY DEF AlertsSound, AlertsTyped
<1>1. run[r].at = "write" /\ run[r] \in Working(p)
  BY <1>0, RunIs DEF Told!Open, Told!Writes
<1>2. /\ done \in Working(p) /\ done.at = "write" /\ done.mixed = run[r].mixed /\ SameWork(run[r], done)
  BY <1>1 DEF Working, SameWork
<1>3. /\ opens \in Working(p) /\ opens.at = "write" /\ opens.mixed = run[r].mixed /\ opens.ts = run[r].ts
      /\ opens.cur = run[r].cur /\ opens.closed = run[r].closed /\ opens.repeated = run[r].repeated
      /\ opens.opened = run[r].opened \cup {id}
  <2>1. run[r].todo \ {k} \in SUBSET Nat /\ run[r].opened \cup {id} \in SUBSET Nat
    BY <1>0, <1>1, WorkingIs
  <2> DEFINE x == run[r]
             T == run[r].todo \ {k}
             S == run[r].opened \cup {id}
             z == [x EXCEPT !.todo = T, !.opened = S]
  <2>2. opens = z /\ x = run[r] /\ S = run[r].opened \cup {id}
    OBVIOUS
  <2>3. x \in Working(p) /\ T \in SUBSET Nat /\ S \in SUBSET Nat
    BY <1>1, <2>1
  <2> HIDE DEF opens, x, T, S
  <2>4. z \in Working(p)
    BY <2>3 DEF Working
  <2>5. /\ z.at = x.at /\ z.ts = x.ts /\ z.mixed = x.mixed /\ z.cur = x.cur
        /\ z.opened = S /\ z.closed = x.closed /\ z.repeated = x.repeated
    BY <2>3 DEF Working
  <2> HIDE DEF z
  <2> QED
    BY <1>1, <2>2, <2>4, <2>5
<1>4. UNCHANGED <<now, crossed, lost, early, deaths>>
  BY DEF Told!Open
<1>5. CASE UNCHANGED <<rows, told>> /\ run' = [run EXCEPT ![r].todo = @ \ {k}]
  <2>1. run' = [run EXCEPT ![r] = done]
    BY <1>5
  <2> HIDE DEF done
  <2>2. /\ run' \in [RunsOf(p) -> {Told(p)!Idle} \cup Reading(p) \cup Working(p)]
        /\ run'[r] = done /\ \A q \in RunsOf(p) : q # r => run'[q] = run[q]
        /\ RunAlone(p)'
    BY <1>0, <1>1, <1>2, <2>1, RunGoes
  <2>3. ASSUME NEW q \in RunsOf(p)
        PROVE  run'[q].at = run[q].at /\ SameWork(run[q], run'[q]) /\ (run[q].mixed => run'[q].mixed)
    BY <1>1, <1>2, <2>2 DEF SameWork
  <2>4. \A q \in RunsOf(p) : RunTells(p, q)'
    BY <1>4, <1>5, <2>3, TellsOn DEF AlertsSound
  <2>5. now' \in 0..MaxAlertTime
    BY <1>0, <1>4 DEF AlertsTyped
  <2> QED
    BY <1>4, <1>5, <2>2, <2>3, <2>4, <2>5, RunsMove
<1>6. CASE /\ rows' = Append(rows, [kind |-> Kinds[k], open |-> TRUE, stamp |-> NULL])
           /\ told' = Append(told, [opened |-> 0, closed |-> 0, last |-> NULL])
           /\ run' = [run EXCEPT ![r].todo = @ \ {k}, ![r].opened = @ \cup {Len(rows) + 1}]
  <2>1. run' = [run EXCEPT ![r] = opens]
    BY <1>0, <1>6
  <2> HIDE DEF opens, done
  <2>2. /\ run' \in [RunsOf(p) -> {Told(p)!Idle} \cup Reading(p) \cup Working(p)]
        /\ run'[r] = opens /\ \A q \in RunsOf(p) : q # r => run'[q] = run[q]
        /\ \A q \in RunsOf(p) : q # r /\ run[q].at # "idle" => run[q].mixed
        /\ RunAlone(p)'
    BY <1>0, <1>1, <1>3, <2>1, RunGoes
  <2> DEFINE row == [kind |-> Kinds[k], open |-> TRUE, stamp |-> NULL]
             tale == [opened |-> 0, closed |-> 0, last |-> NULL]
  <2>3. /\ row \in AlertRow(p) /\ row.open = TRUE /\ row.stamp = NULL
        /\ tale \in Announcement /\ tale.opened = 0 /\ tale.closed = 0 /\ tale.last = NULL
    BY DEF AlertRow, Announcement, AlertTimes, Told!AllKinds
  <2> HIDE DEF row, tale
  <2>4. /\ rows' \in Seq(AlertRow(p)) /\ Len(rows') = id /\ told' \in Seq(Announcement) /\ Len(told') = id
        /\ rows'[id] = row /\ told'[id] = tale /\ Len(told) = Len(rows)
        /\ \A i \in 1..Len(rows) : rows'[i] = rows[i] /\ told'[i] = told[i]
    BY <1>0, <1>6, <2>3 DEF AlertsTyped, row, tale
  <2>5. 1..id = 1..Len(rows) \cup {id} /\ id \notin 1..Len(rows)
    BY <1>0
  <2> HIDE DEF id
  <2>6. AlertsTyped(p)'
    BY <1>0, <1>4, <2>2, <2>4, <2>5 DEF AlertsTyped, AlertRow, Reading, Working, Told!AllKinds, Told!Idle, RunsOf
  <2>7. \A i : Holds(p, i)' <=> Holds(p, i)
    BY <1>1, <1>3, <2>2 DEF Holds, Told!InHand
  <2>8. ASSUME NEW i \in 1..id PROVE RowTold(p, i)'
    <3>1. CASE i = id
      BY <1>4, <2>3, <2>4, <2>5, <3>1 DEF RowTold
    <3>2. CASE i \in 1..Len(rows)
      BY <1>4, <2>4, <2>7, <3>2 DEF RowTold, AlertsSound
    <3> QED
      BY <2>5, <3>1, <3>2
  <2>9. ASSUME NEW q \in RunsOf(p), q # r PROVE RunTells(p, q)'
    <3>1. run'[q] = run[q] /\ (run[q].at # "idle" => run[q].mixed) /\ RunTells(p, q)
      BY <2>2, <2>9 DEF AlertsSound
    <3>2. Told(p)!InHand(q)' = Told(p)!InHand(q)
      BY <3>1 DEF Told!InHand
    <3>3. run[q].at = "write" => run[q].closed \subseteq run[q].cur /\ \A i \in run[q].closed : ~rows'[i].open
      BY <2>4, <3>1 DEF RunTells, Told!InHand
    <3>4. run[q].at = "stamp" => \A i \in Told(p)!InHand(q) : /\ told'[i].last # NULL
                                                              /\ i \notin crossed' => told'[i].last = run[q].ts
      BY <1>4, <2>4, <3>1 DEF RunTells
    <3> QED
      BY <2>4, <2>5, <3>1, <3>2, <3>3, <3>4 DEF RunTells
  <2>10. RunTells(p, r)'
    <3>1. Told(p)!InHand(r)' \cup run'[r].cur \subseteq 1..Len(rows)'
      BY <1>0, <1>1, <1>3, <2>2, <2>4, <2>5 DEF RunTells, Told!InHand
    <3>2. opens.closed \subseteq opens.cur /\ \A i \in opens.closed : ~rows'[i].open
      BY <1>0, <1>1, <1>3, <2>4 DEF RunTells
    <3>3. ASSUME ~run[r].mixed PROVE WillTell(p, r)'
      <4>1. WillTell(p, r) /\ run[r].cur \cup run[r].repeated \cup run[r].opened \subseteq 1..Len(rows)
        BY <1>0, <1>1, <3>3 DEF RunTells, Told!InHand
      <4>2. ASSUME NEW i \in 1..id, i \notin crossed
            PROVE  /\ i \in opens.opened => told'[i].opened = 0
                   /\ i \in opens.cur => told'[i].closed = 0
                   /\ i \in opens.repeated => told'[i].last # NULL /\ opens.ts - told'[i].last >= RepeatAfter
        <5>1. CASE i = id
          BY <1>3, <2>3, <2>4, <2>5, <4>1, <5>1
        <5>2. CASE i \in 1..Len(rows)
          BY <1>3, <2>4, <2>5, <4>1, <4>2, <5>2 DEF WillTell
        <5> QED
          BY <2>5, <5>1, <5>2
      <4> QED
        BY <1>4, <2>2, <2>4, <4>2 DEF WillTell
    <3> QED
      BY <1>3, <2>2, <3>1, <3>2, <3>3 DEF RunTells
  <2>11. Told(p)!RecoveryTold'
    <3>1. ASSUME NEW i \in 1..Len(rows) \ lost
          PROVE  rows[i].open \/ told[i].closed > 0 \/ \E q \in RunsOf(p) : run[q].at = "write" /\ i \in run[q].closed
      BY DEF AlertsSound, Told!RecoveryTold, Told!Ids
    <3>2. \A q \in RunsOf(p) : run'[q].at = run[q].at /\ (run[q].at = "write" => run'[q].closed = run[q].closed)
      BY <1>1, <1>3, <2>2
    <3> QED
      BY <1>4, <2>3, <2>4, <2>5, <3>1, <3>2 DEF Told!RecoveryTold, Told!Ids
  <2>12. (early \subseteq crossed)'
    BY <1>4 DEF AlertsSound
  <2> QED
    BY <2>2, <2>4, <2>6, <2>8, <2>9, <2>10, <2>11, <2>12 DEF AlertsSound, RunsOf
<1> QED
  BY <1>5, <1>6 DEF Told!Open

LEMMA AlertsClose ==
  ASSUME NEW p \in AlertParts, AlertsSound(p), NEW r \in RunsOf(p), NEW k \in 1..Len(Kinds), Told(p)!Close(r, k)
  PROVE  AlertsSound(p)'
<1> DEFINE ids == {i \in run[r].cur : rows[i].kind = Kinds[k]}
           closes == [run[r] EXCEPT !.todo = @ \ {k}, !.closed = @ \cup ids]
           e(i) == IF i \in ids THEN [rows[i] EXCEPT !.open = FALSE] ELSE rows[i]
<1>0. AlertsTyped(p) /\ RunAlone(p) /\ DOMAIN run = RunsOf(p) /\ Len(rows) \in Nat /\ RunTells(p, r)
  BY DEF AlertsSound, AlertsTyped
<1>1. run[r].at = "write" /\ run[r] \in Working(p)
  BY <1>0, RunIs DEF Told!Close, Told!Writes
<1>2. /\ rows' = [i \in 1..Len(rows) |-> e(i)] /\ run' = [run EXCEPT ![r].todo = @ \ {k}, ![r].closed = @ \cup ids]
      /\ UNCHANGED <<now, told, crossed, lost, early, deaths>>
  BY DEF Told!Close, Told!Ids
<1>3. /\ closes \in Working(p) /\ closes.at = "write" /\ closes.mixed = run[r].mixed /\ closes.ts = run[r].ts
      /\ closes.cur = run[r].cur /\ closes.opened = run[r].opened /\ closes.repeated = run[r].repeated
      /\ closes.closed = run[r].closed \cup ids
  <2>1. run[r].todo \ {k} \in SUBSET Nat /\ run[r].closed \cup ids \in SUBSET Nat
    BY <1>0, <1>1, WorkingIs
  <2> DEFINE x == run[r]
             T == run[r].todo \ {k}
             S == run[r].closed \cup ids
             z == [x EXCEPT !.todo = T, !.closed = S]
  <2>2. closes = z /\ x = run[r] /\ S = run[r].closed \cup ids
    OBVIOUS
  <2>3. x \in Working(p) /\ T \in SUBSET Nat /\ S \in SUBSET Nat
    BY <1>1, <2>1
  <2> HIDE DEF closes, x, T, S
  <2>4. z \in Working(p)
    BY <2>3 DEF Working
  <2>5. /\ z.at = x.at /\ z.ts = x.ts /\ z.mixed = x.mixed /\ z.cur = x.cur
        /\ z.opened = x.opened /\ z.closed = S /\ z.repeated = x.repeated
    BY <2>3 DEF Working
  <2> HIDE DEF z
  <2> QED
    BY <1>1, <2>2, <2>4, <2>5
<1>4. run' = [run EXCEPT ![r] = closes]
  BY <1>0, <1>2
<1>5. ids \subseteq run[r].cur /\ run[r].cur \subseteq 1..Len(rows)
  BY <1>0, <1>1 DEF RunTells
<1>6. ASSUME NEW i \in 1..Len(rows)
      PROVE  /\ e(i) \in AlertRow(p) /\ e(i).kind = rows[i].kind /\ e(i).stamp = rows[i].stamp
             /\ e(i).open = IF i \in ids THEN FALSE ELSE rows[i].open
  BY <1>0, RowIs DEF AlertRow
<1> HIDE DEF e, ids, closes
<1>7. /\ rows' \in Seq(AlertRow(p)) /\ Len(rows') = Len(rows)
      /\ \A i \in 1..Len(rows) : rows'[i].stamp = rows[i].stamp /\ rows'[i].open = IF i \in ids THEN FALSE ELSE rows[i].open
  <2>1. rows' \in [1..Len(rows) -> AlertRow(p)] /\ \A i \in 1..Len(rows) : rows'[i] = e(i)
    BY <1>2, <1>6
  <2> QED
    BY <1>0, <1>6, <2>1, SeqIs
<1>8. /\ run' \in [RunsOf(p) -> {Told(p)!Idle} \cup Reading(p) \cup Working(p)]
      /\ run'[r] = closes /\ \A q \in RunsOf(p) : q # r => run'[q] = run[q]
      /\ \A q \in RunsOf(p) : q # r /\ run[q].at # "idle" => run[q].mixed
      /\ RunAlone(p)'
  BY <1>0, <1>1, <1>3, <1>4, RunGoes
<1>9. AlertsTyped(p)'
  BY <1>0, <1>2, <1>7, <1>8 DEF AlertsTyped, AlertRow, Reading, Working, Told!AllKinds, Told!Idle, RunsOf
<1>10. \A i : Holds(p, i)' <=> Holds(p, i)
  BY <1>1, <1>3, <1>8 DEF Holds, Told!InHand
<1>11. ASSUME NEW i \in 1..Len(rows) PROVE RowTold(p, i)'
  <2>1. RowTold(p, i)
    BY DEF AlertsSound
  <2> QED
    BY <1>2, <1>7, <1>10, <2>1 DEF RowTold
<1>12. ASSUME NEW q \in RunsOf(p), q # r PROVE RunTells(p, q)'
  <2>1. run'[q] = run[q] /\ (run[q].at # "idle" => run[q].mixed) /\ RunTells(p, q)
    BY <1>8, <1>12 DEF AlertsSound
  <2>2. Told(p)!InHand(q)' = Told(p)!InHand(q)
    BY <2>1 DEF Told!InHand
  <2>3. run[q].at = "write" => run[q].closed \subseteq run[q].cur /\ \A i \in run[q].closed : ~rows'[i].open
    BY <1>7, <2>1 DEF RunTells, Told!InHand
  <2>4. run[q].at = "stamp" => \A i \in Told(p)!InHand(q) : /\ told'[i].last # NULL
                                                            /\ i \notin crossed' => told'[i].last = run[q].ts
    BY <1>2, <2>1 DEF RunTells
  <2> QED
    BY <1>7, <2>1, <2>2, <2>3, <2>4 DEF RunTells
<1>13. RunTells(p, r)'
  <2>1. Told(p)!InHand(r)' \cup run'[r].cur \subseteq 1..Len(rows)
    BY <1>0, <1>1, <1>3, <1>5, <1>8 DEF RunTells, Told!InHand
  <2>2. closes.closed \subseteq closes.cur /\ \A i \in closes.closed : ~rows'[i].open
    BY <1>0, <1>1, <1>3, <1>5, <1>7 DEF RunTells
  <2>3. ASSUME ~run[r].mixed PROVE WillTell(p, r)'
    <3>1. WillTell(p, r)
      BY <1>0, <1>1, <2>3 DEF RunTells
    <3> QED
      BY <1>2, <1>3, <1>7, <1>8, <3>1 DEF WillTell
  <2> QED
    BY <1>3, <1>7, <1>8, <2>1, <2>2, <2>3 DEF RunTells
<1>14. Told(p)!RecoveryTold'
  <2>1. ASSUME NEW i \in 1..Len(rows) \ lost
        PROVE  rows[i].open \/ told[i].closed > 0 \/ \E q \in RunsOf(p) : run[q].at = "write" /\ i \in run[q].closed
    BY DEF AlertsSound, Told!RecoveryTold, Told!Ids
  <2>2. \A q \in RunsOf(p) : run[q].at = "write" => run'[q].at = "write" /\ run[q].closed \subseteq run'[q].closed
    BY <1>1, <1>3, <1>8
  <2>3. \A i \in ids : run'[r].at = "write" /\ i \in run'[r].closed
    BY <1>3, <1>8
  <2> QED
    BY <1>2, <1>7, <2>1, <2>2, <2>3 DEF Told!RecoveryTold, Told!Ids
<1>15. (early \subseteq crossed)'
  BY <1>2 DEF AlertsSound
<1> QED
  BY <1>7, <1>8, <1>9, <1>11, <1>12, <1>13, <1>14, <1>15 DEF AlertsSound, RunsOf

LEMMA AlertsStamp ==
  ASSUME NEW p \in AlertParts, AlertsSound(p), NEW r \in RunsOf(p), Told(p)!Stamp(r)
  PROVE  AlertsSound(p)'
<1> DEFINE hand == Told(p)!InHand(r)
           ts == run[r].ts
           e(i) == IF i \in hand THEN [rows[i] EXCEPT !.stamp = ts] ELSE rows[i]
<1>0. AlertsTyped(p) /\ RunAlone(p) /\ DOMAIN run = RunsOf(p) /\ Len(rows) \in Nat /\ RunTells(p, r)
  BY DEF AlertsSound, AlertsTyped
<1>1. run[r].at = "stamp" /\ run[r] \in Working(p) /\ ts \in 0..MaxAlertTime
  BY <1>0, RunIs, WorkingIs DEF Told!Stamp
<1>2. /\ rows' = [i \in 1..Len(rows) |-> e(i)] /\ run' = [run EXCEPT ![r] = Told(p)!Idle]
      /\ UNCHANGED <<now, told, crossed, lost, early, deaths>>
  BY DEF Told!Stamp, Told!Ids, Told!Stamped
<1>3. hand \subseteq 1..Len(rows) /\ \A i \in hand : told[i].last # NULL /\ (i \notin crossed => told[i].last = ts)
  BY <1>0, <1>1 DEF RunTells
<1>4. ASSUME NEW i \in 1..Len(rows)
      PROVE  /\ e(i) \in AlertRow(p) /\ e(i).open = rows[i].open
             /\ e(i).stamp = IF i \in hand THEN ts ELSE rows[i].stamp
  BY <1>0, <1>1, RowIs DEF AlertRow, AlertTimes
<1>5. ts # NULL
  BY <1>1, AlertBounds
<1> HIDE DEF e, hand, ts
<1>6. /\ rows' \in Seq(AlertRow(p)) /\ Len(rows') = Len(rows)
      /\ \A i \in 1..Len(rows) : rows'[i].open = rows[i].open /\ rows'[i].stamp = IF i \in hand THEN ts ELSE rows[i].stamp
  <2>1. rows' \in [1..Len(rows) -> AlertRow(p)] /\ \A i \in 1..Len(rows) : rows'[i] = e(i)
    BY <1>2, <1>4
  <2> QED
    BY <1>0, <1>4, <2>1, SeqIs
<1>7. /\ run' \in [RunsOf(p) -> {Told(p)!Idle} \cup Reading(p) \cup Working(p)]
      /\ run'[r] = Told(p)!Idle /\ \A q \in RunsOf(p) : q # r => run'[q] = run[q]
      /\ \A q \in RunsOf(p) : q # r /\ run[q].at # "idle" => run[q].mixed
      /\ RunAlone(p)' /\ Told(p)!Idle.at = "idle"
  BY <1>0, <1>1, <1>2, RunGoes DEF Told!Idle
<1>8. AlertsTyped(p)'
  BY <1>0, <1>2, <1>6, <1>7 DEF AlertsTyped, AlertRow, Reading, Working, Told!AllKinds, Told!Idle, RunsOf
<1>9. ASSUME NEW i, i \notin hand PROVE Holds(p, i) => Holds(p, i)'
  BY <1>7, <1>9 DEF Holds, Told!InHand, hand
<1>10. ASSUME NEW i \in 1..Len(rows) PROVE RowTold(p, i)'
  <2>1. RowTold(p, i)
    BY DEF AlertsSound
  <2>2. CASE i \in hand
    BY <1>2, <1>3, <1>5, <1>6, <2>1, <2>2 DEF RowTold
  <2>3. CASE i \notin hand
    BY <1>2, <1>6, <1>9, <2>1, <2>3 DEF RowTold
  <2> QED
    BY <2>2, <2>3
<1>11. ASSUME NEW q \in RunsOf(p) PROVE RunTells(p, q)'
  <2>1. CASE q = r
    BY <1>7, <2>1 DEF RunTells
  <2>2. CASE q # r
    <3>1. run'[q] = run[q] /\ (run[q].at # "idle" => run[q].mixed) /\ RunTells(p, q)
      BY <1>7, <2>2 DEF AlertsSound
    <3>2. Told(p)!InHand(q)' = Told(p)!InHand(q)
      BY <3>1 DEF Told!InHand
    <3>3. run[q].at = "write" => run[q].closed \subseteq run[q].cur /\ \A i \in run[q].closed : ~rows'[i].open
      BY <1>6, <3>1 DEF RunTells, Told!InHand
    <3>4. run[q].at = "stamp" => \A i \in Told(p)!InHand(q) : /\ told'[i].last # NULL
                                                              /\ i \notin crossed' => told'[i].last = run[q].ts
      BY <1>2, <3>1 DEF RunTells
    <3> QED
      BY <1>6, <3>1, <3>2, <3>3, <3>4 DEF RunTells
  <2> QED
    BY <2>1, <2>2
<1>12. Told(p)!RecoveryTold'
  <2>1. ASSUME NEW i \in 1..Len(rows) \ lost
        PROVE  rows[i].open \/ told[i].closed > 0 \/ \E q \in RunsOf(p) : run[q].at = "write" /\ i \in run[q].closed
    BY DEF AlertsSound, Told!RecoveryTold, Told!Ids
  <2>2. \A q \in RunsOf(p) : run[q].at = "write" => run'[q] = run[q]
    BY <1>1, <1>7
  <2> QED
    BY <1>2, <1>6, <2>1, <2>2 DEF Told!RecoveryTold, Told!Ids
<1>13. (early \subseteq crossed)'
  BY <1>2 DEF AlertsSound
<1> QED
  BY <1>6, <1>7, <1>8, <1>10, <1>11, <1>12, <1>13 DEF AlertsSound, RunsOf

LEMMA AlertsSend ==
  ASSUME NEW p \in AlertParts, AlertsSound(p), NEW r \in RunsOf(p), Told(p)!Send(r)
  PROVE  AlertsSound(p)'
<1> DEFINE hand == Told(p)!InHand(r)
           ts == run[r].ts
           x == IF hand = {} THEN Told(p)!Idle ELSE [run[r] EXCEPT !.at = "stamp"]
           e(i) == IF i \in hand THEN Told(p)!Announced(i, r) ELSE told[i]
<1>0. AlertsTyped(p) /\ RunAlone(p) /\ DOMAIN run = RunsOf(p) /\ Len(rows) \in Nat /\ RunTells(p, r)
  BY DEF AlertsSound, AlertsTyped
<1>1. run[r].at = "write" /\ run[r] \in Working(p) /\ ts \in 0..MaxAlertTime /\ run[r].mixed \in BOOLEAN
  BY <1>0, RunIs, WorkingIs DEF Told!Send
<1>2. /\ told' = [i \in 1..Len(rows) |-> e(i)] /\ run' = [run EXCEPT ![r] = x]
      /\ crossed' = IF run[r].mixed THEN crossed \cup hand ELSE crossed
      /\ early' = early \cup {i \in run[r].repeated : ts - told[i].last < RepeatAfter}
      /\ UNCHANGED <<now, rows, lost, deaths>>
  BY DEF Told!Send, Told!Ids
<1>3. /\ hand \subseteq 1..Len(rows) /\ run[r].closed \subseteq run[r].cur
      /\ hand = run[r].opened \cup run[r].closed \cup run[r].repeated
      /\ \A i \in run[r].closed : ~rows[i].open
      /\ ~run[r].mixed => WillTell(p, r)
  BY <1>0, <1>1 DEF RunTells, Told!InHand
<1>4. ASSUME NEW i \in 1..Len(rows)
      PROVE  /\ e(i) \in Announcement
             /\ i \in hand => /\ e(i).last = ts
                              /\ e(i).opened = told[i].opened + (IF i \in run[r].opened THEN 1 ELSE 0)
                              /\ e(i).closed = told[i].closed + (IF i \in run[r].closed THEN 1 ELSE 0)
             /\ i \notin hand => e(i) = told[i]
  BY <1>0, <1>1, RowIs DEF Announcement, AlertTimes, Told!Announced
<1>5. ts # NULL
  BY <1>1, AlertBounds
<1>6. /\ x \in {Told(p)!Idle} \cup Working(p) /\ x.at = (IF hand = {} THEN "idle" ELSE "stamp")
      /\ hand # {} => /\ x.at = "stamp" /\ x.ts = ts /\ x.mixed = run[r].mixed /\ x.cur = run[r].cur
                      /\ x.opened = run[r].opened /\ x.closed = run[r].closed /\ x.repeated = run[r].repeated
  <2>1. CASE hand = {}
    BY <2>1 DEF Told!Idle
  <2>2. CASE hand # {}
    <3>1. x = [run[r] EXCEPT !.at = "stamp"]
      BY <2>2
    <3> QED
      BY <1>1, <2>2, <3>1, SentIs
  <2> QED
    BY <2>1, <2>2
<1> HIDE DEF e, hand, ts, x
<1>7. /\ told' \in Seq(Announcement) /\ Len(told') = Len(rows)
      /\ \A i \in 1..Len(rows) : told'[i] = e(i)
  <2>1. told' \in [1..Len(rows) -> Announcement] /\ \A i \in 1..Len(rows) : told'[i] = e(i)
    BY <1>2, <1>4
  <2> QED
    BY <1>0, <2>1, SeqIs
<1>8. /\ run' \in [RunsOf(p) -> {Told(p)!Idle} \cup Reading(p) \cup Working(p)]
      /\ run'[r] = x /\ \A q \in RunsOf(p) : q # r => run'[q] = run[q]
      /\ \A q \in RunsOf(p) : q # r /\ run[q].at # "idle" => run[q].mixed /\ run[r].mixed
      /\ RunAlone(p)'
  <2>1. x.at = "idle" \/ x.mixed = run[r].mixed
    BY <1>6
  <2>2. \A q \in RunsOf(p) : q # r /\ run[q].at # "idle" => run[r].mixed
    BY <1>0, <1>1 DEF RunAlone
  <2> QED
    <3>1. x \in {Told(p)!Idle} \cup Working(p) /\ run[r].at # "idle"
      BY <1>1, <1>6
    <3> QED
      BY <1>0, <1>2, <2>1, <2>2, <3>1, RunGoes
<1>9. crossed \subseteq crossed' /\ crossed' \cup early' \subseteq 1..Len(rows) /\ early' \subseteq crossed'
  <2>1. early \subseteq crossed /\ crossed \subseteq 1..Len(rows)
    BY <1>0 DEF AlertsSound, AlertsTyped
  <2>2. ASSUME NEW i \in run[r].repeated, ts - told[i].last < RepeatAfter PROVE i \in crossed'
    <3>1. CASE run[r].mixed
      BY <1>2, <1>3, <2>2, <3>1
    <3>2. CASE ~run[r].mixed /\ i \notin crossed
      <4>1. i \in 1..Len(rows) /\ told[i].last # NULL /\ ts - told[i].last >= RepeatAfter
        BY <1>3, <2>2, <3>2 DEF WillTell, ts
      <4>2. told[i].last \in 0..MaxAlertTime
        BY <1>0, <4>1, RowIs DEF AlertTimes
      <4> QED
        BY <1>1, <2>2, <4>1, <4>2, AlertBounds
    <3> QED
      BY <1>2, <3>1, <3>2
  <2> QED
    BY <1>2, <1>3, <2>1, <2>2
<1>10. AlertsTyped(p)'
  BY <1>0, <1>2, <1>7, <1>8, <1>9 DEF AlertsTyped, AlertRow, Reading, Working, Told!AllKinds, Told!Idle, RunsOf
<1>11. /\ \A i : Holds(p, i) => Holds(p, i)'
       /\ \A i \in hand : Holds(p, i)'
  <2>1. hand # {} => run'[r].at = "stamp" /\ Told(p)!InHand(r)' = hand
    BY <1>3, <1>6, <1>8 DEF Told!InHand
  <2>2. \A q \in RunsOf(p) : run[q].at = "stamp" => run'[q] = run[q] /\ Told(p)!InHand(q)' = Told(p)!InHand(q)
    BY <1>1, <1>8 DEF Told!InHand
  <2> QED
    BY <2>1, <2>2 DEF Holds, RunsOf
<1>12. ASSUME NEW i \in 1..Len(rows) PROVE RowTold(p, i)'
  <2>1. RowTold(p, i) /\ told[i].opened \in Nat /\ told[i].closed \in Nat
    BY <1>0, RowIs DEF AlertsSound
  <2>2. CASE i \in hand /\ i \in crossed'
    BY <1>2, <1>3, <1>4, <1>5, <1>7, <2>1, <2>2 DEF RowTold
  <2>3. CASE i \in hand /\ i \notin crossed'
    <3>1. ~run[r].mixed /\ i \notin crossed
      BY <1>2, <1>9, <2>3
    <3>2. /\ i \in run[r].opened => told[i].opened = 0
          /\ i \in run[r].cur => told[i].closed = 0
      BY <1>3, <3>1 DEF WillTell
    <3>3. told[i].opened <= 1 /\ told[i].closed <= 1
      BY <2>1, <3>1 DEF RowTold
    <3>4. told'[i].opened <= 1 /\ told'[i].closed <= 1
      BY <1>3, <1>4, <1>7, <2>1, <2>3, <3>2, <3>3
    <3>5. told'[i].closed > 0 => ~rows[i].open
      BY <1>3, <1>4, <1>7, <2>1, <2>3 DEF RowTold
    <3> QED
      BY <1>2, <1>4, <1>5, <1>7, <1>11, <2>3, <3>4, <3>5 DEF RowTold
  <2>4. CASE i \notin hand
    <3>1. told'[i] = told[i] /\ (i \notin crossed' => i \notin crossed)
      BY <1>4, <1>7, <1>9, <2>4
    <3> QED
      BY <1>2, <1>11, <2>1, <3>1 DEF RowTold
  <2> QED
    BY <2>2, <2>3, <2>4
<1>13. ASSUME NEW q \in RunsOf(p), q # r PROVE RunTells(p, q)'
  <2>1. run'[q] = run[q] /\ (run[q].at # "idle" => run[q].mixed /\ run[r].mixed) /\ RunTells(p, q)
    BY <1>8, <1>13 DEF AlertsSound
  <2>2. Told(p)!InHand(q)' = Told(p)!InHand(q)
    BY <2>1 DEF Told!InHand
  <2>3. run[q].at = "write" => run[q].closed \subseteq run[q].cur /\ \A i \in run[q].closed : ~rows'[i].open
    BY <1>2, <2>1 DEF RunTells
  <2>4. ASSUME run[q].at = "stamp", NEW i \in Told(p)!InHand(q)
        PROVE  told'[i].last # NULL /\ (i \notin crossed' => told'[i].last = run[q].ts)
    <3>1. i \in 1..Len(rows) /\ told[i].last # NULL /\ (i \notin crossed => told[i].last = run[q].ts)
      BY <2>1, <2>4 DEF RunTells
    <3>2. crossed' = crossed \cup hand
      BY <1>2, <2>1, <2>4
    <3> QED
      BY <1>4, <1>5, <1>7, <3>1, <3>2
  <2> QED
    BY <1>2, <2>1, <2>2, <2>3, <2>4 DEF RunTells
<1>14. RunTells(p, r)'
  <2>1. CASE hand = {}
    BY <1>6, <1>8, <2>1 DEF RunTells
  <2>2. CASE hand # {}
    <3>1. run'[r].at = "stamp" /\ run'[r].ts = ts /\ run'[r].cur = run[r].cur /\ Told(p)!InHand(r)' = hand
      BY <1>3, <1>6, <1>8, <2>2 DEF Told!InHand
    <3>2. run[r].cur \subseteq 1..Len(rows)
      BY <1>0, <1>1 DEF RunTells
    <3>3. \A i \in hand : told'[i].last = ts
      BY <1>3, <1>4, <1>7
    <3> QED
      BY <1>2, <1>3, <1>5, <3>1, <3>2, <3>3 DEF RunTells
  <2> QED
    BY <2>1, <2>2
<1>15. Told(p)!RecoveryTold'
  <2>1. ASSUME NEW i \in 1..Len(rows) \ lost
        PROVE  rows[i].open \/ told'[i].closed > 0 \/ \E q \in RunsOf(p) : run'[q].at = "write" /\ i \in run'[q].closed
    <3>1. rows[i].open \/ told[i].closed > 0 \/ \E q \in RunsOf(p) : run[q].at = "write" /\ i \in run[q].closed
      BY DEF AlertsSound, Told!RecoveryTold, Told!Ids
    <3>2. told[i].closed \in Nat
      BY <1>0, RowIs
    <3>3. told'[i].closed >= told[i].closed /\ (i \in run[r].closed => told'[i].closed > 0)
      BY <1>3, <1>4, <1>7, <3>2
    <3>4. \A q \in RunsOf(p) : q # r => run'[q] = run[q]
      BY <1>8
    <3>5. CASE \E q \in RunsOf(p) : q # r /\ run[q].at = "write" /\ i \in run[q].closed
      BY <3>4, <3>5
    <3>6. told'[i].closed \in Nat
      BY <1>4, <1>7 DEF Announcement
    <3> QED
      BY <3>1, <3>2, <3>3, <3>5, <3>6
  <2> QED
    BY <1>2, <2>1 DEF Told!RecoveryTold, Told!Ids, RunsOf
<1> QED
  BY <1>2, <1>8, <1>9, <1>10, <1>12, <1>13, <1>14, <1>15 DEF AlertsSound, RunsOf

LEMMA AlertsDie ==
  ASSUME NEW p \in AlertParts, AlertsSound(p), NEW r \in RunsOf(p), Told(p)!Die(r)
  PROVE  AlertsSound(p)'
<1> DEFINE hand == Told(p)!InHand(r)
<1>0. AlertsTyped(p) /\ RunAlone(p) /\ DOMAIN run = RunsOf(p) /\ Len(rows) \in Nat /\ RunTells(p, r)
  BY DEF AlertsSound, AlertsTyped
<1>1. /\ run[r].at # "idle" /\ deaths' = deaths + 1 /\ deaths < MaxDeaths /\ run' = [run EXCEPT ![r] = Told(p)!Idle]
      /\ crossed' = IF run[r].at = "stamp" THEN crossed \cup hand ELSE crossed
      /\ lost' = IF run[r].at = "write" THEN lost \cup run[r].closed ELSE lost
      /\ UNCHANGED <<now, rows, told, early>>
  BY DEF Told!Die
<1>2. /\ run[r].at = "stamp" => hand \subseteq 1..Len(rows)
      /\ run[r].at = "write" => run[r].closed \subseteq 1..Len(rows)
  BY <1>0 DEF RunTells, Told!InHand
<1> HIDE DEF hand
<1>3. /\ crossed \subseteq crossed' /\ lost \subseteq lost' /\ crossed' \cup lost' \subseteq 1..Len(rows)
      /\ deaths' \in 0..MaxDeaths
  BY <1>0, <1>1, <1>2, AlertBounds DEF AlertsTyped
<1>4. /\ run' \in [RunsOf(p) -> {Told(p)!Idle} \cup Reading(p) \cup Working(p)]
      /\ run'[r] = Told(p)!Idle /\ \A q \in RunsOf(p) : q # r => run'[q] = run[q]
      /\ \A q \in RunsOf(p) : q # r /\ run[q].at # "idle" => run[q].mixed
      /\ RunAlone(p)' /\ Told(p)!Idle.at = "idle"
  BY <1>0, <1>1, RunGoes DEF Told!Idle
<1>5. AlertsTyped(p)'
  BY <1>0, <1>1, <1>3, <1>4 DEF AlertsTyped, AlertRow, Reading, Working, Told!AllKinds, Told!Idle, RunsOf
<1>6. ASSUME NEW i, i \notin crossed' PROVE Holds(p, i) => Holds(p, i)'
  BY <1>1, <1>4, <1>6 DEF Holds, Told!InHand, hand
<1>7. ASSUME NEW i \in 1..Len(rows) PROVE RowTold(p, i)'
  <2>1. RowTold(p, i)
    BY DEF AlertsSound
  <2> QED
    BY <1>1, <1>3, <1>6, <2>1 DEF RowTold
<1>8. ASSUME NEW q \in RunsOf(p) PROVE RunTells(p, q)'
  <2>1. CASE q = r
    BY <1>4, <2>1 DEF RunTells
  <2>2. CASE q # r
    <3>1. run'[q] = run[q] /\ (run[q].at # "idle" => run[q].mixed) /\ RunTells(p, q)
      BY <1>4, <2>2 DEF AlertsSound
    <3>2. Told(p)!InHand(q)' = Told(p)!InHand(q)
      BY <3>1 DEF Told!InHand
    <3>3. run[q].at = "stamp" => \A i \in Told(p)!InHand(q) : told[i].last # NULL /\ (i \notin crossed' => told[i].last = run[q].ts)
      BY <1>3, <3>1 DEF RunTells
    <3> QED
      BY <1>1, <3>1, <3>2, <3>3 DEF RunTells
  <2> QED
    BY <2>1, <2>2
<1>9. Told(p)!RecoveryTold'
  <2>1. ASSUME NEW i \in 1..Len(rows) \ lost'
        PROVE  rows[i].open \/ told[i].closed > 0 \/ \E q \in RunsOf(p) : run'[q].at = "write" /\ i \in run'[q].closed
    <3>1. rows[i].open \/ told[i].closed > 0 \/ \E q \in RunsOf(p) : run[q].at = "write" /\ i \in run[q].closed
      BY <1>3 DEF AlertsSound, Told!RecoveryTold, Told!Ids
    <3>2. ~(run[r].at = "write" /\ i \in run[r].closed)
      BY <1>1
    <3> QED
      BY <1>4, <3>1, <3>2
  <2> QED
    BY <1>1, <2>1 DEF Told!RecoveryTold, Told!Ids, RunsOf
<1>10. (early \subseteq crossed)'
  BY <1>1, <1>3 DEF AlertsSound
<1> QED
  BY <1>1, <1>4, <1>5, <1>7, <1>8, <1>9, <1>10 DEF AlertsSound, RunsOf

LEMMA AlertsStep ==
  ASSUME NEW p \in AlertParts, AlertsSound(p), Told(p)!Next
  PROVE  AlertsSound(p)'
<1> USE DEF Told!Next
<1>1. CASE Told(p)!Tick
  BY <1>1, AlertsTick
<1>2. ASSUME NEW r \in RunsOf(p), NEW seen \in {"never", "seen", "late"}, NEW bad \in SUBSET (Told(p)!AllKinds \ {"offline"}),
             Told(p)!ReadDevices(r, seen, bad)
      PROVE  AlertsSound(p)'
  BY <1>2, AlertsReadDevices
<1>3. ASSUME NEW r \in RunsOf(p), Told(p)!ReadOpen(r) \/ Told(p)!Send(r) \/ Told(p)!Stamp(r) \/ Told(p)!Die(r)
      PROVE  AlertsSound(p)'
  BY <1>3, AlertsReadOpen, AlertsSend, AlertsStamp, AlertsDie
<1>4. ASSUME NEW r \in RunsOf(p), NEW k \in 1..Len(Kinds), Told(p)!Open(r, k) \/ Told(p)!Close(r, k)
      PROVE  AlertsSound(p)'
  BY <1>4, AlertsOpen, AlertsClose
<1> QED
  BY <1>1, <1>2, <1>3, <1>4

LEMMA AlertsHold ==
  ASSUME NEW p \in AlertParts, AlertsSound(p)
  PROVE  Told(p)!TypeOK /\ Told(p)!StampedWasTold /\ Told(p)!ToldOnce /\ Told(p)!RecoveryTold
<1> USE DEF AlertsSound, Told!Ids
<1>1. Told(p)!TypeOK
  BY RowIs, RunIs DEF Told!TypeOK, AlertsTyped, Told!Times, AlertTimes
<1>2. Told(p)!StampedWasTold /\ Told(p)!ToldOnce
  BY DEF Told!StampedWasTold, Told!ToldOnce, RowTold
<1> QED
  BY <1>1, <1>2

LEMMA AlertsStill ==
  ASSUME NEW p \in AlertParts, AlertsSound(p), UNCHANGED <<now, rows, alerts>>
  PROVE  AlertsSound(p)'
<1> USE DEF alerts
<1>1. \A r \in RunsOf(p) : RunTells(p, r)'
  BY TellsOn DEF AlertsSound, SameWork
<1> QED
  BY <1>1, RunsMove DEF AlertsSound, AlertsTyped, RunAlone, SameWork

----------------------------------------------------------------------------
(* DeviceCodes: p is one code or several.                                    *)
CodeRow(p) == [denied : BOOLEAN, approved : BOOLEAN, token : 1..MintedOf(p) \cup {NULL}]

CodesTyped(p) ==
  /\ rows \in [CodesOf(p) -> CodeRow(p) \cup {NULL}]
  /\ age \in [CodesOf(p) -> {"none", "live", "expired", "old"}]
  /\ minted \in Seq(CodesOf(p)) /\ Len(minted) <= MintedOf(p) /\ tokens \subseteq 1..Len(minted)
  /\ taken \in [CodesOf(p) -> [by : SUBSET Nat, times : Nat]]
  /\ late \subseteq CodesOf(p) /\ rushed \in BOOLEAN /\ DOMAIN req = Workers

\* A token waits in the row of code c.
Waits(c) == rows[c] # NULL /\ rows[c].token # NULL

\* A code is approved once, and its token is in its row or was taken.
CodeRight(p, c) ==
  /\ age[c] = "none" => rows[c] = NULL /\ taken[c].times = 0
  /\ age[c] \in {"live", "expired"} => rows[c] # NULL
  /\ rows[c] # NULL => /\ ~rows[c].approved => rows[c].token = NULL /\ taken[c].times = 0
                       /\ rows[c].approved /\ rows[c].denied => c \in late
  /\ Waits(c) => taken[c].times = 0 /\ rows[c].token \in tokens /\ minted[rows[c].token] = c
  /\ taken[c].times <= 1 /\ (taken[c].times = 0 => taken[c].by = {})
  /\ \A t \in taken[c].by : t \in 1..Len(minted) /\ minted[t] = c /\ (c \notin late => t \in tokens)

\* What a request has read, and what may have become of it.
CodeSteps == {"idle", "count", "insert", "claim", "discard", "mint", "set", "undo", "deny", "prune"}
SetAsk(p) == [at : {"set", "undo"}, code : CodesOf(p), token : Nat]
AskTyped(p, r) ==
  /\ r.at \in CodeSteps
  /\ r.at = "prune" => r.dead \subseteq 1..Len(minted) /\ r.then \in {"idle", "count"}
  /\ r.at \in {"claim", "discard", "mint", "set", "undo", "deny"} => r.code \in CodesOf(p) /\ age[r.code] # "none"
  /\ r.at \in {"set", "undo"} => r \in SetAsk(p) /\ r.token \in 1..Len(minted) /\ minted[r.token] = r.code
  /\ r.at \in {"claim", "discard"} => r.token = NULL \/ (r.token \in 1..Len(minted) /\ minted[r.token] = r.code)

\* A request that found the code live is over when it expires, or the code is late.
InTime(r) == r.at \in {"claim", "mint", "set", "undo", "deny"} => r.code \in late \/ age[r.code] = "live"

ClaimsRight(r) ==
  r.at = "claim" /\ rows[r.code] # NULL =>
    rows[r.code].approved /\ (rows[r.code].token # NULL => rows[r.code].token = r.token)

DiscardsRight(r) ==
  r.at = "discard" /\ r.code \notin late =>
    /\ age[r.code] # "live" \/ rows[r.code] = NULL \/ rows[r.code].denied
    /\ Waits(r.code) => rows[r.code].token = r.token
    /\ r.token \notin taken[r.code].by

PrunesRight(p, r) ==
  r.at = "prune" =>
    /\ \A t \in r.dead : age[minted[t]] = "old" /\ (minted[t] \notin late => t \notin taken[minted[t]].by)
    /\ \A c \in CodesOf(p) \ late : age[c] = "old" /\ Waits(c) => rows[c].token \in r.dead

AskRight(p, r) == AskTyped(p, r) /\ InTime(r) /\ ClaimsRight(r) /\ DiscardsRight(r) /\ PrunesRight(p, r)

\* The token an approval has minted is nobody else's.
MintsRight(w) ==
  req[w].at \in {"set", "undo"} =>
    /\ req[w].token \in tokens /\ req[w].token \notin taken[req[w].code].by
    /\ Waits(req[w].code) => rows[req[w].code].token # req[w].token
    /\ \A v \in Workers \ {w} : /\ req[v].at \in {"claim", "discard", "set", "undo"} => req[v].token # req[w].token
                                /\ req[v].at = "prune" => req[w].token \notin req[v].dead

\* The codes of the last hour, and the room for the one request that counted them.
LastHour(p) == {c \in CodesOf(p) : age[c] \in {"live", "expired"}}
HourRight(p) ==
  rushed \/ /\ \A v, w \in Workers : SignIn(p)!AsksCode(v) /\ SignIn(p)!AsksCode(w) => v = w
            /\ Cardinality(LastHour(p)) <= MaxPerHour
            /\ \A w \in Workers : req[w].at = "insert" => Cardinality(LastHour(p)) < MaxPerHour

CodesSound(p) ==
  /\ CodesTyped(p)
  /\ \A c \in CodesOf(p) : CodeRight(p, c)
  /\ \A w \in Workers : AskRight(p, req[w]) /\ MintsRight(w)
  /\ HourRight(p) /\ SignIn(p)!NoStrayToken

LEMMA SignInCardinality == \A p, S : SignIn(p)!Cardinality(S) = Cardinality(S)
BY DEF SignIn!Cardinality, Cardinality

LEMMA CodesFinite ==
  ASSUME NEW p \in CodeParts
  PROVE  /\ IsFiniteSet(CodesOf(p)) /\ MintedOf(p) \in Nat /\ NULL \notin 1..MintedOf(p)
         /\ NULL \notin CodeRow(p) /\ MaxPerHour \in Nat
BY CodeBounds DEF CodesOf, MintedOf, CodeParts, CodeRow

LEMMA CodesInit ==
  ASSUME NEW p \in CodeParts, SignIn(p)!Init
  PROVE  CodesSound(p)
<1> USE DEF SignIn!Init, SignIn!Idle
<1>1. CodesTyped(p)
  <2>1. minted \in Seq(CodesOf(p)) /\ Len(minted) = 0 /\ 0 <= MintedOf(p)
    BY CodesFinite
  <2>2. taken \in [CodesOf(p) -> [by : SUBSET Nat, times : Nat]]
    OBVIOUS
  <2> QED
    BY <2>1, <2>2 DEF CodesTyped
<1>2. \A c \in CodesOf(p) : CodeRight(p, c)
  BY DEF CodeRight, Waits
<1>3. \A w \in Workers : req[w].at = "idle"
  OBVIOUS
<1>4. \A w \in Workers : AskRight(p, req[w]) /\ MintsRight(w)
  BY <1>3 DEF AskRight, AskTyped, CodeSteps, InTime, ClaimsRight, DiscardsRight, PrunesRight, MintsRight
<1>5. LastHour(p) = {} /\ SignIn(p)!NoStrayToken
  BY DEF LastHour, SignIn!NoStrayToken
<1>6. HourRight(p)
  BY <1>3, <1>5, CodesFinite, FS_EmptySet DEF HourRight, SignIn!AsksCode
<1> QED
  BY <1>1, <1>2, <1>4, <1>5, <1>6 DEF CodesSound

LEMMA CodeIs ==
  ASSUME NEW p \in CodeParts, CodesTyped(p), NEW c \in CodesOf(p)
  PROVE  /\ age[c] \in {"none", "live", "expired", "old"}
         /\ taken[c].by \subseteq Nat /\ taken[c].times \in Nat
         /\ rows[c] # NULL => /\ rows[c] \in CodeRow(p) /\ rows[c].denied \in BOOLEAN /\ rows[c].approved \in BOOLEAN
                              /\ rows[c].token \in 1..MintedOf(p) \cup {NULL}
BY DEF CodesTyped, CodeRow

\* Only a request goes on, to r, and codes may become late.
LEMMA CodesMove ==
  ASSUME NEW p \in CodeParts, CodesSound(p), NEW w \in Workers, NEW r, req' = [req EXCEPT ![w] = r],
         UNCHANGED <<rows, age, tokens, minted, taken>>,
         late \subseteq late', late' \subseteq CodesOf(p), rushed' \in BOOLEAN,
         AskRight(p, r),
         r.at \in {"set", "undo"} => req[w].at \in {"set", "undo"} /\ r.code = req[w].code /\ r.token = req[w].token,
         r.at \in {"claim", "discard"} => r.token = NULL \/ (Waits(r.code) /\ r.token = rows[r.code].token),
         r.at = "prune" => \A t \in r.dead : \E c \in CodesOf(p) : Waits(c) /\ t = rows[c].token,
         HourRight(p)', SignIn(p)!NoStrayToken'
  PROVE  CodesSound(p)'
<1> USE DEF CodesSound
<1>1. DOMAIN req' = Workers /\ req'[w] = r /\ \A v \in Workers : v # w => req'[v] = req[v]
  BY DEF CodesTyped
<1>2. CodesTyped(p)'
  BY <1>1 DEF CodesTyped, CodeRow
<1>3. ASSUME NEW c \in CodesOf(p) PROVE CodeRight(p, c)'
  <2>1. CodeRight(p, c)
    OBVIOUS
  <2> QED
    BY <2>1 DEF CodeRight, Waits
<1>4. ASSUME NEW v \in Workers PROVE AskRight(p, req[v])'
  <2>1. AskRight(p, req'[v])
    BY <1>1
  <2>2. AskTyped(p, req[v])' /\ InTime(req[v])' /\ ClaimsRight(req[v])'
    BY <2>1 DEF AskRight, AskTyped, SetAsk, InTime, ClaimsRight, CodesOf
  <2>3. DiscardsRight(req[v])' /\ PrunesRight(p, req[v])'
    BY <2>1 DEF AskRight, DiscardsRight, PrunesRight, Waits, CodesOf
  <2> QED
    BY <2>2, <2>3 DEF AskRight
<1>5. ASSUME NEW v \in Workers PROVE MintsRight(v)'
  <2>1. MintsRight(v) /\ MintsRight(w) /\ AskTyped(p, req[v])
    BY DEF AskRight
  <2>2. CASE v = w
    BY <1>1, <2>1, <2>2 DEF MintsRight, Waits
  <2>3. CASE v # w
    <3>1. ASSUME req[v].at \in {"set", "undo"}
          PROVE  /\ r.at \in {"claim", "discard", "set", "undo"} => r.token # req[v].token
                 /\ r.at = "prune" => req[v].token \notin r.dead
      <4>1. req[v].token \in 1..Len(minted) /\ req[v].token # NULL /\ minted[req[v].token] = req[v].code
        BY <2>1, <3>1, CodesFinite DEF AskTyped, CodesTyped
      <4>2. \A c \in CodesOf(p) : Waits(c) => rows[c].token # req[v].token
        BY <2>1, <3>1, <4>1 DEF MintsRight, CodeRight
      <4>3. r.at \in {"claim", "discard"} => r.code \in CodesOf(p)
        BY DEF AskRight, AskTyped
      <4> QED
        BY <2>1, <2>3, <3>1, <4>1, <4>2, <4>3 DEF MintsRight
    <3> QED
      BY <1>1, <2>1, <2>3, <3>1 DEF MintsRight, Waits
  <2> QED
    BY <2>2, <2>3
<1> QED
  BY <1>2, <1>3, <1>4, <1>5 DEF CodesOf

\* What a change of the codes leaves room for.
LEMMA HourKept ==
  ASSUME NEW p \in CodeParts, CodesSound(p), NEW w \in Workers, NEW r, req' = [req EXCEPT ![w] = r],
         LastHour(p)' \subseteq LastHour(p),
         rushed' = rushed, r.at # "insert", r.at = "count" => SignIn(p)!AsksCode(w), r.at = "prune" => r.then # "count"
  PROVE  HourRight(p)'
<1>1. req'[w] = r /\ \A v \in Workers : v # w => req'[v] = req[v]
  BY DEF CodesSound, CodesTyped
<1>2. /\ IsFiniteSet(LastHour(p)) /\ Cardinality(LastHour(p)) \in Nat
      /\ Cardinality(LastHour(p)') \in Nat /\ Cardinality(LastHour(p)') <= Cardinality(LastHour(p))
  <2>1. IsFiniteSet(LastHour(p))
    BY CodesFinite, FS_Subset DEF LastHour
  <2> QED
    BY <2>1, FS_Subset, FS_CardinalityType
<1>3. \A v \in Workers : SignIn(p)!AsksCode(v)' => SignIn(p)!AsksCode(v)
  BY <1>1 DEF SignIn!AsksCode
<1>4. \A v \in Workers : req'[v].at = "insert" => req[v].at = "insert"
  BY <1>1
<1>5. MaxPerHour \in Nat
  BY CodesFinite
<1> QED
  BY <1>2, <1>3, <1>4, <1>5 DEF HourRight, CodesSound

LEMMA CodesAskPrune ==
  ASSUME NEW p \in CodeParts, CodesSound(p), NEW w \in Workers, NEW then \in {"idle", "count"}, SignIn(p)!AskPrune(w, then)
  PROVE  CodesSound(p)'
<1> DEFINE dead == {rows[c].token : c \in SignIn(p)!Old} \ {NULL}
           r == [at |-> "prune", dead |-> dead, then |-> then]
<1>1. /\ req[w].at = "idle" /\ req' = [req EXCEPT ![w] = r] /\ UNCHANGED <<rows, age, tokens, minted, taken, late>>
      /\ rushed' = (rushed \/ (then = "count" /\ \E v \in Workers : SignIn(p)!AsksCode(v)))
  BY DEF SignIn!AskPrune, SignIn!Goes, SignIn!Under
<1>2. \A c : c \in SignIn(p)!Old <=> c \in CodesOf(p) /\ rows[c] # NULL /\ age[c] = "old"
  BY DEF SignIn!Old, SignIn!Made
<1>3. \A t \in dead : \E c \in CodesOf(p) : Waits(c) /\ age[c] = "old" /\ t = rows[c].token
  BY <1>2 DEF Waits
<1>4. \A c \in CodesOf(p) : Waits(c) /\ age[c] = "old" => rows[c].token \in dead
  BY <1>2 DEF Waits
<1>5. r.at = "prune" /\ r.dead = dead /\ r.then = then
  OBVIOUS
<1> HIDE DEF r, dead
<1>6. \A t \in dead : t \in 1..Len(minted) /\ age[minted[t]] = "old" /\ t \notin taken[minted[t]].by
  <2>1. ASSUME NEW c \in CodesOf(p), Waits(c), age[c] = "old"
        PROVE  LET t == rows[c].token IN t \in 1..Len(minted) /\ minted[t] = c /\ t \notin taken[c].by
    BY <2>1, CodeIs DEF CodesSound, CodesTyped, CodeRight
  <2> QED
    BY <1>3, <2>1
<1>7. AskRight(p, r)
  BY <1>4, <1>5, <1>6 DEF AskRight, AskTyped, CodeSteps, InTime, ClaimsRight, DiscardsRight, PrunesRight
<1>8. DOMAIN req = Workers /\ req'[w] = r /\ \A v \in Workers : v # w => req'[v] = req[v]
  BY <1>1 DEF CodesSound, CodesTyped
<1>9. HourRight(p)'
  <2>1. LastHour(p)' = LastHour(p)
    BY <1>1 DEF LastHour, CodesOf
  <2>2. CASE then = "idle"
    <3>1. rushed \in BOOLEAN /\ then # "count"
      BY <2>2 DEF CodesSound, CodesTyped
    <3>2. rushed' = rushed
      BY <1>1, <3>1
    <3> QED
      BY <1>1, <1>5, <2>1, <2>2, <3>2, HourKept
  <2>3. CASE then = "count" /\ ~rushed'
    <3>1. \A v \in Workers : ~SignIn(p)!AsksCode(v)
      BY <1>1, <2>3
    <3>2. \A v \in Workers : SignIn(p)!AsksCode(v)' => v = w
      BY <1>8, <3>1 DEF SignIn!AsksCode
    <3>3. \A v \in Workers : req'[v].at # "insert"
      BY <1>5, <1>8, <3>1 DEF SignIn!AsksCode
    <3> QED
      BY <1>1, <2>1, <2>3, <3>2, <3>3 DEF HourRight, CodesSound
  <2> QED
    BY <2>2, <2>3 DEF HourRight
<1>10. SignIn(p)!NoStrayToken'
  <2>1. \A v \in Workers : req[v].at \in {"set", "undo", "discard"} => req'[v] = req[v]
    BY <1>1, <1>8
  <2> QED
    BY <1>1, <2>1 DEF CodesSound, SignIn!NoStrayToken
<1>11. rushed' \in BOOLEAN /\ late \subseteq CodesOf(p)
  BY <1>1 DEF CodesSound, CodesTyped
<1> QED
  BY <1>1, <1>3, <1>5, <1>7, <1>9, <1>10, <1>11, CodesMove

\* A request that holds no minted token goes on: no token is lost.
LEMMA NoTokenLost ==
  ASSUME NEW p \in CodeParts, CodesSound(p), NEW w \in Workers, NEW r, req' = [req EXCEPT ![w] = r],
         UNCHANGED <<rows, tokens, minted, taken>>, late \subseteq late',
         req[w].at \in {"set", "undo", "discard"} =>
           req[w].code \in late' \/ (r.at \in {"set", "undo", "discard"} /\ r.token = req[w].token)
  PROVE  SignIn(p)!NoStrayToken'
<1>1. req'[w] = r /\ \A v \in Workers : v # w => req'[v] = req[v]
  BY DEF CodesSound, CodesTyped
<1>2. ASSUME NEW t \in tokens
      PROVE  LET c == minted[t] IN
             \/ c \in late' \/ t \in taken[c].by \/ (rows[c] # NULL /\ rows[c].token = t)
             \/ \E v \in Workers : req'[v].at \in {"set", "undo", "discard"} /\ req'[v].token = t
  <2>1. CASE \E v \in Workers : req[v].at \in {"set", "undo", "discard"} /\ req[v].token = t
    <3>1. PICK v \in Workers : req[v].at \in {"set", "undo", "discard"} /\ req[v].token = t
      BY <2>1
    <3>2. CASE v = w /\ req[w].code \in late'
      <4>1. AskTyped(p, req[w]) /\ NULL \notin 1..MintedOf(p) /\ t \in 1..Len(minted) /\ Len(minted) <= MintedOf(p)
            /\ MintedOf(p) \in Nat /\ Len(minted) \in Nat
        BY CodesFinite DEF CodesSound, CodesTyped, AskRight
      <4>2. t # NULL
        BY <4>1
      <4>3. minted[t] = req[w].code
        BY <3>1, <3>2, <4>1, <4>2 DEF AskTyped
      <4> QED
        BY <3>2, <4>3
    <3>3. CASE v # w \/ req[w].code \notin late'
      BY <1>1, <3>1, <3>3
    <3> QED
      BY <3>2, <3>3
  <2> QED
    BY <2>1 DEF CodesSound, SignIn!NoStrayToken
<1> QED
  BY <1>2 DEF SignIn!NoStrayToken

LEMMA CodesCount ==
  ASSUME NEW p \in CodeParts, CodesSound(p), NEW w \in Workers, SignIn(p)!Count(w)
  PROVE  CodesSound(p)'
<1> DEFINE r == IF Cardinality(LastHour(p)) >= MaxPerHour THEN SignIn(p)!Idle ELSE [at |-> "insert"]
<1>1. SignIn(p)!Made \ SignIn(p)!Old = LastHour(p)
  <2>1. \A c \in CodesOf(p) : age[c] \in {"none", "live", "expired", "old"} /\ CodeRight(p, c)
    BY CodeIs DEF CodesSound
  <2> QED
    BY <2>1 DEF SignIn!Made, SignIn!Old, LastHour, CodeRight
<1>2. /\ req[w].at = "count" /\ req' = [req EXCEPT ![w] = r]
      /\ UNCHANGED <<rows, age, tokens, minted, taken, late, rushed>>
  BY <1>1, SignInCardinality DEF SignIn!Count, SignIn!Goes, SignIn!Under, SignIn!Same
<1>3. r.at \in {"idle", "insert"} /\ (r.at = "insert" => Cardinality(LastHour(p)) < MaxPerHour)
  <2>1. IsFiniteSet(LastHour(p)) /\ MaxPerHour \in Nat
    BY CodesFinite, FS_Subset DEF LastHour
  <2>2. Cardinality(LastHour(p)) \in Nat
    BY <2>1, FS_CardinalityType
  <2> QED
    BY <2>1, <2>2 DEF SignIn!Idle
<1> HIDE DEF r
<1>4. AskRight(p, r)
  BY <1>3 DEF AskRight, AskTyped, CodeSteps, InTime, ClaimsRight, DiscardsRight, PrunesRight
<1>5. HourRight(p)'
  <2>1. req'[w] = r /\ \A v \in Workers : v # w => req'[v] = req[v]
    BY <1>2 DEF CodesSound, CodesTyped
  <2>2. \A v \in Workers : SignIn(p)!AsksCode(v)' => SignIn(p)!AsksCode(v)
    BY <1>2, <1>3, <2>1 DEF SignIn!AsksCode
  <2>3. LastHour(p)' = LastHour(p)
    BY <1>2 DEF LastHour, CodesOf
  <2>4. \A v \in Workers : req'[v].at = "insert" => req[v].at = "insert" \/ Cardinality(LastHour(p)) < MaxPerHour
    BY <1>3, <2>1
  <2> QED
    BY <1>2, <2>2, <2>3, <2>4 DEF HourRight, CodesSound
<1>6. SignIn(p)!NoStrayToken'
  BY <1>2, NoTokenLost
<1>7. late \subseteq CodesOf(p) /\ rushed \in BOOLEAN
  BY DEF CodesSound, CodesTyped
<1> QED
  BY <1>2, <1>3, <1>4, <1>5, <1>6, <1>7, CodesMove

LEMMA CodesPoll ==
  ASSUME NEW p \in CodeParts, CodesSound(p), NEW w \in Workers, NEW c \in CodesOf(p), SignIn(p)!Poll(w, c)
  PROVE  CodesSound(p)'
<1> DEFINE r == [at |-> SignIn(p)!Answer(c), code |-> c, token |-> rows[c].token]
<1>1. /\ req[w].at = "idle" /\ req' = [req EXCEPT ![w] = r] /\ SignIn(p)!Answer(c) # "idle"
      /\ UNCHANGED <<rows, age, tokens, minted, taken, late, rushed>>
  BY DEF SignIn!Poll, SignIn!Goes, SignIn!Under, SignIn!Same
<1>2. /\ r.code = c /\ r.token = rows[c].token /\ rows[c] # NULL
      /\ \/ r.at = "discard" /\ (age[c] # "live" \/ rows[c].denied)
         \/ r.at = "claim" /\ age[c] = "live" /\ rows[c].approved
  BY <1>1 DEF SignIn!Answer
<1> HIDE DEF r
<1>3. CodeRight(p, c) /\ age[c] # "none"
  BY <1>2 DEF CodesSound, CodeRight
<1>4. r.token = NULL \/ (r.token \in 1..Len(minted) /\ minted[r.token] = c)
  BY <1>2, <1>3 DEF CodeRight, Waits, CodesSound, CodesTyped
<1>5. r.token \notin taken[c].by
  <2>1. CASE r.token = NULL
    <3>1. Len(minted) \in Nat /\ Len(minted) <= MintedOf(p) /\ MintedOf(p) \in Nat /\ NULL \notin 1..MintedOf(p)
      BY CodesFinite DEF CodesSound, CodesTyped
    <3>2. NULL \notin 1..Len(minted)
      BY <3>1
    <3> QED
      BY <1>3, <2>1, <3>2 DEF CodeRight
  <2>2. CASE r.token # NULL
    BY <1>2, <1>3, <2>2 DEF CodeRight, Waits
  <2> QED
    BY <2>1, <2>2
<1>6. AskRight(p, r)
  BY <1>2, <1>3, <1>4, <1>5 DEF AskRight, AskTyped, CodeSteps, InTime, ClaimsRight, DiscardsRight, PrunesRight
<1>7. HourRight(p)'
  <2>1. LastHour(p)' = LastHour(p)
    BY <1>1 DEF LastHour, CodesOf
  <2> QED
    BY <1>1, <1>2, <2>1, HourKept
<1>8. SignIn(p)!NoStrayToken'
  BY <1>1, NoTokenLost
<1>9. late \subseteq CodesOf(p) /\ rushed \in BOOLEAN
  BY DEF CodesSound, CodesTyped
<1>10. r.token = NULL \/ (Waits(r.code) /\ r.token = rows[r.code].token)
  BY <1>2 DEF Waits
<1> QED
  BY <1>1, <1>2, <1>6, <1>7, <1>8, <1>9, <1>10, CodesMove

LEMMA CodesSubmit ==
  ASSUME NEW p \in CodeParts, CodesSound(p), NEW w \in Workers, NEW c \in CodesOf(p),
         NEW step \in {"mint", "deny"}, SignIn(p)!Submit(w, c, step)
  PROVE  CodesSound(p)'
<1> DEFINE r == [at |-> step, code |-> c]
<1>1. /\ req[w].at = "idle" /\ req' = [req EXCEPT ![w] = r] /\ age[c] = "live"
      /\ UNCHANGED <<rows, age, tokens, minted, taken, late, rushed>>
  BY DEF SignIn!Submit, SignIn!Goes, SignIn!Under, SignIn!Same, SignIn!Pending
<1>2. r.at = step /\ r.code = c
  OBVIOUS
<1> HIDE DEF r
<1>3. AskRight(p, r)
  BY <1>1, <1>2 DEF AskRight, AskTyped, CodeSteps, InTime, ClaimsRight, DiscardsRight, PrunesRight
<1>4. HourRight(p)'
  <2>1. LastHour(p)' = LastHour(p)
    BY <1>1 DEF LastHour, CodesOf
  <2> QED
    BY <1>1, <1>2, <2>1, HourKept
<1>5. SignIn(p)!NoStrayToken'
  BY <1>1, NoTokenLost
<1>6. late \subseteq CodesOf(p) /\ rushed \in BOOLEAN
  BY DEF CodesSound, CodesTyped
<1> QED
  BY <1>1, <1>2, <1>3, <1>4, <1>5, <1>6, CodesMove

LEMMA CodesDie ==
  ASSUME NEW p \in CodeParts, CodesSound(p), NEW w \in Workers, SignIn(p)!Die(w)
  PROVE  CodesSound(p)'
<1>1. /\ req[w].at \in {"set", "undo"} /\ req' = [req EXCEPT ![w] = SignIn(p)!Idle] /\ SignIn(p)!Idle.at = "idle"
      /\ late' = late \cup {req[w].code} /\ UNCHANGED <<rows, age, tokens, minted, taken, rushed>>
  BY DEF SignIn!Die, SignIn!Goes, SignIn!Idle
<1>2. AskRight(p, SignIn(p)!Idle)
  BY <1>1 DEF AskRight, AskTyped, CodeSteps, InTime, ClaimsRight, DiscardsRight, PrunesRight
<1>3. HourRight(p)'
  <2>1. LastHour(p)' = LastHour(p)
    BY <1>1 DEF LastHour, CodesOf
  <2> QED
    BY <1>1, <2>1, HourKept
<1>4. SignIn(p)!NoStrayToken'
  BY <1>1, NoTokenLost
<1>5. late' \subseteq CodesOf(p) /\ rushed \in BOOLEAN
  BY <1>1 DEF CodesSound, CodesTyped, AskRight, AskTyped
<1> QED
  BY <1>1, <1>2, <1>3, <1>4, <1>5, CodesMove

LEMMA RowDenied ==
  ASSUME NEW p \in CodeParts, CodesTyped(p), NEW c \in CodesOf(p),
         rows' = IF rows[c] = NULL THEN rows ELSE [rows EXCEPT ![c].denied = TRUE]
  PROVE  /\ rows' \in [CodesOf(p) -> CodeRow(p) \cup {NULL}] /\ \A d \in CodesOf(p) : d # c => rows'[d] = rows[d]
         /\ rows[c] = NULL => rows'[c] = NULL
         /\ rows[c] # NULL => /\ rows'[c] # NULL /\ rows'[c].denied = TRUE
                              /\ rows'[c].approved = rows[c].approved /\ rows'[c].token = rows[c].token
<1>1. CASE rows[c] = NULL
  BY <1>1 DEF CodesTyped
<1>2. CASE rows[c] # NULL
  <2> DEFINE d == rows[c]
             e == [d EXCEPT !.denied = TRUE]
  <2>1. rows' = [rows EXCEPT ![c] = e] /\ rows \in [CodesOf(p) -> CodeRow(p) \cup {NULL}]
    BY <1>2 DEF CodesTyped
  <2>2. d \in CodeRow(p)
    BY <1>2, CodeIs
  <2>3. NULL \notin CodeRow(p) /\ TRUE \in BOOLEAN
    BY CodesFinite
  <2> HIDE DEF d
  <2>4. e \in CodeRow(p) /\ e.denied = TRUE /\ e.approved = d.approved /\ e.token = d.token
    BY <2>2, <2>3 DEF CodeRow
  <2> HIDE DEF e
  <2>5. rows' \in [CodesOf(p) -> CodeRow(p) \cup {NULL}] /\ rows'[c] = e /\ \A b \in CodesOf(p) : b # c => rows'[b] = rows[b]
    BY <2>1, <2>4
  <2> QED
    BY <1>2, <2>3, <2>4, <2>5 DEF d
<1> QED
  BY <1>1, <1>2

LEMMA RowEmptied ==
  ASSUME NEW p \in CodeParts, CodesTyped(p), NEW c \in CodesOf(p),
         rows' = IF rows[c] = NULL THEN rows ELSE [rows EXCEPT ![c].token = NULL]
  PROVE  /\ rows' \in [CodesOf(p) -> CodeRow(p) \cup {NULL}] /\ \A d \in CodesOf(p) : d # c => rows'[d] = rows[d]
         /\ rows[c] = NULL => rows'[c] = NULL
         /\ rows[c] # NULL => /\ rows'[c] # NULL /\ rows'[c].denied = rows[c].denied
                              /\ rows'[c].approved = rows[c].approved /\ rows'[c].token = NULL
<1>1. CASE rows[c] = NULL
  BY <1>1 DEF CodesTyped
<1>2. CASE rows[c] # NULL
  <2> DEFINE d == rows[c]
             e == [d EXCEPT !.token = NULL]
  <2>1. rows' = [rows EXCEPT ![c] = e] /\ rows \in [CodesOf(p) -> CodeRow(p) \cup {NULL}]
    BY <1>2 DEF CodesTyped
  <2>2. d \in CodeRow(p)
    BY <1>2, CodeIs
  <2>3. NULL \notin CodeRow(p)
    BY CodesFinite
  <2> HIDE DEF d
  <2>4. e \in CodeRow(p) /\ e.denied = d.denied /\ e.approved = d.approved /\ e.token = NULL
    BY <2>2, <2>3 DEF CodeRow
  <2> HIDE DEF e
  <2>5. rows' \in [CodesOf(p) -> CodeRow(p) \cup {NULL}] /\ rows'[c] = e /\ \A b \in CodesOf(p) : b # c => rows'[b] = rows[b]
    BY <2>1, <2>4
  <2> QED
    BY <1>2, <2>3, <2>4, <2>5 DEF d
<1> QED
  BY <1>1, <1>2

\* A request is over.
LEMMA AskOver ==
  ASSUME NEW p \in CodeParts, NEW r, r.at \in {"idle", "count"}
  PROVE  AskRight(p, r) /\ r.at \notin {"claim", "discard", "mint", "set", "undo", "deny", "prune", "insert"}
BY DEF AskRight, AskTyped, CodeSteps, InTime, ClaimsRight, DiscardsRight, PrunesRight

LEMMA SetFields ==
  ASSUME NEW p \in CodeParts, NEW r \in SetAsk(p)
  PROVE  LET e == [r EXCEPT !.at = "undo"] IN
         e \in SetAsk(p) /\ e.at = "undo" /\ e.code = r.code /\ e.token = r.token
BY DEF SetAsk

LEMMA CodesSet ==
  ASSUME NEW p \in CodeParts, CodesSound(p), NEW w \in Workers, SignIn(p)!Set(w)
  PROVE  CodesSound(p)'
<1> USE DEF CodesSound
<1> DEFINE c == req[w].code
           t == req[w].token
<1>0. /\ CodesTyped(p) /\ AskTyped(p, req[w]) /\ InTime(req[w]) /\ MintsRight(w) /\ CodeRight(p, c)
      /\ late \subseteq CodesOf(p) /\ rushed \in BOOLEAN
  BY DEF AskRight, AskTyped, SignIn!Set, SignIn!Under, CodesTyped
<1>1. /\ req[w].at = "set" /\ c \in CodesOf(p) /\ t \in 1..Len(minted) /\ minted[t] = c
      /\ UNCHANGED <<age, late, rushed, tokens, minted, taken>>
  BY <1>0 DEF SignIn!Set, SignIn!Under, SignIn!Same, AskTyped
<1>2. CASE ~SignIn(p)!Settable(c)
  <2> DEFINE r == [req[w] EXCEPT !.at = "undo"]
  <2>1. req' = [req EXCEPT ![w] = r] /\ UNCHANGED rows
    BY <1>2 DEF SignIn!Set, SignIn!Goes
  <2>2. r \in SetAsk(p) /\ r.at = "undo" /\ r.code = c /\ r.token = t
    BY <1>0, <1>1, SetFields DEF AskTyped
  <2> HIDE DEF r
  <2>3. AskRight(p, r)
    BY <1>0, <1>1, <2>2 DEF AskRight, AskTyped, CodeSteps, InTime, ClaimsRight, DiscardsRight, PrunesRight
  <2>4. LastHour(p)' = LastHour(p)
    BY <1>1 DEF LastHour, CodesOf
  <2>5. HourRight(p)'
    BY <1>1, <2>1, <2>2, <2>4, HourKept
  <2>6. SignIn(p)!NoStrayToken'
    BY <1>1, <2>1, <2>2, NoTokenLost
  <2> QED
    BY <1>0, <1>1, <2>1, <2>2, <2>3, <2>5, <2>6, CodesMove
<1>3. CASE SignIn(p)!Settable(c)
  <2> DEFINE e == [rows[c] EXCEPT !.approved = TRUE, !.token = t]
             r == SignIn(p)!Idle
  <2>1. /\ rows[c] # NULL /\ ~rows[c].approved /\ ~rows[c].denied
        /\ rows' = [rows EXCEPT ![c] = e] /\ req' = [req EXCEPT ![w] = r] /\ r.at = "idle"
    BY <1>0, <1>1, <1>3 DEF SignIn!Set, SignIn!Settable, SignIn!Goes, SignIn!Idle, CodesTyped
  <2>2. t \in 1..MintedOf(p) /\ t # NULL
    BY <1>0, <1>1, CodesFinite DEF CodesTyped
  <2>3. e \in CodeRow(p) /\ e # NULL /\ e.denied = rows[c].denied /\ e.approved = TRUE /\ e.token = t
    <3>1. rows[c] \in CodeRow(p)
      BY <1>0, <1>1, <2>1, CodeIs
    <3> QED
      <4> DEFINE d == rows[c]
                 u == t
                 n == [d EXCEPT !.approved = TRUE, !.token = u]
      <4>1. d \in CodeRow(p) /\ u \in 1..MintedOf(p) /\ e = n /\ d.denied = rows[c].denied /\ u = t
        BY <2>2, <3>1
      <4> HIDE DEF d, u, e
      <4>2. NULL \notin CodeRow(p) /\ TRUE \in BOOLEAN
        BY CodesFinite
      <4>3. n \in CodeRow(p) /\ n.denied = d.denied /\ n.approved = TRUE /\ n.token = u
        BY <4>1, <4>2 DEF CodeRow
      <4> HIDE DEF n
      <4> QED
        BY <4>1, <4>2, <4>3
  <2> HIDE DEF c, t, e, r
  <2>4. /\ DOMAIN req' = Workers /\ req'[w] = r /\ \A v \in Workers : v # w => req'[v] = req[v]
        /\ rows'[c] = e /\ \A d \in CodesOf(p) : d # c => rows'[d] = rows[d]
    BY <1>0, <1>1, <2>1 DEF CodesTyped
  <2>5. CodesTyped(p)'
    BY <1>0, <1>1, <2>1, <2>3, <2>4 DEF CodesTyped, CodeRow, CodesOf, MintedOf
  <2>6. ASSUME NEW d \in CodesOf(p) PROVE CodeRight(p, d)'
    <3>1. CASE d = c
      BY <1>0, <1>1, <2>1, <2>2, <2>3, <2>4, <3>1 DEF CodeRight, Waits, MintsRight, t, c
    <3>2. CASE d # c
      <4>1. CodeRight(p, d)
        OBVIOUS
      <4> QED
        BY <1>1, <2>4, <3>2, <4>1 DEF CodeRight, Waits
    <3> QED
      BY <3>1, <3>2
  <2>7. ASSUME NEW v \in Workers PROVE AskRight(p, req[v])'
    <3>1. CASE v = w
      BY <2>1, <2>4, <3>1, AskOver DEF AskRight, AskTyped, CodeSteps, InTime, ClaimsRight, DiscardsRight, PrunesRight
    <3>2. CASE v # w
      <4>1. AskRight(p, req[v]) /\ req'[v] = req[v]
        BY <2>4, <3>2
      <4>2. AskTyped(p, req[v])' /\ InTime(req[v])'
        BY <1>1, <4>1 DEF AskRight, AskTyped, SetAsk, InTime, CodesOf
      <4>3. ClaimsRight(req[v])'
        BY <1>1, <2>1, <2>4, <4>1 DEF AskRight, AskTyped, ClaimsRight
      <4>4. DiscardsRight(req[v])'
        BY <1>0, <1>1, <2>1, <2>4, <4>1 DEF AskRight, AskTyped, InTime, DiscardsRight, Waits, c
      <4>5. PrunesRight(p, req[v])'
        BY <1>0, <1>1, <2>1, <2>4, <4>1 DEF AskRight, AskTyped, InTime, PrunesRight, Waits, CodesOf, c
      <4> QED
        BY <4>2, <4>3, <4>4, <4>5 DEF AskRight
    <3> QED
      BY <3>1, <3>2
  <2>8. ASSUME NEW v \in Workers PROVE MintsRight(v)'
    <3>1. MintsRight(v) /\ MintsRight(w) /\ AskTyped(p, req[v])
      BY DEF AskRight
    <3>2. CASE v = w
      BY <2>1, <2>4, <3>2 DEF MintsRight
    <3>3. CASE v # w
      BY <1>1, <2>1, <2>3, <2>4, <3>1, <3>3 DEF MintsRight, Waits, AskTyped, t
    <3> QED
      BY <3>2, <3>3
  <2>9. HourRight(p)'
    <3>1. LastHour(p)' = LastHour(p)
      BY <1>1 DEF LastHour, CodesOf
    <3> QED
      BY <1>1, <2>1, <3>1, HourKept
  <2>10. SignIn(p)!NoStrayToken'
    <3>1. ASSUME NEW u \in tokens
          PROVE  \/ minted[u] \in late \/ u \in taken[minted[u]].by
                 \/ rows'[minted[u]] # NULL /\ rows'[minted[u]].token = u
                 \/ \E v \in Workers : req'[v].at \in {"set", "undo", "discard"} /\ req'[v].token = u
      <4>1. CASE u = t
        BY <1>1, <2>3, <2>4, <4>1
      <4>2. CASE u # t
        <5>1. u # NULL /\ minted[u] \in CodesOf(p)
          BY <1>0, CodesFinite DEF CodesTyped
        <5>2. rows[c].token = NULL
          BY <1>0, <2>1 DEF CodeRight
        <5> QED
          BY <2>4, <4>2, <5>1, <5>2 DEF SignIn!NoStrayToken, t
      <4> QED
        BY <4>1, <4>2
    <3> QED
      BY <1>1, <3>1 DEF SignIn!NoStrayToken
  <2> QED
    BY <2>5, <2>6, <2>7, <2>8, <2>9, <2>10 DEF CodesOf
<1> QED
  BY <1>2, <1>3

\* A request is over, and may have changed the rows and deleted tokens.
LEMMA CodesOver ==
  ASSUME NEW p \in CodeParts, CodesSound(p), NEW w \in Workers, NEW r, req' = [req EXCEPT ![w] = r],
         r.at \in {"idle", "count"}, r.at = "count" => SignIn(p)!AsksCode(w),
         UNCHANGED <<age, minted, rushed>>, late \subseteq late', late' \subseteq CodesOf(p), tokens' \subseteq tokens,
         rows' \in [CodesOf(p) -> CodeRow(p) \cup {NULL}],
         taken' \in [CodesOf(p) -> [by : SUBSET Nat, times : Nat]],
         \A c \in CodesOf(p) : CodeRight(p, c)',
         \A v \in Workers \ {w} : /\ ClaimsRight(req[v])' /\ DiscardsRight(req[v])' /\ PrunesRight(p, req[v])'
                                 /\ MintsRight(v)',
         SignIn(p)!NoStrayToken'
  PROVE  CodesSound(p)'
<1>1. DOMAIN req' = Workers /\ req'[w] = r /\ \A v \in Workers : v # w => req'[v] = req[v]
  BY DEF CodesSound, CodesTyped
<1>2. CodesTyped(p)'
  BY <1>1 DEF CodesSound, CodesTyped, CodeRow, CodesOf, MintedOf
<1>3. ASSUME NEW v \in Workers PROVE AskRight(p, req[v])' /\ MintsRight(v)'
  <2>1. CASE v = w
    <3>1. AskTyped(p, req[v])' /\ InTime(req[v])'
      BY <1>1, <2>1 DEF AskTyped, CodeSteps, InTime
    <3>2. ClaimsRight(req[v])' /\ DiscardsRight(req[v])' /\ PrunesRight(p, req[v])' /\ MintsRight(v)'
      BY <1>1, <2>1 DEF ClaimsRight, DiscardsRight, PrunesRight, MintsRight
    <3> QED
      BY <3>1, <3>2 DEF AskRight
  <2>2. CASE v # w
    <3>1. AskRight(p, req[v]) /\ req'[v] = req[v]
      BY <1>1, <2>2 DEF CodesSound
    <3>2. AskTyped(p, req[v])' /\ InTime(req[v])'
      BY <3>1 DEF AskRight, AskTyped, SetAsk, InTime, CodesOf
    <3> QED
      BY <2>2, <3>2 DEF AskRight
  <2> QED
    BY <2>1, <2>2
<1>4. HourRight(p)'
  <2>1. LastHour(p)' = LastHour(p)
    BY DEF LastHour, CodesOf
  <2> QED
    BY <2>1, HourKept
<1> QED
  BY <1>2, <1>3, <1>4 DEF CodesSound, CodesOf

LEMMA CodesUndo ==
  ASSUME NEW p \in CodeParts, CodesSound(p), NEW w \in Workers, SignIn(p)!Undo(w)
  PROVE  CodesSound(p)'
<1> DEFINE t == req[w].token
           r == SignIn(p)!Idle
<1>1. /\ req[w].at = "undo" /\ tokens' = tokens \ {t} /\ req' = [req EXCEPT ![w] = r] /\ r.at = "idle"
      /\ UNCHANGED <<age, late, rushed, rows, minted, taken>>
  BY DEF SignIn!Undo, SignIn!Under, SignIn!Same, SignIn!Goes, SignIn!Idle
<1> HIDE DEF r
<1>2. /\ CodesTyped(p) /\ MintsRight(w) /\ req[w].code \in CodesOf(p) /\ t \in 1..Len(minted) /\ minted[t] = req[w].code
      /\ t # NULL
  BY <1>1, CodesFinite DEF CodesSound, AskRight, AskTyped, CodesTyped
<1>3. \A v \in Workers : v # w => req'[v] = req[v]
  BY <1>1, <1>2 DEF CodesTyped
<1>4. ASSUME NEW c \in CodesOf(p) PROVE CodeRight(p, c)'
  <2>1. CodeRight(p, c)
    BY DEF CodesSound
  <2>2. Waits(c) => rows[c].token # t
    BY <1>1, <1>2, <2>1 DEF CodeRight, MintsRight
  <2>3. t \notin taken[c].by
    BY <1>1, <1>2, <2>1 DEF CodeRight, MintsRight
  <2> QED
    BY <1>1, <2>1, <2>2, <2>3 DEF CodeRight, Waits
<1>5. ASSUME NEW v \in Workers \ {w}
      PROVE  ClaimsRight(req[v])' /\ DiscardsRight(req[v])' /\ PrunesRight(p, req[v])' /\ MintsRight(v)'
  <2>1. AskRight(p, req[v]) /\ MintsRight(v)
    BY DEF CodesSound
  <2>2. ClaimsRight(req[v])' /\ DiscardsRight(req[v])' /\ PrunesRight(p, req[v])'
    BY <1>1, <1>3, <2>1 DEF AskRight, ClaimsRight, DiscardsRight, PrunesRight, Waits, CodesOf
  <2>3. req[v].at \in {"set", "undo"} => req[v].token # t
    BY <1>1, <2>1 DEF MintsRight
  <2>4. \A u \in Workers : req'[u].at \in {"claim", "discard", "set", "undo", "prune"} => req'[u] = req[u]
    BY <1>1, <1>2, <1>3 DEF CodesTyped
  <2>5. req[v].at \in {"set", "undo"} => MintsRight(v)'
    BY <1>1, <1>3, <2>1, <2>3, <2>4 DEF MintsRight, Waits
  <2> QED
    BY <1>3, <2>2, <2>5 DEF MintsRight
<1>6. SignIn(p)!NoStrayToken'
  BY <1>1, <1>3 DEF CodesSound, SignIn!NoStrayToken
<1> QED
  BY <1>1, <1>2, <1>4, <1>5, <1>6, CodesOver DEF CodesTyped

LEMMA CodesDeny ==
  ASSUME NEW p \in CodeParts, CodesSound(p), NEW w \in Workers, SignIn(p)!Deny(w)
  PROVE  CodesSound(p)'
<1> DEFINE c == req[w].code
           r == SignIn(p)!Idle
<1>1. /\ req[w].at = "deny" /\ req' = [req EXCEPT ![w] = r] /\ r.at = "idle"
      /\ rows' = IF rows[c] = NULL THEN rows ELSE [rows EXCEPT ![c].denied = TRUE]
      /\ late' = IF SignIn(p)!Settable(c) THEN late ELSE late \cup {c}
      /\ UNCHANGED <<age, tokens, minted, taken, rushed>>
  BY DEF SignIn!Deny, SignIn!Under, SignIn!Goes, SignIn!Idle
<1> HIDE DEF r
<1>2. CodesTyped(p) /\ c \in CodesOf(p)
  BY <1>1 DEF CodesSound, AskRight, AskTyped
<1> HIDE DEF c
<1>3. /\ rows' \in [CodesOf(p) -> CodeRow(p) \cup {NULL}] /\ \A d \in CodesOf(p) : d # c => rows'[d] = rows[d]
      /\ rows[c] = NULL => rows'[c] = NULL
      /\ rows[c] # NULL => /\ rows'[c] # NULL /\ rows'[c].denied = TRUE
                           /\ rows'[c].approved = rows[c].approved /\ rows'[c].token = rows[c].token
  BY <1>1, <1>2, RowDenied
<1>4. late \subseteq late' /\ late' \subseteq CodesOf(p) /\ (rows[c] # NULL /\ rows[c].approved => c \in late')
  BY <1>1, <1>2 DEF SignIn!Settable, CodesTyped
<1>5. \A v \in Workers : v # w => req'[v] = req[v]
  BY <1>1, <1>2 DEF CodesTyped
<1>6. ASSUME NEW d \in CodesOf(p) PROVE CodeRight(p, d)'
  <2>1. CodeRight(p, d)
    BY DEF CodesSound
  <2>2. CASE d = c
    BY <1>1, <1>3, <1>4, <2>1, <2>2 DEF CodeRight, Waits
  <2>3. CASE d # c
    BY <1>1, <1>3, <1>4, <2>1, <2>3 DEF CodeRight, Waits
  <2> QED
    BY <2>2, <2>3
<1>7. \A d \in CodesOf(p) : Waits(d)' <=> Waits(d)
  BY <1>3 DEF Waits
<1>8. \A d \in CodesOf(p) : Waits(d) => rows'[d].token = rows[d].token
  BY <1>3 DEF Waits
<1>9. ASSUME NEW v \in Workers \ {w}
      PROVE  ClaimsRight(req[v])' /\ DiscardsRight(req[v])' /\ PrunesRight(p, req[v])' /\ MintsRight(v)'
  <2>1. AskRight(p, req[v]) /\ MintsRight(v) /\ req'[v] = req[v]
    BY <1>5 DEF CodesSound
  <2>2. ClaimsRight(req[v])'
    BY <1>3, <2>1 DEF AskRight, AskTyped, ClaimsRight
  <2>3. DiscardsRight(req[v])'
    <3>1. ASSUME NEW d \in CodesOf(p), age[d] # "live" \/ rows[d] = NULL \/ rows[d].denied
          PROVE  age[d] # "live" \/ rows'[d] = NULL \/ rows'[d].denied
      BY <1>3, <3>1
    <3> QED
      BY <1>1, <1>4, <1>7, <1>8, <2>1, <3>1 DEF AskRight, AskTyped, DiscardsRight
  <2>4. PrunesRight(p, req[v])'
    BY <1>1, <1>4, <1>7, <1>8, <2>1 DEF AskRight, AskTyped, PrunesRight, CodesOf
  <2>5. \A u \in Workers : req'[u].at \in {"claim", "discard", "set", "undo", "prune"} => req'[u] = req[u]
    BY <1>1, <1>2, <1>5 DEF CodesTyped
  <2>6. MintsRight(v)'
    BY <1>1, <1>7, <1>8, <2>1, <2>5 DEF MintsRight, AskRight, AskTyped
  <2> QED
    BY <2>2, <2>3, <2>4, <2>6
<1>10. SignIn(p)!NoStrayToken'
  <2>1. \A u \in tokens : minted[u] \in CodesOf(p)
    BY <1>2 DEF CodesTyped
  <2>2. \A v \in Workers : req[v].at \in {"set", "undo", "discard"} => req'[v] = req[v]
    BY <1>1, <1>5
  <2> QED
    BY <1>1, <1>3, <1>4, <2>1, <2>2 DEF CodesSound, SignIn!NoStrayToken
<1> QED
  BY <1>1, <1>2, <1>3, <1>4, <1>6, <1>9, <1>10, CodesOver DEF CodesTyped

LEMMA CodesDiscard ==
  ASSUME NEW p \in CodeParts, CodesSound(p), NEW w \in Workers, SignIn(p)!Discard(w)
  PROVE  CodesSound(p)'
<1> DEFINE c == req[w].code
           t == req[w].token
           r == SignIn(p)!Idle
<1>1. /\ req[w].at = "discard" /\ req' = [req EXCEPT ![w] = r] /\ r.at = "idle"
      /\ rows' = IF rows[c] = NULL THEN rows ELSE [rows EXCEPT ![c].token = NULL]
      /\ tokens' = tokens \ {t}
      /\ UNCHANGED <<age, late, minted, taken, rushed>>
  BY DEF SignIn!Discard, SignIn!Under, SignIn!Same, SignIn!Goes, SignIn!Idle
<1> HIDE DEF r
<1>2. /\ CodesTyped(p) /\ c \in CodesOf(p) /\ (t = NULL \/ (t \in 1..Len(minted) /\ minted[t] = c))
      /\ NULL \notin 1..Len(minted)
  <2>1. Len(minted) \in Nat /\ Len(minted) <= MintedOf(p) /\ MintedOf(p) \in Nat /\ NULL \notin 1..MintedOf(p)
    BY CodesFinite DEF CodesSound, CodesTyped
  <2> QED
    BY <1>1, <2>1 DEF CodesSound, AskRight, AskTyped
<1>3. c \notin late => (Waits(c) => rows[c].token = t) /\ t \notin taken[c].by
  BY <1>1 DEF CodesSound, AskRight, DiscardsRight
<1>4. \A v \in Workers \ {w} : req[v].at \in {"set", "undo"} => req[v].token # t
  BY <1>1 DEF CodesSound, MintsRight
<1> HIDE DEF c, t
<1>5. /\ rows' \in [CodesOf(p) -> CodeRow(p) \cup {NULL}] /\ \A d \in CodesOf(p) : d # c => rows'[d] = rows[d]
      /\ rows[c] = NULL => rows'[c] = NULL
      /\ rows[c] # NULL => /\ rows'[c] # NULL /\ rows'[c].denied = rows[c].denied
                           /\ rows'[c].approved = rows[c].approved /\ rows'[c].token = NULL
  BY <1>1, <1>2, RowEmptied
<1>6. \A v \in Workers : v # w => req'[v] = req[v]
  BY <1>1, <1>2 DEF CodesTyped
<1>7. \A d \in CodesOf(p) : Waits(d)' => d # c /\ Waits(d) /\ rows'[d] = rows[d]
  BY <1>5 DEF Waits
<1>8. ASSUME NEW d \in CodesOf(p) PROVE CodeRight(p, d)'
  <2>1. CodeRight(p, d)
    BY DEF CodesSound
  <2>2. CASE d = c
    BY <1>1, <1>3, <1>5, <1>7, <2>1, <2>2 DEF CodeRight
  <2>3. CASE d # c
    <3>1. \A u : u \in 1..Len(minted) /\ minted[u] = d => u # t
      BY <1>2, <2>3
    <3>2. Waits(d) => rows[d].token \in 1..Len(minted)
      BY <1>2, <2>1 DEF CodeRight, CodesTyped
    <3> QED
      BY <1>1, <1>5, <1>7, <2>1, <2>3, <3>1, <3>2 DEF CodeRight
  <2> QED
    BY <2>2, <2>3
<1>9. ASSUME NEW v \in Workers \ {w}
      PROVE  ClaimsRight(req[v])' /\ DiscardsRight(req[v])' /\ PrunesRight(p, req[v])' /\ MintsRight(v)'
  <2>1. AskRight(p, req[v]) /\ MintsRight(v) /\ req'[v] = req[v]
    BY <1>6 DEF CodesSound
  <2>2. ClaimsRight(req[v])'
    BY <1>5, <2>1 DEF AskRight, AskTyped, ClaimsRight
  <2>3. DiscardsRight(req[v])'
    <3>1. ASSUME NEW d \in CodesOf(p), age[d] # "live" \/ rows[d] = NULL \/ rows[d].denied
          PROVE  age[d] # "live" \/ rows'[d] = NULL \/ rows'[d].denied
      BY <1>5, <3>1
    <3> QED
      BY <1>1, <1>7, <2>1, <3>1 DEF AskRight, AskTyped, DiscardsRight
  <2>4. PrunesRight(p, req[v])'
    BY <1>1, <1>7, <2>1 DEF AskRight, AskTyped, PrunesRight, CodesOf
  <2>5. \A u \in Workers : req'[u].at \in {"claim", "discard", "set", "undo", "prune"} => req'[u] = req[u]
    BY <1>1, <1>2, <1>6 DEF CodesTyped
  <2>6. MintsRight(v)'
    BY <1>1, <1>4, <1>7, <2>1, <2>5 DEF MintsRight, AskRight, AskTyped
  <2> QED
    BY <2>2, <2>3, <2>4, <2>6
<1>10. SignIn(p)!NoStrayToken'
  <2>1. ASSUME NEW u \in tokens, u # t
        PROVE  \/ minted[u] \in late \/ u \in taken[minted[u]].by
               \/ rows'[minted[u]] # NULL /\ rows'[minted[u]].token = u
               \/ \E v \in Workers : req'[v].at \in {"set", "undo", "discard"} /\ req'[v].token = u
    <3>1. minted[u] \in CodesOf(p) /\ u # NULL
      BY <1>2 DEF CodesTyped
    <3>2. CASE rows[minted[u]] # NULL /\ rows[minted[u]].token = u
      BY <1>3, <1>5, <2>1, <3>1, <3>2 DEF Waits
    <3>3. CASE \E v \in Workers : req[v].at \in {"set", "undo", "discard"} /\ req[v].token = u
      BY <1>6, <2>1, <3>3 DEF t
    <3> QED
      BY <3>2, <3>3 DEF CodesSound, SignIn!NoStrayToken
  <2> QED
    BY <1>1, <2>1 DEF SignIn!NoStrayToken
<1> QED
  BY <1>1, <1>2, <1>5, <1>8, <1>9, <1>10, CodesOver DEF CodesTyped

LEMMA CodesClaim ==
  ASSUME NEW p \in CodeParts, CodesSound(p), NEW w \in Workers, SignIn(p)!Claim(w)
  PROVE  CodesSound(p)'
<1> DEFINE c == req[w].code
           t == req[w].token
           r == SignIn(p)!Idle
<1>1. /\ req[w].at = "claim" /\ req' = [req EXCEPT ![w] = r] /\ r.at = "idle"
      /\ UNCHANGED <<age, late, tokens, minted, rushed>>
  BY DEF SignIn!Claim, SignIn!Under, SignIn!Same, SignIn!Goes, SignIn!Idle
<1>2. \/ Waits(c) /\ rows' = [rows EXCEPT ![c].token = NULL]
         /\ taken' = [taken EXCEPT ![c] = [by |-> @.by \cup {t}, times |-> @.times + 1]]
      \/ ~Waits(c) /\ UNCHANGED <<rows, taken>>
  BY DEF SignIn!Claim, SignIn!Claimable, Waits
<1> HIDE DEF r
<1>3. /\ CodesTyped(p) /\ c \in CodesOf(p) /\ age[c] # "none" /\ (c \in late \/ age[c] = "live")
      /\ Waits(c) => rows[c].approved /\ rows[c].token = t
  BY <1>1 DEF CodesSound, AskRight, AskTyped, InTime, ClaimsRight, Waits
<1>4. \A v \in Workers \ {w} : req[v].at \in {"set", "undo"} => req[v].token # t
  BY <1>1 DEF CodesSound, MintsRight
<1> HIDE DEF c, t
<1>5. CASE Waits(c)
  <2>1. CodeRight(p, c) /\ rows[c] # NULL /\ t \in tokens /\ minted[t] = c /\ t \in 1..Len(minted)
    <3>1. CodeRight(p, c) /\ rows[c] # NULL /\ rows[c].token = t
      BY <1>3, <1>5 DEF CodesSound, Waits
    <3>2. rows[c].token \in tokens /\ minted[rows[c].token] = c
      BY <1>5, <3>1 DEF CodeRight
    <3> QED
      BY <1>3, <3>1, <3>2 DEF CodesTyped
  <2>2. /\ rows' \in [CodesOf(p) -> CodeRow(p) \cup {NULL}] /\ \A d \in CodesOf(p) : d # c => rows'[d] = rows[d]
        /\ rows[c] = NULL => rows'[c] = NULL
        /\ rows[c] # NULL => /\ rows'[c] # NULL /\ rows'[c].denied = rows[c].denied
                             /\ rows'[c].approved = rows[c].approved /\ rows'[c].token = NULL
    <3>1. rows' = IF rows[c] = NULL THEN rows ELSE [rows EXCEPT ![c].token = NULL]
      BY <1>2, <1>5, <2>1
    <3> QED
      BY <1>3, <3>1, RowEmptied
  <2>3. /\ taken' \in [CodesOf(p) -> [by : SUBSET Nat, times : Nat]]
        /\ taken'[c].by = taken[c].by \cup {t} /\ taken'[c].times = taken[c].times + 1
        /\ \A d \in CodesOf(p) : d # c => taken'[d] = taken[d]
    <3> DEFINE y == [by |-> taken[c].by \cup {t}, times |-> taken[c].times + 1]
    <3>1. y \in [by : SUBSET Nat, times : Nat] /\ y.by = taken[c].by \cup {t} /\ y.times = taken[c].times + 1
      BY <1>3, <2>1, CodeIs DEF CodesTyped
    <3>2. taken' = [taken EXCEPT ![c] = y] /\ taken \in [CodesOf(p) -> [by : SUBSET Nat, times : Nat]]
      BY <1>2, <1>3, <1>5 DEF CodesTyped
    <3> HIDE DEF y
    <3> QED
      BY <1>3, <3>1, <3>2
  <2>4. \A v \in Workers : v # w => req'[v] = req[v]
    BY <1>1, <1>3 DEF CodesTyped
  <2>5. \A d \in CodesOf(p) : Waits(d)' => d # c /\ Waits(d) /\ rows'[d] = rows[d]
    BY <2>2 DEF Waits
  <2>6. ASSUME NEW d \in CodesOf(p) PROVE CodeRight(p, d)'
    <3>1. CodeRight(p, d)
      BY DEF CodesSound
    <3>2. CASE d = c
      <4>1. taken[c].times = 0 /\ taken[c].by = {}
        BY <1>5, <2>1 DEF CodeRight
      <4>2. taken'[d].by = {t} /\ taken'[d].times = 1 /\ ~Waits(d)'
        <5>1. taken'[c].by = {} \cup {t}
          BY <2>3, <4>1
        <5>2. taken'[c].times = 1
          BY <2>3, <4>1
        <5>3. ~Waits(d)'
          BY <2>5, <3>2
        <5> QED
          BY <3>2, <5>1, <5>2, <5>3
      <4>3. rows[c].approved /\ rows'[c] # NULL /\ rows'[c].approved = rows[c].approved /\ rows'[c].denied = rows[c].denied
        BY <1>3, <1>5, <2>1, <2>2
      <4>4. rows[c].denied => c \in late
        BY <2>1, <4>3 DEF CodeRight
      <4> QED
        BY <1>1, <1>3, <2>1, <3>1, <3>2, <4>2, <4>3, <4>4 DEF CodeRight
    <3>3. CASE d # c
      BY <1>1, <2>2, <2>3, <2>5, <3>1, <3>3 DEF CodeRight
    <3> QED
      BY <3>2, <3>3
  <2>7. ASSUME NEW v \in Workers \ {w}
        PROVE  ClaimsRight(req[v])' /\ DiscardsRight(req[v])' /\ PrunesRight(p, req[v])' /\ MintsRight(v)'
    <3>1. AskRight(p, req[v]) /\ MintsRight(v) /\ req'[v] = req[v]
      BY <2>4 DEF CodesSound
    <3>2. ClaimsRight(req[v])'
      BY <2>2, <3>1 DEF AskRight, AskTyped, ClaimsRight
    <3>3. DiscardsRight(req[v])'
      <4>1. req[v].at = "discard" /\ req[v].code = c => c \in late
        BY <1>3, <1>5, <2>1, <3>1 DEF AskRight, DiscardsRight, CodeRight
      <4> QED
        BY <1>1, <2>2, <2>3, <2>5, <3>1, <4>1 DEF AskRight, AskTyped, DiscardsRight
    <3>4. PrunesRight(p, req[v])'
      <4>1. ASSUME req[v].at = "prune", NEW u \in req[v].dead, minted[u] \notin late
            PROVE  u \notin taken'[minted[u]].by
        <5>1. age[minted[u]] = "old" /\ minted[u] \in CodesOf(p)
          BY <1>3, <3>1, <4>1 DEF AskRight, AskTyped, PrunesRight, CodesTyped
        <5>2. minted[u] # c
          BY <1>3, <4>1, <5>1
        <5> QED
          BY <2>3, <3>1, <4>1, <5>1, <5>2 DEF AskRight, PrunesRight
      <4>2. req[v].at = "prune" => \A d \in CodesOf(p) \ late : age[d] = "old" /\ Waits(d)' => rows'[d].token \in req[v].dead
        BY <2>5, <3>1 DEF AskRight, PrunesRight
      <4> QED
        BY <1>1, <3>1, <4>1, <4>2 DEF AskRight, PrunesRight, CodesOf
    <3>5. \A u \in Workers : req'[u].at \in {"claim", "discard", "set", "undo", "prune"} => req'[u] = req[u]
      BY <1>1, <1>3, <2>4 DEF CodesTyped
    <3>6. MintsRight(v)'
      BY <1>1, <1>4, <2>3, <2>5, <3>1, <3>5 DEF MintsRight, AskRight, AskTyped
    <3> QED
      BY <3>2, <3>3, <3>4, <3>6
  <2>8. SignIn(p)!NoStrayToken'
    <3>1. ASSUME NEW u \in tokens
          PROVE  \/ minted[u] \in late \/ u \in taken'[minted[u]].by
                 \/ rows'[minted[u]] # NULL /\ rows'[minted[u]].token = u
                 \/ \E v \in Workers : req'[v].at \in {"set", "undo", "discard"} /\ req'[v].token = u
      <4>1. minted[u] \in CodesOf(p) /\ u # NULL
        <5>1. u \in 1..Len(minted) /\ Len(minted) \in Nat /\ Len(minted) <= MintedOf(p)
          BY <1>3 DEF CodesTyped
        <5> QED
          BY <1>3, <5>1, CodesFinite DEF CodesTyped
      <4>2. CASE rows[minted[u]] # NULL /\ rows[minted[u]].token = u
        BY <1>3, <1>5, <2>2, <2>3, <4>1, <4>2
      <4>3. CASE \E v \in Workers : req[v].at \in {"set", "undo", "discard"} /\ req[v].token = u
        BY <1>1, <2>4, <4>3
      <4>4. CASE u \in taken[minted[u]].by
        BY <2>3, <4>1, <4>4
      <4> QED
        BY <4>2, <4>3, <4>4 DEF CodesSound, SignIn!NoStrayToken
    <3> QED
      BY <1>1, <3>1 DEF SignIn!NoStrayToken
  <2> QED
    BY <1>1, <1>3, <2>2, <2>3, <2>6, <2>7, <2>8, CodesOver DEF CodesTyped
<1>6. CASE ~Waits(c)
  <2>1. UNCHANGED <<rows, taken>>
    BY <1>2, <1>6
  <2>2. AskRight(p, r)
    BY <1>1, AskOver
  <2>3. HourRight(p)'
    <3>1. LastHour(p)' = LastHour(p)
      BY <1>1 DEF LastHour, CodesOf
    <3> QED
      BY <1>1, <3>1, HourKept
  <2>4. SignIn(p)!NoStrayToken'
    BY <1>1, <2>1, NoTokenLost
  <2> QED
    BY <1>1, <1>3, <2>1, <2>2, <2>3, <2>4, CodesMove DEF CodesTyped
<1> QED
  BY <1>5, <1>6

LEMMA CodesPrune ==
  ASSUME NEW p \in CodeParts, CodesSound(p), NEW w \in Workers, SignIn(p)!Prune(w)
  PROVE  CodesSound(p)'
<1> DEFINE dead == req[w].dead
           r == [at |-> req[w].then]
<1>1. /\ req[w].at = "prune" /\ req' = [req EXCEPT ![w] = r] /\ r.at = req[w].then
      /\ rows' = [c \in CodesOf(p) |-> IF rows[c] # NULL /\ age[c] = "old" THEN NULL ELSE rows[c]]
      /\ tokens' = tokens \ dead
      /\ UNCHANGED <<age, late, minted, taken, rushed>>
  BY DEF SignIn!Prune, SignIn!Under, SignIn!Same, SignIn!Goes, SignIn!Old, SignIn!Made
<1>2. r.at \in {"idle", "count"} /\ (r.at = "count" => SignIn(p)!AsksCode(w))
  BY <1>1 DEF CodesSound, AskRight, AskTyped, SignIn!AsksCode
<1>3. /\ CodesTyped(p) /\ dead \subseteq 1..Len(minted)
      /\ \A t \in dead : age[minted[t]] = "old" /\ (minted[t] \notin late => t \notin taken[minted[t]].by)
      /\ \A c \in CodesOf(p) \ late : age[c] = "old" /\ Waits(c) => rows[c].token \in dead
      /\ \A v \in Workers \ {w} : req[v].at \in {"set", "undo"} => req[v].token \notin dead
  BY <1>1 DEF CodesSound, AskRight, AskTyped, PrunesRight, MintsRight
<1> HIDE DEF dead, r
<1>4. rows' \in [CodesOf(p) -> CodeRow(p) \cup {NULL}]
  BY <1>1, <1>3 DEF CodesTyped
<1>5. \A c \in CodesOf(p) : rows'[c] = rows[c] \/ (rows'[c] = NULL /\ age[c] = "old")
  BY <1>1
<1>6. \A c \in CodesOf(p) : age[c] = "old" => rows'[c] = NULL
  BY <1>1
<1>7. \A c \in CodesOf(p) : Waits(c)' => age[c] # "old" /\ Waits(c) /\ rows'[c] = rows[c]
  BY <1>5, <1>6 DEF Waits
<1>8. \A v \in Workers : v # w => req'[v] = req[v]
  BY <1>1, <1>3 DEF CodesTyped
<1>9. ASSUME NEW c \in CodesOf(p) PROVE CodeRight(p, c)'
  <2>1. CodeRight(p, c)
    BY DEF CodesSound
  <2>2. Waits(c)' => rows[c].token \notin dead
    BY <1>3, <1>7, <2>1 DEF CodeRight
  <2>3. \A t \in taken[c].by : c \notin late => t \notin dead
    BY <1>3, <2>1 DEF CodeRight
  <2> QED
    BY <1>1, <1>5, <1>7, <2>1, <2>2, <2>3 DEF CodeRight
<1>10. ASSUME NEW v \in Workers \ {w}
       PROVE  ClaimsRight(req[v])' /\ DiscardsRight(req[v])' /\ PrunesRight(p, req[v])' /\ MintsRight(v)'
  <2>1. AskRight(p, req[v]) /\ MintsRight(v) /\ req'[v] = req[v]
    BY <1>8 DEF CodesSound
  <2>2. ClaimsRight(req[v])'
    BY <1>5, <2>1 DEF AskRight, AskTyped, ClaimsRight
  <2>3. DiscardsRight(req[v])'
    BY <1>1, <1>5, <1>7, <2>1 DEF AskRight, AskTyped, DiscardsRight
  <2>4. PrunesRight(p, req[v])'
    BY <1>1, <1>7, <2>1 DEF AskRight, AskTyped, PrunesRight, CodesOf
  <2>5. \A u \in Workers : req'[u].at \in {"claim", "discard", "set", "undo", "prune"} => req'[u] = req[u]
    BY <1>1, <1>2, <1>3, <1>8 DEF CodesTyped
  <2>6. MintsRight(v)'
    BY <1>1, <1>3, <1>7, <2>1, <2>5 DEF MintsRight, AskRight, AskTyped
  <2> QED
    BY <2>2, <2>3, <2>4, <2>6
<1>11. SignIn(p)!NoStrayToken'
  <2>1. ASSUME NEW u \in tokens, u \notin dead
        PROVE  \/ minted[u] \in late \/ u \in taken[minted[u]].by
               \/ rows'[minted[u]] # NULL /\ rows'[minted[u]].token = u
               \/ \E v \in Workers : req'[v].at \in {"set", "undo", "discard"} /\ req'[v].token = u
    <3>1. minted[u] \in CodesOf(p) /\ u # NULL
      <4>1. u \in 1..Len(minted) /\ Len(minted) \in Nat /\ Len(minted) <= MintedOf(p)
        BY <1>3 DEF CodesTyped
      <4> QED
        BY <1>3, <4>1, CodesFinite DEF CodesTyped
    <3>2. CASE rows[minted[u]] # NULL /\ rows[minted[u]].token = u
      BY <1>3, <1>5, <2>1, <3>1, <3>2 DEF Waits
    <3>3. CASE \E v \in Workers : req[v].at \in {"set", "undo", "discard"} /\ req[v].token = u
      BY <1>1, <1>8, <3>3
    <3> QED
      BY <3>2, <3>3 DEF CodesSound, SignIn!NoStrayToken
  <2> QED
    BY <1>1, <2>1 DEF SignIn!NoStrayToken
<1>12. late \subseteq CodesOf(p) /\ taken \in [CodesOf(p) -> [by : SUBSET Nat, times : Nat]]
  BY <1>3 DEF CodesTyped
<1> QED
  BY <1>1, <1>2, <1>4, <1>9, <1>10, <1>11, <1>12, CodesOver

LEMMA CodesMint ==
  ASSUME NEW p \in CodeParts, CodesSound(p), NEW w \in Workers, SignIn(p)!Mint(w)
  PROVE  CodesSound(p)'
<1> DEFINE c == req[w].code
           t == Len(minted) + 1
           r == [at |-> "set", code |-> c, token |-> t]
<1>1. /\ req[w].at = "mint" /\ Len(minted) < MintedOf(p) /\ minted' = Append(minted, c) /\ tokens' = tokens \cup {t}
      /\ req' = [req EXCEPT ![w] = r] /\ UNCHANGED <<rows, age, taken, late, rushed>>
  BY DEF SignIn!Mint, SignIn!Under, SignIn!Same, SignIn!Goes
<1>2. /\ CodesTyped(p) /\ c \in CodesOf(p) /\ age[c] # "none" /\ (c \in late \/ age[c] = "live")
      /\ Len(minted) \in Nat /\ MintedOf(p) \in Nat /\ NULL \notin 1..MintedOf(p)
  BY <1>1, CodesFinite DEF CodesSound, AskRight, AskTyped, InTime, CodesTyped
<1>3. t \in 1..MintedOf(p) /\ t \notin 1..Len(minted) /\ t # NULL /\ t \in Nat
  BY <1>1, <1>2
<1>4. r \in SetAsk(p) /\ r.at = "set" /\ r.code = c /\ r.token = t
  BY <1>2, <1>3 DEF SetAsk
<1> HIDE DEF r, c
<1>5. /\ minted' \in Seq(CodesOf(p)) /\ Len(minted') = t /\ minted'[t] = c
      /\ \A u \in 1..Len(minted) : u \in 1..Len(minted') /\ u # t /\ minted'[u] = minted[u]
  BY <1>1, <1>2 DEF CodesTyped
<1> HIDE DEF t
<1>6. DOMAIN req' = Workers /\ req'[w] = r /\ \A v \in Workers : v # w => req'[v] = req[v]
  BY <1>1, <1>2 DEF CodesTyped
<1>7. CodesTyped(p)'
  <2>1. Len(minted') \in Nat /\ t \in 1..Len(minted') /\ Len(minted') <= MintedOf(p)
    BY <1>2, <1>3, <1>5
  <2>2. tokens' \subseteq 1..Len(minted')
    BY <1>1, <1>2, <1>5, <2>1 DEF CodesTyped
  <2> QED
    BY <1>1, <1>2, <1>5, <1>6, <2>1, <2>2 DEF CodesTyped, CodeRow, CodesOf, MintedOf
<1>8. \A u \in tokens : u \in 1..Len(minted) /\ u # t /\ minted'[u] = minted[u]
  BY <1>2, <1>5 DEF CodesTyped
<1>9. ASSUME NEW d \in CodesOf(p) PROVE CodeRight(p, d)'
  <2>1. CodeRight(p, d)
    BY DEF CodesSound
  <2>2. Waits(d) => rows[d].token \in tokens' /\ minted'[rows[d].token] = d
    BY <1>1, <1>8, <2>1 DEF CodeRight
  <2>3. \A u \in taken[d].by : u \in 1..Len(minted') /\ minted'[u] = d /\ (d \notin late => u \in tokens')
    BY <1>1, <1>5, <2>1 DEF CodeRight
  <2> QED
    BY <1>1, <2>1, <2>2, <2>3 DEF CodeRight, Waits
<1>10. ASSUME NEW v \in Workers PROVE AskRight(p, req[v])' /\ MintsRight(v)'
  <2>1. CASE v = w
    <3>1. AskTyped(p, req[v])'
      <4>1. t \in 1..Len(minted')
        BY <1>3, <1>5
      <4> QED
        BY <1>1, <1>2, <1>4, <1>5, <1>6, <2>1, <4>1 DEF AskTyped, CodeSteps, SetAsk, CodesOf
    <3>2. InTime(req[v])' /\ ClaimsRight(req[v])' /\ DiscardsRight(req[v])' /\ PrunesRight(p, req[v])'
      BY <1>1, <1>2, <1>4, <1>6, <2>1 DEF InTime, ClaimsRight, DiscardsRight, PrunesRight
    <3>3. CodeRight(p, c)
      BY <1>2 DEF CodesSound
    <3>4. t \notin taken[c].by /\ (Waits(c) => rows[c].token # t)
      BY <1>3, <1>8, <3>3 DEF CodeRight
    <3>5. ASSUME NEW u \in Workers \ {w}
          PROVE  /\ req[u].at \in {"claim", "discard", "set", "undo"} => req[u].token # t
                 /\ req[u].at = "prune" => t \notin req[u].dead
      BY <1>3 DEF CodesSound, AskRight, AskTyped
    <3>6. req'[v] = r /\ r.at = "set" /\ r.code = c /\ r.token = t /\ v = w
      BY <1>4, <1>6, <2>1
    <3>7. /\ r.token \in tokens' /\ r.token \notin taken[r.code].by
          /\ Waits(r.code) => rows[r.code].token # r.token
      BY <1>1, <3>4, <3>6
    <3>8. MintsRight(v)'
      BY <1>1, <1>6, <3>5, <3>6, <3>7 DEF MintsRight, Waits
    <3> QED
      BY <3>1, <3>2, <3>8 DEF AskRight
  <2>2. CASE v # w
    <3>1. AskRight(p, req[v]) /\ MintsRight(v) /\ req'[v] = req[v]
      BY <1>6, <2>2 DEF CodesSound
    <3>2. AskTyped(p, req[v])'
      <4>1. req[v].at = "prune" => req[v].dead \subseteq 1..Len(minted')
        BY <1>5, <3>1 DEF AskRight, AskTyped
      <4>2. req[v].at \in {"set", "undo"} => req[v].token \in 1..Len(minted') /\ minted'[req[v].token] = req[v].code
        BY <1>5, <3>1 DEF AskRight, AskTyped
      <4>3. req[v].at \in {"claim", "discard"} =>
              req[v].token = NULL \/ (req[v].token \in 1..Len(minted') /\ minted'[req[v].token] = req[v].code)
        BY <1>5, <3>1 DEF AskRight, AskTyped
      <4> QED
        BY <1>1, <3>1, <4>1, <4>2, <4>3 DEF AskRight, AskTyped, SetAsk, CodesOf
    <3>3. InTime(req[v])' /\ ClaimsRight(req[v])' /\ DiscardsRight(req[v])'
      BY <1>1, <3>1 DEF AskRight, InTime, ClaimsRight, DiscardsRight, Waits
    <3>4. PrunesRight(p, req[v])'
      <4>1. req[v].at = "prune" => \A u \in req[v].dead : minted'[u] = minted[u]
        BY <1>5, <3>1 DEF AskRight, AskTyped
      <4> QED
        BY <1>1, <3>1, <4>1 DEF AskRight, PrunesRight, Waits, CodesOf
    <3>5. req[v].at \in {"set", "undo"} => req[v].token # t
      BY <1>3, <3>1 DEF AskRight, AskTyped
    <3>6. \A u \in Workers \ {v} : req'[u] = req[u] \/ (u = w /\ req'[u] = r)
      BY <1>6
    <3>7. MintsRight(v)'
      BY <1>1, <1>4, <3>1, <3>5, <3>6 DEF MintsRight, Waits
    <3> QED
      BY <3>2, <3>3, <3>4, <3>7 DEF AskRight
  <2> QED
    BY <2>1, <2>2
<1>11. HourRight(p)'
  <2>1. LastHour(p)' = LastHour(p)
    BY <1>1 DEF LastHour, CodesOf
  <2> QED
    BY <1>1, <1>4, <2>1, HourKept
<1>12. SignIn(p)!NoStrayToken'
  <2>1. ASSUME NEW u \in tokens
        PROVE  \/ minted[u] \in late \/ u \in taken[minted[u]].by
               \/ rows[minted[u]] # NULL /\ rows[minted[u]].token = u
               \/ \E v \in Workers : req'[v].at \in {"set", "undo", "discard"} /\ req'[v].token = u
    <3>1. CASE \E v \in Workers : req[v].at \in {"set", "undo", "discard"} /\ req[v].token = u
      BY <1>1, <1>6, <3>1
    <3> QED
      BY <3>1 DEF CodesSound, SignIn!NoStrayToken
  <2> QED
    BY <1>1, <1>4, <1>6, <1>8, <2>1 DEF SignIn!NoStrayToken
<1> QED
  BY <1>7, <1>9, <1>10, <1>11, <1>12 DEF CodesSound, CodesOf

LEMMA CodesInsert ==
  ASSUME NEW p \in CodeParts, CodesSound(p), NEW w \in Workers, NEW c \in CodesOf(p), SignIn(p)!Insert(w, c)
  PROVE  CodesSound(p)'
<1> DEFINE n == [denied |-> FALSE, approved |-> FALSE, token |-> NULL]
           r == SignIn(p)!Idle
<1>1. /\ req[w].at = "insert" /\ age[c] = "none" /\ rows' = [rows EXCEPT ![c] = n]
      /\ age' = [age EXCEPT ![c] = "live"] /\ req' = [req EXCEPT ![w] = r] /\ r.at = "idle"
      /\ UNCHANGED <<tokens, minted, taken, late, rushed>>
  BY DEF SignIn!Insert, SignIn!Under, SignIn!Goes, SignIn!Idle
<1>2. n \in CodeRow(p) /\ n # NULL /\ ~n.denied /\ ~n.approved /\ n.token = NULL
  <2>1. n \in CodeRow(p)
    BY DEF CodeRow
  <2>2. NULL \notin CodeRow(p)
    BY CodesFinite
  <2> QED
    BY <2>1, <2>2
<1> HIDE DEF r, n
<1>3. /\ DOMAIN req' = Workers /\ req'[w] = r /\ \A v \in Workers : v # w => req'[v] = req[v]
      /\ rows'[c] = n /\ \A d \in CodesOf(p) : d # c => rows'[d] = rows[d]
      /\ age'[c] = "live" /\ \A d \in CodesOf(p) : d # c => age'[d] = age[d]
  BY <1>1 DEF CodesSound, CodesTyped
<1>4. CodesTyped(p)'
  BY <1>1, <1>2, <1>3 DEF CodesSound, CodesTyped, CodeRow, CodesOf, MintedOf
<1>5. taken[c].times = 0 /\ taken[c].by = {} /\ rows[c] = NULL
  BY <1>1 DEF CodesSound, CodeRight
<1>6. ASSUME NEW d \in CodesOf(p) PROVE CodeRight(p, d)'
  <2>1. CodeRight(p, d)
    BY DEF CodesSound
  <2>2. CASE d = c
    <3>1. ~Waits(d)'
      BY <1>2, <1>3, <2>2 DEF Waits
    <3> QED
      BY <1>1, <1>2, <1>3, <1>5, <2>1, <2>2, <3>1 DEF CodeRight
  <2>3. CASE d # c
    BY <1>1, <1>3, <2>1, <2>3 DEF CodeRight, Waits
  <2> QED
    BY <2>2, <2>3
<1>7. \A u \in 1..Len(minted) : minted[u] \in CodesOf(p)
  BY DEF CodesSound, CodesTyped
<1>8. ASSUME NEW v \in Workers PROVE AskRight(p, req[v])' /\ MintsRight(v)'
  <2>1. CASE v = w
    BY <1>1, <1>3, <2>1, AskOver DEF AskRight, AskTyped, CodeSteps, InTime, ClaimsRight, DiscardsRight, PrunesRight, MintsRight
  <2>2. CASE v # w
    <3>1. AskRight(p, req[v]) /\ MintsRight(v) /\ req'[v] = req[v]
      BY <1>3, <2>2 DEF CodesSound
    <3>2. req[v].at \in {"claim", "discard", "mint", "set", "undo", "deny"} => req[v].code \in CodesOf(p) /\ req[v].code # c
      BY <1>1, <3>1 DEF AskRight, AskTyped
    <3>3. AskTyped(p, req[v])' /\ InTime(req[v])' /\ ClaimsRight(req[v])' /\ DiscardsRight(req[v])'
      BY <1>1, <1>3, <3>1, <3>2 DEF AskRight, AskTyped, SetAsk, InTime, ClaimsRight, DiscardsRight, Waits, CodesOf
    <3>4. PrunesRight(p, req[v])'
      <4>1. ASSUME req[v].at = "prune", NEW u \in req[v].dead
            PROVE  age'[minted[u]] = "old"
        BY <1>1, <1>3, <1>7, <3>1, <4>1 DEF AskRight, AskTyped, PrunesRight
      <4>2. \A d \in CodesOf(p) : age'[d] = "old" => d # c
        BY <1>3
      <4> QED
        BY <1>1, <1>3, <3>1, <4>1, <4>2 DEF AskRight, PrunesRight, Waits, CodesOf
    <3>5. \A u \in Workers : req'[u].at \in {"claim", "discard", "set", "undo", "prune"} => req'[u] = req[u]
      BY <1>1, <1>3
    <3>6. MintsRight(v)'
      BY <1>1, <1>3, <3>1, <3>2, <3>5 DEF MintsRight, Waits
    <3> QED
      BY <3>3, <3>4, <3>6 DEF AskRight
  <2> QED
    BY <2>1, <2>2
<1>9. HourRight(p)'
  <2>1. CASE rushed
    BY <1>1, <2>1 DEF HourRight
  <2>2. CASE ~rushed
    <3>1. /\ \A v \in Workers : SignIn(p)!AsksCode(v) => v = w
          /\ Cardinality(LastHour(p)) < MaxPerHour
      BY <1>1, <2>2 DEF CodesSound, HourRight, SignIn!AsksCode
    <3>2. LastHour(p)' = LastHour(p) \cup {c} /\ c \notin LastHour(p)
      BY <1>1, <1>3 DEF LastHour, CodesOf
    <3>3. IsFiniteSet(LastHour(p)) /\ Cardinality(LastHour(p)) \in Nat /\ MaxPerHour \in Nat
      BY CodesFinite, FS_Subset, FS_CardinalityType DEF LastHour
    <3>4. Cardinality(LastHour(p)') = Cardinality(LastHour(p)) + 1
      BY <3>2, <3>3, FS_AddElement
    <3>5. \A v \in Workers : ~SignIn(p)!AsksCode(v)' /\ req'[v].at # "insert"
      BY <1>1, <1>3, <3>1 DEF SignIn!AsksCode
    <3> QED
      BY <3>1, <3>3, <3>4, <3>5 DEF HourRight
  <2> QED
    BY <2>1, <2>2
<1>10. SignIn(p)!NoStrayToken'
  <2>1. ASSUME NEW u \in tokens
        PROVE  \/ minted[u] \in late \/ u \in taken[minted[u]].by
               \/ rows'[minted[u]] # NULL /\ rows'[minted[u]].token = u
               \/ \E v \in Workers : req'[v].at \in {"set", "undo", "discard"} /\ req'[v].token = u
    <3>1. minted[u] \in CodesOf(p)
      BY DEF CodesSound, CodesTyped
    <3>2. CASE \E v \in Workers : req[v].at \in {"set", "undo", "discard"} /\ req[v].token = u
      BY <1>1, <1>3, <3>2
    <3>3. CASE rows[minted[u]] # NULL /\ rows[minted[u]].token = u
      BY <1>3, <1>5, <3>1, <3>3
    <3> QED
      BY <3>2, <3>3 DEF CodesSound, SignIn!NoStrayToken
  <2> QED
    BY <1>1, <2>1 DEF SignIn!NoStrayToken
<1> QED
  BY <1>4, <1>6, <1>8, <1>9, <1>10 DEF CodesSound, CodesOf

LEMMA CodesAges ==
  ASSUME NEW p \in CodeParts, CodesSound(p), NEW c \in CodesOf(p), SignIn(p)!Ages(c)
  PROVE  CodesSound(p)'
<1>1. /\ \/ age[c] = "live" /\ age' = [age EXCEPT ![c] = "expired"]
         \/ age[c] = "expired" /\ age' = [age EXCEPT ![c] = "old"]
      /\ late' = IF \E w \in Workers : SignIn(p)!About(w, c) THEN late \cup {c} ELSE late
      /\ UNCHANGED <<rows, tokens, minted, req, taken, rushed>>
  BY DEF SignIn!Ages
<1>2. late \subseteq late' /\ late' \subseteq CodesOf(p) /\ (\A w \in Workers : SignIn(p)!About(w, c) => c \in late')
  BY <1>1 DEF CodesSound, CodesTyped
<1>3. /\ age'[c] \in {"expired", "old"} /\ (age[c] = "live" => age'[c] = "expired")
      /\ \A d \in CodesOf(p) : d # c => age'[d] = age[d]
  BY <1>1 DEF CodesSound, CodesTyped
<1>4. CodesTyped(p)'
  BY <1>1, <1>2 DEF CodesSound, CodesTyped, CodeRow, CodesOf, MintedOf
<1>5. ASSUME NEW d \in CodesOf(p) PROVE CodeRight(p, d)'
  <2>1. CodeRight(p, d)
    BY DEF CodesSound
  <2>2. age'[d] \in {"live", "expired"} => age[d] \in {"live", "expired"}
    BY <1>1, <1>3
  <2>3. age'[d] = "none" => age[d] = "none"
    BY <1>3
  <2> QED
    BY <1>1, <1>2, <2>1, <2>2, <2>3 DEF CodeRight, Waits
<1>6. ASSUME NEW v \in Workers PROVE AskRight(p, req[v])' /\ MintsRight(v)'
  <2>1. AskRight(p, req[v]) /\ MintsRight(v) /\ req'[v] = req[v]
    BY <1>1 DEF CodesSound
  <2>2. req[v].at \in {"claim", "discard", "mint", "set", "undo", "deny"} /\ req[v].code = c => c \in late'
    BY <1>2 DEF SignIn!About
  <2>3. AskTyped(p, req[v])' /\ InTime(req[v])'
    BY <1>1, <1>2, <1>3, <2>1, <2>2 DEF AskRight, AskTyped, SetAsk, InTime, CodesOf
  <2>4. ClaimsRight(req[v])' /\ DiscardsRight(req[v])'
    BY <1>1, <1>2, <1>3, <2>1, <2>2 DEF AskRight, AskTyped, ClaimsRight, DiscardsRight, Waits
  <2>5. PrunesRight(p, req[v])'
    <3>1. ASSUME req[v].at = "prune", NEW u \in req[v].dead
          PROVE  age'[minted[u]] = "old"
      <4>1. minted[u] \in CodesOf(p) /\ age[minted[u]] = "old"
        BY <2>1, <3>1 DEF AskRight, AskTyped, PrunesRight, CodesSound, CodesTyped
      <4> QED
        BY <1>1, <1>3, <4>1
    <3>2. req[v].at = "prune" => c \in late'
      BY <1>2 DEF SignIn!About
    <3> QED
      BY <1>1, <1>2, <1>3, <2>1, <3>1, <3>2 DEF AskRight, PrunesRight, Waits, CodesOf
  <2>6. MintsRight(v)'
    BY <1>1, <2>1 DEF MintsRight, Waits
  <2> QED
    BY <2>3, <2>4, <2>5, <2>6 DEF AskRight
<1>7. HourRight(p)'
  <2>1. LastHour(p)' \subseteq LastHour(p)
    BY <1>1, <1>3 DEF LastHour, CodesOf
  <2>2. IsFiniteSet(LastHour(p))
    BY CodesFinite, FS_Subset DEF LastHour
  <2>3. /\ Cardinality(LastHour(p)) \in Nat /\ Cardinality(LastHour(p)') \in Nat
        /\ Cardinality(LastHour(p)') <= Cardinality(LastHour(p)) /\ MaxPerHour \in Nat
    BY <2>1, <2>2, CodesFinite, FS_Subset, FS_CardinalityType
  <2>4. \A v \in Workers : SignIn(p)!AsksCode(v)' <=> SignIn(p)!AsksCode(v)
    BY <1>1 DEF SignIn!AsksCode
  <2> QED
    BY <1>1, <2>3, <2>4 DEF HourRight, CodesSound
<1>8. SignIn(p)!NoStrayToken'
  BY <1>1, <1>2 DEF CodesSound, SignIn!NoStrayToken
<1> QED
  BY <1>4, <1>5, <1>6, <1>7, <1>8 DEF CodesSound, CodesOf

LEMMA CodesStep ==
  ASSUME NEW p \in CodeParts, CodesSound(p), SignIn(p)!Next
  PROVE  CodesSound(p)'
<1> USE DEF SignIn!Next
<1>1. ASSUME NEW c \in CodesOf(p), SignIn(p)!Ages(c) PROVE CodesSound(p)'
  BY <1>1, CodesAges
<1>2. ASSUME NEW w \in Workers, SignIn(p)!AskPrune(w, "count") \/ SignIn(p)!AskPrune(w, "idle") PROVE CodesSound(p)'
  BY <1>2, CodesAskPrune
<1>3. ASSUME NEW w \in Workers,
             SignIn(p)!Prune(w) \/ SignIn(p)!Count(w) \/ SignIn(p)!Discard(w) \/ SignIn(p)!Claim(w) \/ SignIn(p)!Deny(w)
      PROVE  CodesSound(p)'
  BY <1>3, CodesPrune, CodesCount, CodesDiscard, CodesClaim, CodesDeny
<1>4. ASSUME NEW w \in Workers, SignIn(p)!Mint(w) \/ SignIn(p)!Set(w) \/ SignIn(p)!Undo(w) \/ SignIn(p)!Die(w)
      PROVE  CodesSound(p)'
  BY <1>4, CodesMint, CodesSet, CodesUndo, CodesDie
<1>5. ASSUME NEW w \in Workers, NEW c \in CodesOf(p),
             \/ SignIn(p)!Insert(w, c) \/ SignIn(p)!Poll(w, c)
             \/ SignIn(p)!Submit(w, c, "mint") \/ SignIn(p)!Submit(w, c, "deny")
      PROVE  CodesSound(p)'
  BY <1>5, CodesInsert, CodesPoll, CodesSubmit
<1> QED
  BY <1>1, <1>2, <1>3, <1>4, <1>5

LEMMA CodesAreHeld ==
  ASSUME NEW p \in CodeParts, CodesSound(p)
  PROVE  /\ SignIn(p)!TypeOK
         /\ SignIn(p)!OneTaker /\ SignIn(p)!TakenWorks /\ SignIn(p)!NoStrayToken /\ SignIn(p)!HourlyBound
<1> USE DEF CodesSound
<1>1. SignIn(p)!TypeOK
  <2>1. ASSUME NEW c \in CodesOf(p), rows[c] # NULL
        PROVE  rows[c].denied \in BOOLEAN /\ rows[c].approved \in BOOLEAN /\ rows[c].token \in 1..Len(minted) \cup {NULL}
    BY <2>1, CodeIs DEF CodeRight, Waits, CodesTyped
  <2>2. \A w \in Workers : req[w].at \in CodeSteps
    BY DEF AskRight, AskTyped
  <2> QED
    BY <2>1, <2>2 DEF SignIn!TypeOK, SignIn!Made, SignIn!Token, CodesTyped, CodeSteps
<1>2. SignIn(p)!OneTaker /\ SignIn(p)!TakenWorks
  BY DEF SignIn!OneTaker, SignIn!TakenWorks, CodeRight
<1>3. SignIn(p)!HourlyBound
  BY SignInCardinality DEF SignIn!HourlyBound, HourRight, LastHour
<1> QED
  BY <1>1, <1>2, <1>3

LEMMA CodesStill ==
  ASSUME NEW p \in CodeParts, CodesSound(p), UNCHANGED <<rows, req, signin>>
  PROVE  CodesSound(p)'
<1> USE DEF signin, CodesSound
<1>1. CodesTyped(p)' /\ \A c \in CodesOf(p) : CodeRight(p, c)'
  BY DEF CodesTyped, CodeRow, CodesOf, MintedOf, CodeRight, Waits
<1>2. \A w \in Workers : AskRight(p, req[w])' /\ MintsRight(w)'
  BY DEF AskRight, AskTyped, SetAsk, InTime, ClaimsRight, DiscardsRight, PrunesRight, MintsRight, Waits, CodesOf
<1>3. HourRight(p)' /\ SignIn(p)!NoStrayToken'
  BY DEF HourRight, LastHour, SignIn!AsksCode, SignIn!NoStrayToken, CodesOf
<1> QED
  BY <1>1, <1>2, <1>3 DEF CodesOf

----------------------------------------------------------------------------
(* The parts together: a step is a step of the part that is instantiated.    *)
PartsSound ==
  /\ \A p \in LibraryParts : part = p => LibrarySound(p)
  /\ part = "receive" => ReceiveSound
  /\ part = "devices" => TableSound
  /\ part = "commands" => RemoteSound
  /\ part = "access" => AccessSound
  /\ part = "throttle" => ThrottleSound
  /\ part = "schedules" => TimesSound
  /\ \A p \in AlertParts : part = p => AlertsSound(p)
  /\ \A p \in CodeParts : part = p => CodesSound(p)
  /\ \A p \in OwnerParts : part = p => OwnersSound(p)

LEMMA PartsBegin == Init => PartsSound
<1> SUFFICES ASSUME Init PROVE PartsSound
  OBVIOUS
<1> USE DEF Init, LibraryParts, AlertParts, CodeParts, OwnerParts
<1>1. part = "devices" => TableSound
  BY TableInit
<1>2. part = "commands" => RemoteSound
  BY RemoteInit
<1>3. part = "access" => AccessSound
  BY AccessInit
<1>4. part = "throttle" => ThrottleSound
  BY ThrottleInit
<1>5. ASSUME NEW p \in LibraryParts, part = p PROVE LibrarySound(p)
  BY <1>5, LibraryInit
<1>6. part = "receive" => ReceiveSound
  BY ReceiveInit
<1>7. ASSUME NEW p \in OwnerParts, part = p PROVE OwnersSound(p)
  BY <1>7, OwnersInit
<1>8. ASSUME NEW p \in AlertParts, part = p PROVE AlertsSound(p)
  BY <1>8, AlertsInit
<1>9. ASSUME NEW p \in CodeParts, part = p PROVE CodesSound(p)
  BY <1>9, CodesInit
<1>10. part = "schedules" => TimesSound
  BY TimesInit
<1> QED
  BY <1>1, <1>2, <1>3, <1>4, <1>5, <1>6, <1>7, <1>8, <1>9, <1>10 DEF PartsSound

LEMMA PartsStep ==
  ASSUME PartsSound, Next
  PROVE  PartsSound' /\ \A p \in LibraryParts : part = p => Library(p)!OrderKeptStep
<1> USE DEF Next, LibraryParts, AlertParts, CodeParts, OwnerParts
<1>0. part' = part
  OBVIOUS
<1>1. part = "devices" => TableSound'
  BY TableStep DEF PartsSound
<1>2. part = "commands" => RemoteSound'
  BY RemoteStep DEF PartsSound
<1>3. part = "access" => AccessSound'
  BY AccessStep DEF PartsSound
<1>4. part = "throttle" => ThrottleSound'
  BY ThrottleStep DEF PartsSound
<1>5. ASSUME NEW p \in LibraryParts, part = p PROVE LibrarySound(p)' /\ Library(p)!OrderKeptStep
  BY <1>5, LibraryStep DEF PartsSound
<1>6. part = "receive" => ReceiveSound'
  BY ReceiveStep DEF PartsSound
<1>7. ASSUME NEW p \in OwnerParts, part = p PROVE OwnersSound(p)'
  BY <1>7, OwnersStep DEF PartsSound
<1>8. ASSUME NEW p \in AlertParts, part = p PROVE AlertsSound(p)'
  BY <1>8, AlertsStep DEF PartsSound
<1>9. ASSUME NEW p \in CodeParts, part = p PROVE CodesSound(p)'
  BY <1>9, CodesStep DEF PartsSound
<1>10. part = "schedules" => TimesSound'
  BY TimesStep DEF PartsSound
<1> QED
  BY <1>0, <1>1, <1>2, <1>3, <1>4, <1>5, <1>6, <1>7, <1>8, <1>9, <1>10 DEF PartsSound

LEMMA PartsStill ==
  ASSUME PartsSound, UNCHANGED vars
  PROVE  PartsSound' /\ \A p \in LibraryParts : part = p => Library(p)!OrderKeptStep
<1> USE DEF vars, shared, lan, worker, content, receive, table, remote, access, throttle, PartsSound
<1>1. part = "devices" => TableSound'
  BY DEF TableSound, TableTyped, DeviceRow, TableAsked, Table!Has, TableKeyed, Table!CardTokenWorks, Table!ReferencesResolve,
         Table!IsList, Table!IsGroup, Table!GroupIds, Table!DevIds
<1>2. part = "commands" => RemoteSound'
  <2>1. \A i : Adding(i)' = Adding(i)
    BY DEF Adding, Remote!Spent
  <2> QED
    BY <2>1 DEF RemoteSound, RemoteTyped, CommandRow, Asking, Polls, Reports, RemoteFiled, RemoteCounted, OneUpdate, IsOpenUpdate, Learning
<1>3. part = "access" => AccessSound'
  BY DEF AccessSound, AccessTyped, UserRow, Writes, AccessKeyed, AccessLasts, Lasting
<1>4. part = "throttle" => ThrottleSound'
  <2>1. \A i : Throttle!InWindow(i)' = Throttle!InWindow(i)
    BY DEF Throttle!InWindow
  <2> QED
    BY <2>1 DEF ThrottleSound, ThrottleTyped, RecentKept, GuessesLeft, Guessed, Fresh
<1>5. ASSUME NEW p \in LibraryParts, part = p PROVE LibrarySound(p)' /\ Library(p)!OrderKeptStep
  BY <1>5, LibraryStill
<1>6. part = "receive" => ReceiveSound'
  BY ReceiveStill
<1>7. ASSUME NEW p \in OwnerParts, part = p PROVE OwnersSound(p)'
  BY <1>7, OwnersStill
<1>8. ASSUME NEW p \in AlertParts, part = p PROVE AlertsSound(p)'
  BY <1>8, AlertsStill
<1>9. ASSUME NEW p \in CodeParts, part = p PROVE CodesSound(p)'
  BY <1>9, CodesStill
<1>10. part = "schedules" => TimesSound'
  BY TimesStill
<1> QED
  BY <1>1, <1>2, <1>3, <1>4, <1>5, <1>6, <1>7, <1>8, <1>9, <1>10

(* Whatever part is looked at, its inductive invariant holds for every number *)
(* of workers, projectors, lists, accounts and every bound.                   *)
THEOREM PartsHold == Spec => []PartsSound
BY PartsBegin, PartsStep, PartsStill, PTL DEF Spec

(* The token a Pi was given keeps working until somebody ends it, however     *)
(* enrollments, deletions and new tokens cross (api.enroll, web.py).          *)
THEOREM TokensWork == Spec => []CardTokenWorks
<1>1. PartsSound => CardTokenWorks
  BY DEF PartsSound, TableSound, CardTokenWorks
<1> QED
  BY <1>1, PartsHold, PTL

(* Deliveries stay bounded, a device has one open update and a learned code    *)
(* stays, whatever polls, results and clicks cross (_pending_commands,         *)
(* update-all, report_command_result).                                         *)
THEOREM CommandsAreKept == Spec => []CommandsKept
<1>1. PartsSound => CommandsKept
  BY RemoteHolds DEF PartsSound, CommandsKept
<1> QED
  BY <1>1, PartsHold, PTL

(* Whatever uploads, deletions and playlist changes cross, the rows           *)
(* agree with each other, for libraries and bounds of every size (web.py, the *)
(* constraints of db.py).                                                     *)
THEOREM TablesStayRight == Spec => []TablesAgree
<1>1. PartsSound => TablesAgree
  BY LibraryHolds DEF PartsSound, TableSound, TablesAgree
<1> QED
  BY <1>1, PartsHold, PTL

(* No step but a reorder changes which of two items comes first, though       *)
(* deletions leave gaps and new items are numbered by the last position       *)
(* (_renumber_playlist).                                                      *)
THEOREM OrderStaysKept == Spec => OrderKept
<1>1. PartsSound /\ [Next]_vars => \A p \in LibraryParts : part = p => Library(p)!OrderKeptStep
  BY PartsStep, PartsStill
<1> QED
  BY <1>1, PartsHold, PTL DEF Spec, OrderKept

(* No byte reaches the disk before a valid form token and what is stored is   *)
(* one whole file, for forms of every length (_receive_upload).               *)
THEOREM FormsReceivedWhole == Spec => []ReceivedWhole
<1>1. PartsSound => ReceivedWhole
  BY ReceiveHolds DEF PartsSound, ReceivedWhole
<1> QED
  BY <1>1, PartsHold, PTL

(* However many requests cross and whoever is deleted, a projector plays what *)
(* its account owns; as long as nothing crossed a request, its references and *)
(* its card are its account's (accounts.js, manifest.device_content).         *)
THEOREM OwnersStayKept == Spec => []OwnersKept
<1>1. PartsSound => OwnersKept
  BY OwnersHold DEF PartsSound, OwnersKept
<1> QED
  BY <1>1, PartsHold, PTL

(* An alert is stamped after it was told, told once and again only when due,  *)
(* and its end is told, for every number of runs and deaths of the Worker     *)
(* (alerts.evaluate).                                                         *)
THEOREM AlertsAreTold == Spec => []AlertsTold
<1>1. PartsSound => AlertsTold
  BY AlertsHold DEF PartsSound, AlertsTold
<1> QED
  BY <1>1, PartsHold, PTL

(* A sign-in code gives one working token to one taker and leaves none behind, *)
(* however polls, answers, prunes and the clock cross, and an address gets no  *)
(* more than MaxPerHour codes an hour (device_codes.js).                       *)
THEOREM SignInHolds == Spec => []CodesHold
<1>1. PartsSound => CodesHold
  BY CodesAreHeld DEF PartsSound, CodesHold
<1> QED
  BY <1>1, PartsHold, PTL

(* An admin is left, a session is its own account's, no more than MaxFailures *)
(* wrong passwords and one for every other check under way are found in any   *)
(* LockSeconds, and sign-in codes hold (users pages, current_user,            *)
(* login_locked_for, device_codes.js).                                        *)
THEOREM AccessIsSafe == Spec => []AccessHolds
<1>1. PartsSound => (part = "access" => Access!AdminLeft /\ Access!SessionIsOwn) /\ (part = "throttle" => Throttle!GuessesBounded)
  BY AccessIsHeld, ThrottleHolds DEF PartsSound
<1>2. PartsSound => CodesHold
  BY CodesAreHeld DEF PartsSound, CodesHold
<1>3. PartsSound => AccessHolds
  BY <1>1, <1>2 DEF AccessHolds
<1> QED
  BY <1>3, PartsHold, PTL

(* Rules match in their windows whatever wraps midnight, the announced start   *)
(* is the next one and the projector follows, for days, weeks and rule sets of *)
(* every size (schedules.py, resolve_active_playlist_id, projector_want).      *)
THEOREM SchedulesAreRight == Spec => []ScheduleRight
<1>1. PartsSound => ScheduleRight
  BY TimesHold DEF PartsSound, ScheduleRight
<1> QED
  BY <1>1, PartsHold, PTL

(* The type invariant of every part.                                          *)
THEOREM PartsAreTyped == Spec => []TypeOK
<1>1. TableSound => Table!TypeOK
  BY DEF TableSound, TableTyped, DeviceRow, Table!TypeOK, Table!GroupIds
<1>2. PartsSound => TypeOK
  BY <1>1, LibraryHolds, ReceiveHolds, RemoteHolds, AccessIsHeld, ThrottleHolds, TimesHold, AlertsHold, CodesAreHeld, OwnersHold
     DEF PartsSound, TypeOK
<1> QED
  BY <1>2, PartsHold, PTL
====
