---- MODULE LanDevices ----
(***************************************************************************)
(* The LAN console's devices, groups, schedule rules and enrollment         *)
(* (cms/app/routes/web.py and api.py over the schema of db.py).             *)
(* A handler looks up the rows it was given (_require_row), then writes:    *)
(* rows may go in between, and the foreign keys decide what the write does. *)
(***************************************************************************)
EXTENDS Integers, FiniteSets

CONSTANTS Workers,        \* threads of the request pool
          Serials,        \* device_id values (what a Pi enrolls as)
          Lists, Groups,  \* playlists and device groups
          NULL,
          MaxRows, MaxTokens   \* bounds: device rows and tokens ever made

VARIABLES lists, groups,  \* playlists that exist; groups: set of [id, list]
          devs,           \* devices: set of [id, serial, token, list, group]
          rules,          \* device_schedules: set of [dev, list]
          defaults,       \* settings: [list, group] for a first enrollment, text
          nextRow, nextToken,
          req,            \* what each request has read and is about to write
          card            \* history: the token a Pi was last given, 0: none that must work

db == <<lists, groups, devs, rules, defaults>>
ids == <<nextRow, nextToken>>
vars == <<db, ids, req, card>>

Idle == [op |-> "idle"]
DevIds == {d.id : d \in devs}
GroupIds == {g.id : g \in groups}
Dev(i) == CHOOSE d \in devs : d.id = i
Device(id, s, t, l, g) == [id |-> id, serial |-> s, token |-> t, list |-> l, group |-> g]

TypeOK ==
  /\ lists \subseteq Lists /\ GroupIds \subseteq Groups
  /\ devs \subseteq [id : 1..MaxRows, serial : Serials, token : 1..MaxTokens,
                     list : Lists \cup {NULL}, group : Groups \cup {NULL}]
  /\ rules \subseteq [dev : 1..MaxRows, list : Lists]
  /\ card \in [Serials -> 0..MaxTokens]

Init ==
  /\ lists = Lists /\ groups = {[id |-> g, list |-> NULL] : g \in Groups}
  /\ devs = {} /\ rules = {}
  /\ defaults = [list |-> NULL, group |-> NULL]
  /\ nextRow = 1 /\ nextToken = 1
  /\ req = [w \in Workers |-> Idle]
  /\ card = [s \in Serials |-> 0]

Becomes(w, r) == req[w] = Idle /\ req' = [req EXCEPT ![w] = r]
Ends(w) == req' = [req EXCEPT ![w] = Idle]
Has(w, op) == req[w] # Idle /\ req[w].op = op

----------------------------------------------------------------------------
(* Foreign keys: a reference must name a row when it is written, and follows *)
(* what happens to that row: ON DELETE SET NULL or ON DELETE CASCADE.        *)
IsList(l) == l \in lists \cup {NULL}
IsGroup(g) == g \in GroupIds \cup {NULL}

SetDev(i, new) == devs' = {IF d.id = i THEN new ELSE d : d \in devs}

ClearList(l) ==
  /\ devs' = {IF d.list = l THEN [d EXCEPT !.list = NULL] ELSE d : d \in devs}
  /\ groups' = {IF g.list = l THEN [g EXCEPT !.list = NULL] ELSE g : g \in groups}
  /\ rules' = {r \in rules : r.list # l}

----------------------------------------------------------------------------
(* The console's forms.                                                      *)
CheckForm(w) ==
  /\ \/ \E d \in DevIds, l \in lists \cup {NULL} : Becomes(w, [op |-> "assign", dev |-> d, list |-> l])
     \/ \E d \in DevIds, g \in GroupIds \cup {NULL} : Becomes(w, [op |-> "group", dev |-> d, group |-> g])
     \/ \E g \in GroupIds, l \in lists \cup {NULL} : Becomes(w, [op |-> "groupList", group |-> g, list |-> l])
     \/ \E d \in DevIds, l \in lists : Becomes(w, [op |-> "rule", dev |-> d, list |-> l])
     \/ \E l \in lists \cup {NULL}, g \in GroupIds \cup {NULL} :
          Becomes(w, [op |-> "settings", list |-> l, group |-> g])
  /\ UNCHANGED <<db, ids, card>>

\* An IntegrityError rolls the write back.  A row that is gone is not updated.
AssignList(w) ==
  /\ Has(w, "assign")
  /\ LET r == req[w] IN
       IF r.dev \in DevIds /\ IsList(r.list) THEN SetDev(r.dev, [Dev(r.dev) EXCEPT !.list = r.list])
                                             ELSE UNCHANGED devs
  /\ Ends(w)
  /\ UNCHANGED <<lists, groups, rules, defaults, ids, card>>

AssignGroup(w) ==
  /\ Has(w, "group")
  /\ LET r == req[w] IN
       IF r.dev \in DevIds /\ IsGroup(r.group) THEN SetDev(r.dev, [Dev(r.dev) EXCEPT !.group = r.group])
                                               ELSE UNCHANGED devs
  /\ Ends(w)
  /\ UNCHANGED <<lists, groups, rules, defaults, ids, card>>

AssignGroupList(w) ==
  /\ Has(w, "groupList")
  /\ LET r == req[w] IN
       groups' = IF IsList(r.list)
                 THEN {IF g.id = r.group THEN [g EXCEPT !.list = r.list] ELSE g : g \in groups}
                 ELSE groups
  /\ Ends(w)
  /\ UNCHANGED <<lists, devs, rules, defaults, ids, card>>

CreateRule(w) ==
  /\ Has(w, "rule")
  /\ LET r == req[w] IN
       rules' = IF r.dev \in DevIds /\ r.list \in lists
                THEN rules \cup {[dev |-> r.dev, list |-> r.list]} ELSE rules
  /\ Ends(w)
  /\ UNCHANGED <<lists, groups, devs, defaults, ids, card>>

SaveSettings(w) ==
  /\ Has(w, "settings")
  /\ defaults' = [list |-> req[w].list, group |-> req[w].group]
  /\ Ends(w)
  /\ UNCHANGED <<lists, groups, devs, rules, ids, card>>

DeleteRule(r) ==
  /\ rules' = rules \ {r}
  /\ UNCHANGED <<lists, groups, devs, defaults, ids, req, card>>

DeleteList(l) ==
  /\ lists' = lists \ {l} /\ ClearList(l)
  /\ UNCHANGED <<defaults, ids, req, card>>

DeleteGroup(g) ==
  /\ groups' = {x \in groups : x.id # g}
  /\ devs' = {IF d.group = g THEN [d EXCEPT !.group = NULL] ELSE d : d \in devs}
  /\ UNCHANGED <<lists, rules, defaults, ids, req, card>>

\* The screenshots go with the row.
DeleteDevice(d) ==
  /\ devs' = devs \ {d}
  /\ rules' = {r \in rules : r.dev # d.id}
  /\ card' = [card EXCEPT ![d.serial] = 0]
  /\ UNCHANGED <<lists, groups, defaults, ids, req>>

\* "Add device": a row by hand.  The serial is UNIQUE, the token is for a card to be written.
CreateDevice(s) ==
  /\ \A d \in devs : d.serial # s
  /\ nextRow <= MaxRows /\ nextToken <= MaxTokens
  /\ devs' = devs \cup {Device(nextRow, s, nextToken, NULL, NULL)}
  /\ nextRow' = nextRow + 1 /\ nextToken' = nextToken + 1
  /\ UNCHANGED <<lists, groups, rules, defaults, req, card>>

RegenToken(d) ==
  /\ nextToken <= MaxTokens
  /\ SetDev(d.id, [d EXCEPT !.token = nextToken]) /\ nextToken' = nextToken + 1
  /\ card' = [card EXCEPT ![d.serial] = 0]
  /\ UNCHANGED <<lists, groups, rules, defaults, nextRow, req>>

----------------------------------------------------------------------------
(* Enrollment: a Pi that knows the key asks for its token.  A known serial   *)
(* is answered with the token it has; a new one gets a row with the defaults *)
(* that still name rows.                                                     *)
EnrollKnown(s) ==
  /\ \E d \in devs : d.serial = s /\ card' = [card EXCEPT ![s] = d.token]
  /\ UNCHANGED <<db, ids, req>>

EnrollRead(w, s) ==
  /\ \A d \in devs : d.serial # s
  /\ Becomes(w, [op |-> "enroll", serial |-> s,
                 list |-> IF IsList(defaults.list) THEN defaults.list ELSE NULL,
                 group |-> IF IsGroup(defaults.group) THEN defaults.group ELSE NULL])
  /\ UNCHANGED <<db, ids, card>>

\* devices.device_id is UNIQUE; a conflict, or a default gone since, is a 500.
Insertable(r) == (\A d \in devs : d.serial # r.serial) /\ IsList(r.list) /\ IsGroup(r.group)

Given(s) == [card EXCEPT ![s] = nextToken]

EnrollWith(w, refused) ==
  /\ Has(w, "enroll") /\ nextRow <= MaxRows /\ nextToken <= MaxTokens
  /\ LET r == req[w] IN
       IF Insertable(r)
       THEN /\ devs' = devs \cup {Device(nextRow, r.serial, nextToken, r.list, r.group)}
            /\ card' = Given(r.serial)
            /\ nextRow' = nextRow + 1 /\ nextToken' = nextToken + 1
       ELSE card' = refused /\ UNCHANGED <<devs, nextRow, nextToken>>
  /\ Ends(w)
  /\ UNCHANGED <<lists, groups, rules, defaults>>

EnrollAnswersFirst(w) == EnrollWith(w, Given(req[w].serial))
EnrollInsert(w) == EnrollWith(w, card)

----------------------------------------------------------------------------
Next ==
  \/ \E w \in Workers :
       \/ CheckForm(w) \/ AssignList(w) \/ AssignGroup(w) \/ AssignGroupList(w)
       \/ CreateRule(w) \/ SaveSettings(w) \/ EnrollInsert(w)
       \/ \E s \in Serials : EnrollRead(w, s)
  \/ \E s \in Serials : EnrollKnown(s) \/ CreateDevice(s)
  \/ \E r \in rules : DeleteRule(r)
  \/ \E l \in lists : DeleteList(l)
  \/ \E g \in GroupIds : DeleteGroup(g)
  \/ \E d \in devs : DeleteDevice(d) \/ RegenToken(d)

Spec == Init /\ [][Next]_vars

----------------------------------------------------------------------------
(* The token a Pi was given opens the console until the device is deleted or *)
(* its token regenerated: two boots enrolling at once, or a card flashed     *)
(* again, leave no Pi with a token that is nobody's (api.enroll, _upsert).   *)
CardTokenWorks == \A s \in Serials : card[s] # 0 => \E d \in devs : d.serial = s /\ d.token = card[s]

(* Nothing refers to a row that is gone, whatever was deleted between a       *)
(* form's lookup and its write.                                              *)
ReferencesResolve ==
  /\ \A d \in devs : IsList(d.list) /\ IsGroup(d.group)
  /\ \A g \in groups : IsList(g.list)
  /\ \A r \in rules : r.dev \in DevIds /\ r.list \in lists
====
