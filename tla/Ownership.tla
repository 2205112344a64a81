---- MODULE Ownership ----
(***************************************************************************)
(* One projector among the accounts of a console: accounts.js, the Devices, *)
(* Schedule and Users pages, registerDevice (api.js) and what a sync may    *)
(* play (manifest.js).  Every account has one playlist, its Default, and    *)
(* one group that plays it: both are named by the account.                  *)
(***************************************************************************)
EXTENDS FiniteSets

CONSTANTS Workers,       \* requests under way at once
          Accounts,
          Admins,        \* those with the role admin
          SiteAdmin,     \* settings.site_admin_id: one of Admins, which are Accounts
          Picks,         \* what the pages set: some of "list", "group", "rule", "drop" (a rule)
          NULL

VARIABLES users,         \* accounts that are there
          dev,           \* the devices row: owner, list, group; rules: the playlists of its schedule
          card,          \* the account whose card holds the row's token; NULL: nobody's does
          req,           \* a request's locals and the await it is at
          raced          \* history: the row or its owner changed under a request that had
                         \* looked at it

vars == <<users, dev, card, req, raced>>

Idle == [at |-> "idle"]
Ref == Accounts \cup {NULL}
Device == [owner : Ref, list : Ref, group : Ref, rules : SUBSET Accounts]
Under(w, step) == req[w].at = step
Goes(w, r) == req' = [req EXCEPT ![w] = r]

TypeOK ==
  /\ users \subseteq Accounts /\ SiteAdmin \in users /\ dev \in Device /\ card \in Ref /\ raced \in BOOLEAN
  /\ \A w \in Workers :
       req[w].at \in {"idle", "pick", "hand", "batch", "token", "rules", "refs", "answer", "played"}

Init ==
  /\ users = Accounts
  /\ \E u \in Accounts : dev = [owner |-> u, list |-> NULL, group |-> NULL, rules |-> {}] /\ card = u
  /\ req = [w \in Workers |-> Idle] /\ raced = FALSE

\* contentOwnerSql
ContentOf(owner) == IF owner = NULL THEN SiteAdmin ELSE owner
Content == ContentOf(dev.owner)

\* A request of a page that is to set a reference, rather than clear one.
Sets(w) == Under(w, "pick") /\ req[w].what # "drop" /\ req[w].ref # NULL

\* A change of owner or token crosses every request that is about to write.
Crossed(w) == raced' = (raced \/ \E v \in Workers \ {w} : Sets(v) \/ req[v].at \in {"hand", "batch", "token"})

----------------------------------------------------------------------------
\* devicesAssign, devicesSetGroup, scheduleCreate, scheduleDelete: the projector and the
\* playlist or group are the user's own when they are looked at; the write asks neither again.
Chosen(u, what) ==
  CASE what \in {"list", "group"} -> {u, NULL} [] what = "rule" -> {u} [] what = "drop" -> dev.rules

Pick(w, u, what) ==
  /\ Under(w, "idle") /\ u \in users /\ Content = u
  /\ \E ref \in Chosen(u, what) : Goes(w, [at |-> "pick", what |-> what, ref |-> ref])
  /\ UNCHANGED <<users, dev, card, raced>>

\* A row that has gone meanwhile fails its foreign key.
Picked(w) ==
  LET ref == req[w].ref
  IN  /\ Under(w, "pick")
      /\ dev' = IF Sets(w) /\ ref \notin users THEN dev
                ELSE CASE req[w].what = "list"  -> [dev EXCEPT !.list = ref]
                       [] req[w].what = "group" -> [dev EXCEPT !.group = ref]
                       [] req[w].what = "rule"  -> [dev EXCEPT !.rules = @ \cup {ref}]
                       [] req[w].what = "drop"  -> [dev EXCEPT !.rules = @ \ {ref}]
      /\ raced' = (raced \/ (Sets(w) /\ \E v \in Workers : req[v].at \in {"hand", "batch"}))
      /\ Goes(w, Idle)
      /\ UNCHANGED <<users, card>>

\* The token panel: its own account reads the token and puts it on a card.
Install(u) == u \in users /\ Content = u /\ card' = u /\ UNCHANGED <<users, dev, req, raced>>

----------------------------------------------------------------------------
\* reassignDevice: the row as read, then what of it stays, then one batch.
\* then: what a registration does after it.
ReadRow(w, new, then) ==
  Goes(w, [at |-> "hand", new |-> new, moves |-> Content # ContentOf(new),
           list |-> dev.list, group |-> dev.group, then |-> then])

SetOwner(w, u, new) ==
  /\ Under(w, "idle") /\ u \in users \cap Admins /\ new \in users \cup {NULL}
  /\ ReadRow(w, new, NULL)
  /\ UNCHANGED <<users, dev, card, raced>>

Clears(w, ref) == req[w].moves /\ ref # NULL /\ ~(ref = ContentOf(req[w].new) /\ ref \in users)

Keep(w) ==
  /\ Under(w, "hand")
  /\ Goes(w, [at |-> "batch", new |-> req[w].new, moves |-> req[w].moves, then |-> req[w].then,
              list |-> Clears(w, req[w].list), group |-> Clears(w, req[w].group),
              rules |-> req[w].moves /\ dev.rules \ {ContentOf(req[w].new)} # {}])
  /\ UNCHANGED <<users, dev, card, raced>>

\* The row the batch leaves; the token is replaced with the contents.
RulesKept(w) == dev.rules
RulesAfter(w) == IF req[w].rules THEN dev.rules \cap {ContentOf(req[w].new)} ELSE dev.rules
HandedOver(w) ==
  [owner |-> req[w].new,
   list  |-> IF req[w].list THEN NULL ELSE dev.list,
   group |-> IF req[w].group THEN NULL ELSE dev.group,
   rules |-> RulesAfter(w)]
CardStays(w) == card
CardAfter(w) == IF req[w].moves THEN NULL ELSE card

HandOver(w) ==
  /\ Under(w, "batch")
  /\ IF req[w].new \in users \cup {NULL}
     THEN /\ dev' = HandedOver(w) /\ card' = CardAfter(w)
          /\ Goes(w, IF req[w].then = NULL THEN Idle ELSE [at |-> "token", user |-> req[w].then])
          /\ Crossed(w)
     ELSE Goes(w, Idle) /\ UNCHANGED <<dev, card, raced>>
  /\ UNCHANGED users

\* registerDevice of the known id: by the enrollment key (u = NULL) or an operator's token.
\* An ownerless projector is first handed to the admin who registers it.
NotCallers(u) == IF dev.owner # NULL THEN dev.owner # u ELSE u # NULL /\ u \notin Admins

Register(w, u) ==
  /\ Under(w, "idle") /\ u \in users \cup {NULL} /\ ~NotCallers(u)
  /\ IF u # NULL /\ dev.owner = NULL THEN ReadRow(w, u, u)
     ELSE Goes(w, [at |-> "token", user |-> ContentOf(u)])
  /\ UNCHANGED <<users, dev, card, raced>>

\* devicesRegenToken: nobody's card has the new token yet.
Regen(w, u) ==
  /\ Under(w, "idle") /\ u \in users /\ Content = u
  /\ Goes(w, [at |-> "token", user |-> NULL])
  /\ UNCHANGED <<users, dev, card, raced>>

SetToken(w) ==
  /\ Under(w, "token")
  /\ card' = req[w].user
  /\ Crossed(w) /\ Goes(w, Idle)
  /\ UNCHANGED <<users, dev>>

\* usersDelete: the tokens of the account's projectors are replaced with the delete, its
\* playlists, groups and rules go with it, and its projectors stay without an owner.
CardKept(u) == card
CardAfterDelete(u) == IF dev.owner = u THEN NULL ELSE card

DeleteUser(u) ==
  /\ u \in users \ {SiteAdmin}
  /\ users' = users \ {u}
  /\ card' = CardAfterDelete(u)
  /\ dev' = [owner |-> IF dev.owner = u THEN NULL ELSE dev.owner,
             list  |-> IF dev.list = u THEN NULL ELSE dev.list,
             group |-> IF dev.group = u THEN NULL ELSE dev.group,
             rules |-> dev.rules \ {u}]
  /\ raced' = (raced \/ \E v \in Workers : Sets(v) \/ req[v].at \in {"hand", "batch", "token"})
  /\ UNCHANGED req

----------------------------------------------------------------------------
\* /api/sync: the row of the token, then the rules, then the other references, each joined
\* with its playlist's owner; the playlist itself is then looked up under that owner.
\* A rule may match now or not.
Synced(w, step, list) == Goes(w, [at |-> step, for |-> req[w].for, list |-> list])

Sync(w) ==
  /\ Under(w, "idle") /\ card # NULL
  /\ Goes(w, [at |-> "rules", for |-> Content, list |-> dev.list, group |-> dev.group])
  /\ UNCHANGED <<users, dev, card, raced>>

OwnOrNot(w, refs) == refs \cap users
Own(w, refs) == refs \cap users \cap {req[w].for}

ReadRules(w) ==
  /\ Under(w, "rules")
  /\ \/ \E l \in Own(w, dev.rules) : Synced(w, "answer", l)
     \/ Goes(w, [req[w] EXCEPT !.at = "refs"])
  /\ UNCHANGED <<users, dev, card, raced>>

\* pick_playlist: the device's, the group's, the account's Default.
FirstOf(w) ==
  LET list == Own(w, {req[w].list})  group == Own(w, {req[w].group})
  IN  IF list # {} THEN list ELSE IF group # {} THEN group ELSE {req[w].for}

ReadRefs(w) ==
  /\ Under(w, "refs")
  /\ \E l \in FirstOf(w) : Synced(w, "answer", l)
  /\ UNCHANGED <<users, dev, card, raced>>

AnswerSync(w) ==
  /\ Under(w, "answer")
  /\ Synced(w, "played", IF req[w].list \in users \cap {req[w].for} THEN req[w].list ELSE NULL)
  /\ UNCHANGED <<users, dev, card, raced>>

Ends(w) == Under(w, "played") /\ Goes(w, Idle) /\ UNCHANGED <<users, dev, card, raced>>

Next ==
  \/ \E u \in Accounts : Install(u) \/ DeleteUser(u)
  \/ \E w \in Workers :
       \/ Picked(w) \/ Keep(w) \/ HandOver(w) \/ SetToken(w)
       \/ Sync(w) \/ ReadRules(w) \/ ReadRefs(w) \/ AnswerSync(w) \/ Ends(w) \/ Register(w, NULL)
       \/ \E u \in Accounts : \/ Register(w, u) \/ Regen(w, u)
                              \/ \E what \in Picks : Pick(w, u, what)
                              \/ \E new \in Accounts \cup {NULL} : SetOwner(w, u, new)

Spec == Init /\ [][Next]_vars

----------------------------------------------------------------------------
(* Whatever crosses, a projector plays its own account's content and is never *)
(* left dark by a reference to another's (manifest.device_content).           *)
PlaysOwn == \A w \in Workers : Under(w, "played") /\ req[w].for \in users => req[w].list = req[w].for

(* A card syncs only as the projector of the account it was made for: a       *)
(* projector that changes hands, or loses its account, is signed out          *)
(* (reassignDevice, usersDelete).                                             *)
CardOfOwner == raced \/ card \in {NULL, Content}

(* What a projector points at is its account's (reassignDevice).              *)
RefsOfOwner == raced \/ {dev.list, dev.group} \cup dev.rules \subseteq {NULL, Content}
====
