---- MODULE LanContent ----
(***************************************************************************)
(* The LAN console's library and playlists (cms/app/routes/web.py over      *)
(* cms/app/db.py).  Every handler runs in a thread of the server's pool.    *)
(* A handler's SELECTs run outside any transaction until its first write    *)
(* opens one (db.cursor: sqlite3's deferred mode), so another handler may   *)
(* commit between what it read and what it writes; a handler that starts    *)
(* with BEGIN IMMEDIATE, or only writes, is one step.  The read half of a   *)
(* split handler leaves its findings in `req`.                              *)
(***************************************************************************)
EXTENDS Integers, Sequences, FiniteSets

CONSTANTS Workers,   \* threads of the request pool
          Files,     \* file names, as <<content, name>>: '<sha16>_<name>'
          Stored,    \* the files already in the library, a sequence
          Lists,     \* playlist ids
          MaxMedia,  \* bound: media rows ever inserted
          MaxItems   \* bound: playlist items ever inserted

VARIABLES lists,     \* playlists that exist
          media,     \* the media table: set of [id, file]
          items,     \* playlist_items: set of [id, list, media, pos]
          disk,      \* files in MEDIA_DIR
          nextMedia, nextItem,   \* AUTOINCREMENT: ids are never used again
          req        \* what each request has read and is about to do

vars == <<lists, media, items, disk, nextMedia, nextItem, req>>

Idle == [op |-> "idle"]
MediaIds == {m.id : m \in media}
ItemsOf(l) == {i \in items : i.list = l}

TypeOK ==
  /\ lists \subseteq Lists /\ disk \subseteq Files
  /\ media \subseteq [id : 1..MaxMedia, file : Files]
  /\ items \subseteq [id : 1..MaxItems, list : Lists, media : 1..MaxMedia, pos : 0..MaxItems - 1]
  /\ nextMedia \in 1..MaxMedia + 1 /\ nextItem \in 1..MaxItems + 1

Init ==
  /\ lists = {} /\ items = {} /\ nextItem = 1
  /\ media = {[id |-> i, file |-> Stored[i]] : i \in 1..Len(Stored)}
  /\ disk = {Stored[i] : i \in 1..Len(Stored)} /\ nextMedia = Len(Stored) + 1
  /\ req = [w \in Workers |-> Idle]

Becomes(w, r) == req[w] = Idle /\ req' = [req EXCEPT ![w] = r]
Ends(w) == req' = [req EXCEPT ![w] = Idle]

----------------------------------------------------------------------------
(* Upload.  The body is received, its content looked up, the file probed;   *)
(* then one write transaction looks again, inserts the row and renames the  *)
(* temporary file into place.                                               *)
HasContent(f) == \E m \in media : m.file[1] = f[1]

UploadProbe(w, f) ==
  /\ ~HasContent(f)
  /\ Becomes(w, [op |-> "store", file |-> f])
  /\ UNCHANGED <<lists, media, items, disk, nextMedia, nextItem>>

DuplicateUnlocked(f) == FALSE
\* The second look at the content, under the write lock.
Duplicate(f) == HasContent(f)

UploadStore(w) ==
  /\ req[w].op = "store" /\ nextMedia <= MaxMedia
  /\ LET f == req[w].file IN
       IF Duplicate(f) \/ \E m \in media : m.file = f     \* 409; filename is UNIQUE
       THEN UNCHANGED <<media, disk, nextMedia>>
       ELSE /\ disk' = disk \cup {f}
            /\ \/ /\ media' = media \cup {[id |-> nextMedia, file |-> f]}
                  /\ nextMedia' = nextMedia + 1
               \/ UNCHANGED <<media, nextMedia>>          \* killed before the commit
  /\ Ends(w)
  /\ UNCHANGED <<lists, items, nextItem>>

UploadFails(w) ==
  /\ req[w].op = "store"                                  \* ffprobe refuses the file
  /\ Ends(w)
  /\ UNCHANGED <<lists, media, items, disk, nextMedia, nextItem>>

----------------------------------------------------------------------------
(* Positions.                                                               *)
Before(a, b) == \/ a.pos < b.pos
                \/ a.pos = b.pos /\ a.id < b.id

RenumberById(is, ls) ==
  {IF i.list \notin ls THEN i
   ELSE [i EXCEPT !.pos = Cardinality({j \in is : j.list = i.list /\ j.id < i.id})] : i \in is}

Renumber(is, ls) ==
  {IF i.list \notin ls THEN i
   ELSE [i EXCEPT !.pos = Cardinality({j \in is : j.list = i.list /\ Before(j, i)})] : i \in is}

----------------------------------------------------------------------------
(* Deleting a file: what it is and which playlists show it; then the row,   *)
(* the items it takes along and the positions behind them; then the file.   *)
DeleteRead(w, m) ==
  /\ Becomes(w, [op |-> "delete", row |-> m,
                 affected |-> {i.list : i \in {j \in items : j.media = m.id}}])
  /\ UNCHANGED <<lists, media, items, disk, nextMedia, nextItem>>

DeleteRow(w) ==
  /\ req[w].op = "delete"
  /\ media' = media \ {req[w].row}
  /\ items' = Renumber({i \in items : i.media # req[w].row.id}, req[w].affected)
  /\ req' = [req EXCEPT ![w] = [op |-> "unlink", file |-> req[w].row.file]]
  /\ UNCHANGED <<lists, disk, nextMedia, nextItem>>

DeleteFile(w) ==
  /\ req[w].op = "unlink"
  /\ disk' = disk \ {req[w].file}
  /\ Ends(w)
  /\ UNCHANGED <<lists, media, items, nextMedia, nextItem>>

----------------------------------------------------------------------------
(* Playlists.                                                               *)
CreateList(l) ==
  /\ lists' = lists \cup {l} /\ lists' # lists
  /\ UNCHANGED <<media, items, disk, nextMedia, nextItem, req>>

DeleteList(l) ==
  /\ l \in lists
  /\ lists' = lists \ {l} /\ items' = items \ ItemsOf(l)
  /\ UNCHANGED <<media, disk, nextMedia, nextItem, req>>

NextPosFromOne(l) == 1 + Cardinality(ItemsOf(l))
NextPos(l) == IF ItemsOf(l) = {} THEN 0
              ELSE 1 + CHOOSE p \in {i.pos : i \in ItemsOf(l)} : \A i \in ItemsOf(l) : i.pos <= p

\* BEGIN IMMEDIATE: both lookups, the duplicate check and MAX(position) hold.
AddItem(l, m) ==
  /\ l \in lists /\ m \in MediaIds /\ nextItem <= MaxItems
  /\ \A i \in ItemsOf(l) : i.media # m
  /\ items' = items \cup {[id |-> nextItem, list |-> l, media |-> m, pos |-> NextPos(l)]}
  /\ nextItem' = nextItem + 1
  /\ UNCHANGED <<lists, media, disk, nextMedia, req>>

RemoveItem(i) ==
  /\ items' = Renumber(items \ {i}, {i.list})
  /\ UNCHANGED <<lists, media, disk, nextMedia, nextItem, req>>

\* Every order of some ids, as the position each gets.
Orders(is) == {f \in [is -> 0..Cardinality(is) - 1] : \A i, j \in is : i # j => f[i] # f[j]}

\* The order must name exactly the current items; the updates come later.
ReorderRead(w, l) ==
  /\ l \in lists /\ ItemsOf(l) # {}
  /\ \E place \in Orders({i.id : i \in ItemsOf(l)}) :
       Becomes(w, [op |-> "reorder", list |-> l, place |-> place])
  /\ UNCHANGED <<lists, media, items, disk, nextMedia, nextItem>>

Place(i, r) ==
  IF i.list = r.list /\ i.id \in DOMAIN r.place THEN [i EXCEPT !.pos = r.place[i.id]] ELSE i

ReorderWrite(w) ==
  /\ req[w].op = "reorder"
  /\ items' = {Place(i, req[w]) : i \in items}
  /\ Ends(w)
  /\ UNCHANGED <<lists, media, disk, nextMedia, nextItem>>

----------------------------------------------------------------------------
Next ==
  \/ \E w \in Workers :
       \/ UploadStore(w) \/ UploadFails(w) \/ DeleteRow(w) \/ DeleteFile(w) \/ ReorderWrite(w)
       \/ \E f \in Files : UploadProbe(w, f)
       \/ \E m \in media : DeleteRead(w, m)
       \/ \E l \in Lists : ReorderRead(w, l)
  \/ \E l \in Lists : CreateList(l) \/ DeleteList(l) \/ \E m \in MediaIds : AddItem(l, m)
  \/ \E i \in items : RemoveItem(i)

Spec == Init /\ [][Next]_vars

----------------------------------------------------------------------------
(* However adds, removals, deletions and reorders overlap, a playlist shows  *)
(* a file once (playlist_add_item looks under the write lock), and the item *)
(* and the file behind it exist: the cascades hold for what was checked     *)
(* before and written after.                                                *)
ItemsResolve ==
  /\ \A i \in items : i.list \in lists /\ i.media \in MediaIds
  /\ \A i, j \in items : i # j /\ i.list = j.list => i.media # j.media

(* Two uploads of one content at the same time leave one row (_store_upload *)
(* looks for the content a second time under the write lock).               *)
OneRowPerContent == \A m, n \in media : m.file[1] = n.file[1] => m = n

(* Only a reorder changes the relative order of two items: deleting a file   *)
(* or removing an item renumbers the others and keeps them in sequence.     *)
OrderKeptStep ==
  \A i, j \in items : \A a, b \in items' :
    /\ i.id = a.id /\ j.id = b.id /\ i.list = j.list /\ Before(i, j) /\ Before(b, a)
    => \E w \in Workers : req[w].op = "reorder" /\ req[w].list = i.list /\ req'[w] = Idle
====
