------------------------------- MODULE Overlay -------------------------------
(***************************************************************************)
(* The runtime basedir of a mod (assets/serverfs.go): a tree of symlinks   *)
(* into two source layers, "common" under "server", seeded by a walk and   *)
(* kept up to date by a watcher that reconciles the path of each           *)
(* file-system event with what is on disk when the event is handled.       *)
(*                                                                         *)
(* A source path is [dir, base]; the paths of the tree are lower-cased     *)
(* (Lower).  There is one level of directories below a layer's root, Top,  *)
(* whose names are in lower case.                                          *)
(* A layer's root may be missing: seed() passes over one that is, and no    *)
(* later step comes to it.                                                 *)
(* The watcher's goroutine works off todo, the stack of what its current   *)
(* walk or event has left to do, and takes the next event when that is     *)
(* empty; the walk of seed() is its first content.                         *)
(***************************************************************************)
EXTENDS Integers, Sequences, FiniteSets, SequencesExt

CONSTANTS
  Dirs,        \* directories a layer may have below its root
  Files,       \* source paths, records [dir, base]
  Lower(_),    \* the lower-cased form of a path
  MaxChanges   \* bound on the changes of the source tree and the watches refused

Top == "."
Layers == {"common", "server"}
NoLink == [layer |-> "none"]
Unread == [layer |-> "unread"]

ASSUME PathsAssumption ==
  /\ Top \notin Dirs /\ MaxChanges \in Nat
  /\ IsFiniteSet(Files) /\ IsFiniteSet(Dirs)
  /\ \A f \in Files : f.dir \in Dirs \cup {Top} /\ Lower(f) \in Files /\ Lower(f).dir = f.dir

VARIABLES
  files,    \* per layer, the files on disk
  dirs,     \* per layer, its directories on disk, the root among them
  watched,  \* per layer, the directories inotify watches
  link,     \* the symlink at each lower-cased path of the tree
  events,   \* events not handled yet
  todo,     \* what the goroutine is in the middle of
  found,    \* reconcile: the source chosen for Head(todo), or Unread
  edits,    \* changes of the source tree and refused watches so far
  deaf,     \* history: directories no walk and no event is to lead to: refused
            \*   their watch, or the root of a layer made after seed() passed it
  blind,    \* history: paths that changed where no watch was to see it
  seen,     \* history: the source paths there have been
  upset     \* history: directories that were removed from a layer or touched

source == <<files, dirs, edits, blind, seen, upset>>
watches == <<watched, deaf>>
treeVars == <<source, watches, link, events, todo, found>>

Targets == {Lower(f) : f \in Files}

\* Tasks: walk a directory of a layer, read its entries once it is watched, or
\* reconcile a path: a file's, or a directory's.
Walk(l, d) == [do |-> "walk", layer |-> l, dir |-> d]
Read(l, d) == [do |-> "read", layer |-> l, dir |-> d]
File(f)    == [do |-> "file", file |-> f]
Dir(d)     == [do |-> "dir", dir |-> d]
Tasks == {Walk(l, d) : l \in Layers, d \in Dirs \cup {Top}}
           \cup {Read(l, d) : l \in Layers, d \in Dirs \cup {Top}}
           \cup {File(f) : f \in Files} \cup {Dir(d) : d \in Dirs}

\* seed: each layer's root is to be looked for and walked, and nothing is linked
\* yet.  What a layer holds is below its root, if it has one.
TreeInit ==
  /\ dirs \in [Layers -> {{}} \cup {ds \cup {Top} : ds \in SUBSET Dirs}]
  /\ files \in [Layers -> SUBSET Files]
  /\ \A l \in Layers : \A f \in files[l] : f.dir \in dirs[l]
  /\ watched = [l \in Layers |-> {}] /\ deaf = {}
  /\ link = [t \in Targets |-> NoLink]
  /\ events = <<>> /\ edits = 0
  /\ blind = {} /\ seen = files["common"] \cup files["server"] /\ upset = {}
  /\ todo = <<Walk("common", Top), Walk("server", Top)>>
  /\ found = Unread

-----------------------------------------------------------------------------
(* The source tree changes under the watcher *)

\* inotify reports what happens to a watched directory and to its entries.
Notify(l, ds, e) ==
  events' = IF ds \cap watched[l] # {} THEN Append(events, e) ELSE events

Changing == edits < MaxChanges /\ edits' = edits + 1 /\ UNCHANGED <<link, todo, found>>

Deaf(l, d) == <<l, d>> \in deaf \/ <<l, Top>> \in deaf

Create(l, f) ==
  /\ f \notin files[l] /\ f.dir \in dirs[l] /\ Changing
  /\ files' = [files EXCEPT ![l] = @ \cup {f}]
  /\ Notify(l, {f.dir}, File(f))
  /\ seen' = seen \cup {f}
  /\ blind' = IF f.dir \notin watched[l] /\ Deaf(l, f.dir)
                THEN blind \cup {Lower(f)} ELSE blind
  /\ UNCHANGED <<dirs, watches, upset>>

Delete(l, f) ==
  /\ f \in files[l] /\ Changing
  /\ files' = [files EXCEPT ![l] = @ \ {f}]
  /\ Notify(l, {f.dir}, File(f))
  /\ blind' = IF f.dir \in watched[l] THEN blind ELSE blind \cup {Lower(f)}
  /\ UNCHANGED <<dirs, watches, seen, upset>>

\* The event is of a creation; the walk it leads to is decided when handled.
MakeDir(l, d) ==
  /\ d \notin dirs[l] /\ Top \in dirs[l] /\ Changing
  /\ dirs' = [dirs EXCEPT ![l] = @ \cup {d}]
  /\ Notify(l, {Top}, Walk(l, d))
  /\ UNCHANGED <<files, watches, blind, seen, upset>>

\* The kernel drops the watch with the directory.
RemoveDir(l, d) ==
  /\ d \in dirs[l] /\ (\A f \in files[l] : f.dir # d) /\ Changing
  /\ dirs' = [dirs EXCEPT ![l] = @ \ {d}]
  /\ watched' = [watched EXCEPT ![l] = @ \ {d}] /\ deaf' = deaf \ {<<l, d>>}
  /\ Notify(l, {Top, d}, Dir(d))
  /\ upset' = upset \cup {d}
  /\ UNCHANGED <<files, blind, seen>>

\* chmod, touch: IN_ATTRIB, reported as an fsnotify Chmod.
TouchDir(l, d) ==
  /\ d \in dirs[l] /\ Changing
  /\ Notify(l, {Top, d}, Dir(d))
  /\ upset' = upset \cup {d}
  /\ UNCHANGED <<files, dirs, watches, blind, seen>>

\* A layer's directory is made: what holds it is not watched, so only a seed()
\* still to look for it finds it.
MakeRoot(l) ==
  /\ Top \notin dirs[l] /\ Changing
  /\ dirs' = [dirs EXCEPT ![l] = @ \cup {Top}]
  /\ deaf' = IF Walk(l, Top) \in ToSet(todo) THEN deaf ELSE deaf \cup {<<l, Top>>}
  /\ UNCHANGED <<files, watched, events, blind, seen, upset>>

\* The empty directory of a layer goes, and its watch with it; the path of the
\* event is the root itself, which reconcile returns from.
RemoveRoot(l) ==
  /\ dirs[l] = {Top} /\ files[l] = {} /\ Changing
  /\ dirs' = [dirs EXCEPT ![l] = {}]
  /\ watched' = [watched EXCEPT ![l] = @ \ {Top}] /\ deaf' = deaf \ {<<l, Top>>}
  /\ UNCHANGED <<files, events, blind, seen, upset>>

-----------------------------------------------------------------------------
(* The watcher's goroutine *)

\* run: the next event.  A creation is a walk if a directory is there by now;
\* otherwise, and for any other event, the path is reconciled.
NextEvent ==
  /\ todo = <<>> /\ events # <<>>
  /\ LET e == Head(events) IN
       todo' = <<IF e.do = "walk" /\ e.dir \notin dirs[e.layer] THEN Dir(e.dir) ELSE e>>
  /\ events' = Tail(events)
  /\ UNCHANGED <<source, watches, link, found>>

Doing(t) == todo # <<>> /\ Head(todo).do = t

\* watch: the kernel may refuse one (inotify's limits); the error of Add is
\* ignored, and the walk goes on below all the same.
Watch(l, d) ==
  \/ /\ watched' = [watched EXCEPT ![l] = @ \cup {d}] /\ deaf' = deaf \ {<<l, d>>}
     /\ UNCHANGED edits
  \/ /\ edits < MaxChanges /\ d \notin watched[l]
     /\ edits' = edits + 1
     /\ deaf' = deaf \cup {<<l, d>>} /\ UNCHANGED watched

\* Mutant: only the root of a layer is watched.
ScanWatch_rootOnly ==
  /\ Doing("walk")
  /\ LET l == Head(todo).layer
         d == Head(todo).dir
     IN IF d \in dirs[l]
          THEN Watch(l, Top) /\ todo' = <<Read(l, d)>> \o Tail(todo)
          ELSE todo' = Tail(todo) /\ UNCHANGED <<watches, edits>>
  /\ UNCHANGED <<files, dirs, blind, seen, upset, link, events, found>>

\* scan: WalkDir calls watch for a directory before it reads its entries.
\* A directory that is not there, a layer's root for one (seed), is skipped.
ScanWatch ==
  /\ Doing("walk")
  /\ LET l == Head(todo).layer
         d == Head(todo).dir
     IN IF d \in dirs[l]
          THEN Watch(l, d) /\ todo' = <<Read(l, d)>> \o Tail(todo)
          ELSE todo' = Tail(todo) /\ UNCHANGED <<watches, edits>>
  /\ UNCHANGED <<files, dirs, blind, seen, upset, link, events, found>>

\* Mutant: a directory is among its own entries.
ScanRead_self ==
  /\ Doing("read")
  /\ todo' = <<Walk(Head(todo).layer, Head(todo).dir)>> \o Tail(todo)
  /\ UNCHANGED <<source, watches, link, events, found>>

ScanRead ==
  /\ Doing("read")
  /\ LET l == Head(todo).layer
         d == Head(todo).dir
         in == {f \in files[l] : f.dir = d}
     IN todo' = SetToSeq({File(f) : f \in in})
                  \o (IF d = Top THEN SetToSeq({Walk(l, c) : c \in dirs[l] \ {Top}}) ELSE <<>>)
                  \o Tail(todo)
  /\ UNCHANGED <<source, watches, link, events, found>>

\* reconcile's loop over the layers, the last one first.
Winner(f) ==
  CASE f \in files["server"] -> [layer |-> "server", file |-> f]
    [] f \in files["common"] /\ f \notin files["server"] -> [layer |-> "common", file |-> f]
    [] OTHER -> NoLink

\* reconcile of a file: it looks the source up, then replaces the link.
Lookup ==
  /\ Doing("file") /\ found = Unread
  /\ found' = Winner(Head(todo).file)
  /\ UNCHANGED <<source, watches, link, events, todo>>

Replace ==
  /\ Doing("file") /\ found # Unread
  /\ link' = [link EXCEPT ![Lower(Head(todo).file)] = found]
  /\ found' = Unread /\ todo' = Tail(todo)
  /\ UNCHANGED <<source, watches, events>>

\* reconcile of a directory's path: a directory is not a file in any layer, so
\* the directory of that name goes from the tree with all it holds.
ReconcileDir ==
  /\ Doing("dir")
  /\ link' = [t \in Targets |-> IF t.dir = Head(todo).dir THEN NoLink ELSE link[t]]
  /\ todo' = Tail(todo)
  /\ UNCHANGED <<source, watches, events, found>>

Watcher == NextEvent \/ ScanWatch \/ ScanRead \/ Lookup \/ Replace \/ ReconcileDir

TreeNext ==
  \/ Watcher
  \/ \E l \in Layers, f \in Files : Create(l, f) \/ Delete(l, f)
  \/ \E l \in Layers, d \in Dirs : MakeDir(l, d) \/ RemoveDir(l, d) \/ TouchDir(l, d)
  \/ \E l \in Layers : MakeRoot(l) \/ RemoveRoot(l)

TreeSpec == TreeInit /\ [][TreeNext]_treeVars /\ WF_treeVars(Watcher)

-----------------------------------------------------------------------------
(* Properties *)

Settled == todo = <<>> /\ events = <<>>

Shown(t) ==
  LET at(l) == {f \in files[l] : Lower(f) = t}
      leads(l) == \E f \in at(l) : link[t] = [layer |-> l, file |-> f]
  IN CASE at("server") # {}                       -> leads("server")
       [] at("server") = {} /\ at("common") # {}  -> leads("common")
       [] OTHER                                   -> link[t] = NoLink

\* A path that was only ever spelled one way, in a directory left alone.
Plain(t) ==
  /\ \A f, g \in seen : Lower(f) = t /\ Lower(g) = t => f = g
  /\ t.dir \notin upset

\* "Later layers win; absence in all layers removes the symlink" (reconcile):
\* once every event is handled the tree shows, at each path, the file of the
\* last layer that has one there, however the source changed meanwhile and
\* while it was being walked, roots of layers that come and go and watches that
\* the kernel refuses included.  Excepted are the paths that reconcile is known
\* to mistake (~Plain), which still have no dead link, and the changes that no
\* watch was there to see (blind): a deletion before the walk comes, and any
\* change below a directory whose watch was refused or below a layer's root that
\* was made after seed() had looked for it.
Mirrors ==
  Settled => \A t \in Targets \ blind :
               /\ Plain(t) => Shown(t)
               /\ link[t] # NoLink => link[t].file \in files[link[t].layer]

\* The watcher catches up: a source tree that is left alone is settled in the
\* end (a walk or an event never feeds itself).
CatchesUp == <>[]Settled
=============================================================================
