------------------------------- MODULE Storage -------------------------------
(***************************************************************************)
(* HTTStorage (storage.rs) and the bulk calls of Store (store.rs): upserts *)
(* that make the missing ancestors of a path on the way, removal, and      *)
(* embed_all.  A job is a program of calls on the tree, and nothing is     *)
(* held from one call to the next, so other jobs run in between.           *)
(*                                                                         *)
(* The tree is PathStore, each call of which takes effect at one moment;   *)
(* Ask is the call, React what the job does with the answer.  exists is a  *)
(* get whose data is not looked at.  The tree is PathStore only for        *)
(* clients that keep the rules of ClientRules, so a call that would break  *)
(* one is not made here while it would: jobs overlap freely, calls do not. *)
(* Nothing in the code makes a job wait like that: what is shown here is of *)
(* such clients, and the README says what befalls others.                  *)
(***************************************************************************)
EXTENDS PathStore

CONSTANTS Value,   \* what clients put
          Dir,     \* the empty value of an ancestor made on the way
          Jobs     \* the calls that clients make

ASSUME ValueAssumption == Dir \notin Value

VARIABLES
  stubs,      \* the paths that have no position
  pc,         \* the step each job is at
  job,        \* the job of each thread
  todo,       \* the ancestors to make, outermost first; the keys to embed
  unlisted,   \* embed_all: the paths that the listing has yet to come to
  removed,    \* history: the paths removed since the job began
  stored,     \* history: whether the value of a put has been in the map
  due         \* history: the keys that embed_all has yet to embed

tree == <<content, call, answer>>
history == <<removed, stored, due>>
vars == <<tree, stubs, pc, job, todo, unlisted, history>>

Puts == {"put", "put_data_only", "put_positioned"}
Kinds == Puts \cup {"get", "remove", "embed_all"}
AnyJob == [kind : Puts, path : Path \ {Root}, arg : Value]
            \cup [kind : Kinds \ Puts, path : Path \ {Root}, arg : {Dir}]

ASSUME JobsAssumption == Jobs \subseteq AnyJob

ASSUME PathAssumption ==
  /\ Root \in Path
  /\ \A p \in Path : p \in Seq(STRING) /\ (p # Root => parent_path(p) \in Path)

(* A node has the value it is made with, and takes another.                *)
ASSUME FreshAssumption ==
  \A v, w \in Value \cup {Dir} :
    Fresh(v) # Nil /\ Fresh(v).val = v /\ [Fresh(v) EXCEPT !.val = w] = Fresh(w)

ASSUME InitiallyAssumption ==
  /\ Initially \in [Path -> {Fresh(v) : v \in Value \cup {Dir}} \cup {Nil}]
  /\ Initially[Root] # Nil

Init ==
  /\ StoreInit
  /\ stubs = {}
  /\ pc = [t \in Thread |-> "idle"]
  /\ job = [t \in Thread |-> Idle]
  /\ todo = [t \in Thread |-> <<>>]
  /\ unlisted = [t \in Thread |-> {}]
  /\ removed = [t \in Thread |-> {}]
  /\ stored = [t \in Thread |-> FALSE]
  /\ due = [t \in Thread |-> {}]

Goto(t, step) == pc' = [pc EXCEPT ![t] = step]

(* The job is over, with an outcome that is the step it ends at.           *)
Outcomes == {"ok", "not_found", "has_children", "failed"}

FirstStep(kind) ==
  CASE kind \in Puts -> "scan"
    [] kind = "get" -> "get"
    [] kind = "remove" -> "remove"
    [] kind = "embed_all" -> "embed_check"

Begin(t) ==
  /\ pc[t] = "idle"
  /\ \E j \in Jobs :
       /\ job' = [job EXCEPT ![t] = j]
       /\ Goto(t, FirstStep(j.kind))
       /\ due' = [due EXCEPT ![t] =
            {p \in Path : j.kind = "embed_all" /\ IsPrefix(j.path, p) /\ content[p] # Nil}]
  /\ UNCHANGED <<tree, stubs, todo, unlisted, removed, stored>>

End(t) ==
  /\ pc[t] \in Outcomes
  /\ Goto(t, "idle")
  /\ job' = [job EXCEPT ![t] = Idle]
  /\ todo' = [todo EXCEPT ![t] = <<>>]
  /\ unlisted' = [unlisted EXCEPT ![t] = {}]
  /\ removed' = [removed EXCEPT ![t] = {}]
  /\ stored' = [stored EXCEPT ![t] = FALSE]
  /\ due' = [due EXCEPT ![t] = {}]
  /\ UNCHANGED <<tree, stubs>>

-----------------------------------------------------------------------------
(* Calls on the tree *)

(* find_missing_ancestors looks for the parent of the last one it missed.  *)
Cursor(t) == IF todo[t] = <<>> THEN job[t].path ELSE Head(todo[t])

InsertKind(t) == IF job[t].kind = "put_data_only" THEN "insert_data_only" ELSE "insert"

(* Wrong: an ancestor that was missing is written to, not inserted.        *)
MakeKindUpdate(t) == "update_value"

MakeKind(t) == InsertKind(t)

TargetKind(t) == IF job[t].kind = "put_positioned" THEN "insert_positioned" ELSE InsertKind(t)

Asks(k, p, v) == [kind |-> k, path |-> p, arg |-> v]

(* The call each step makes.                                               *)
Wanted(t) ==
  CASE pc[t] = "scan"         -> Asks("get", parent_path(Cursor(t)), Dir)
    [] pc[t] = "make_check"   -> Asks("get", Head(todo[t]), Dir)
    [] pc[t] = "make"         -> Asks(MakeKind(t), Head(todo[t]), Dir)
    [] pc[t] \in {"target_check", "get", "embed_check"} -> Asks("get", job[t].path, Dir)
    [] pc[t] = "target"       -> Asks(TargetKind(t), job[t].path, job[t].arg)
    [] pc[t] = "update"       -> Asks("update_value", job[t].path, job[t].arg)
    [] pc[t] = "remove"       -> Asks("delete", job[t].path, Dir)
    [] pc[t] = "embed_prefix" -> Asks("embed_existing", job[t].path, Dir)
    [] pc[t] = "embed_each"   -> Asks("embed_existing", Head(todo[t]), Dir)

Calling == {"scan", "make_check", "make", "target_check", "get", "embed_check", "target",
            "update", "remove", "embed_prefix", "embed_each"}

(* The call of t breaks no rule with the calls in progress and the paths   *)
(* that have no position.                                                  *)
MayAsk(t) ==
  /\ \A u \in Thread \ {t}, r \in Rules :
       call[u] # Idle => ~Clash(r, Wanted(t), call[u]) /\ ~Clash(r, call[u], Wanted(t))
  /\ ClearOf(Rules, Wanted(t), stubs)

Ask(t) ==
  /\ pc[t] \in Calling
  /\ call[t] = Idle
  /\ MayAsk(t)
  /\ call' = [call EXCEPT ![t] = Wanted(t)]
  /\ UNCHANGED <<content, answer, stubs, pc, job, todo, unlisted, history>>

(* embed_existing gives an ancestor a position before it does its path.    *)
Upgrade(t) ==
  /\ Pending(t, {"embed_existing"})
  /\ \E p \in stubs :
       /\ IsPrefix(p, call[t].path) /\ parent_path(p) \notin stubs
       /\ stubs' = stubs \ {p}
  /\ UNCHANGED <<tree, pc, job, todo, unlisted, history>>

(* Which paths have no position after a call of t took effect.             *)
Positions(t) ==
  LET made == {p \in Path : /\ p = call[t].path /\ call[t].kind = "insert_data_only"
                            /\ answer'[t] = <<"ok">>}
  IN  /\ stubs' = {p \in stubs \cup made : content'[p] # Nil}
      /\ answer'[t] \in {<<"already">>, <<"upgraded">>} => call[t].path \notin stubs

(* History sees what a call did.                                           *)
Observe(t) ==
  /\ LET gone == {p \in Path : content[p] # Nil /\ content'[p] = Nil}
         done == {p \in Path : /\ call[t].kind = "embed_existing" /\ call[t].path = p
                               /\ answer'[t] \in {<<"already">>, <<"upgraded">>}}
     IN  /\ removed' = [u \in Thread |-> IF pc[u] = "idle" THEN {} ELSE removed[u] \cup gone]
         /\ due' = [u \in Thread |-> due[u] \ IF u = t THEN gone \cup done ELSE gone]
  /\ stored' = [u \in Thread |->
       \/ stored[u]
       \/ /\ pc[u] # "idle" /\ job[u].kind \in Puts
          /\ content'[job[u].path] # Nil /\ content'[job[u].path].val = job[u].arg]

(* The tree serves a call.                                                 *)
Serve(t) ==
  /\ Insert(t) \/ Change(t) \/ Get(t) \/ Delete(t) \/ Embed(t)
  /\ Positions(t)
  /\ Observe(t)
  /\ UNCHANGED <<pc, job, todo, unlisted>>

-----------------------------------------------------------------------------
(* What a job does with the answer *)

Said(t, r) == answer[t] = <<r>>
Found(t) == answer[t][1] = "data"

(* The step after the missing ancestors of l have been made.               *)
MakeNext(l) == IF l = <<>> THEN "target_check" ELSE "make_check"

(* Wrong: the parent is made, and no ancestor above it.                    *)
ScanParent(t) ==
  /\ pc[t] = "scan"
  /\ todo' = [todo EXCEPT ![t] = IF Found(t) THEN <<>> ELSE <<parent_path(job[t].path)>>]
  /\ Goto(t, MakeNext(todo'[t]))

(* find_missing_ancestors: up to the nearest ancestor that exists.         *)
Scan(t) ==
  /\ pc[t] = "scan"
  /\ \/ Found(t) /\ Goto(t, MakeNext(todo[t])) /\ UNCHANGED todo
     \/ /\ ~Found(t)
        /\ todo' = [todo EXCEPT ![t] = <<parent_path(Cursor(t))>> \o @]
        /\ UNCHANGED pc

MadeOne(t) == todo' = [todo EXCEPT ![t] = Tail(@)] /\ Goto(t, MakeNext(Tail(todo[t])))

MakeCheck(t) ==
  /\ pc[t] = "make_check"
  /\ \/ Found(t) /\ MadeOne(t)
     \/ ~Found(t) /\ Goto(t, "make") /\ UNCHANGED todo

(* An ancestor that another job has made meanwhile will do.                *)
Make(t) ==
  /\ pc[t] = "make"
  /\ \/ (Said(t, "ok") \/ Said(t, "already_exists")) /\ MadeOne(t)
     \/ Said(t, "not_found") /\ Goto(t, "not_found") /\ UNCHANGED todo
     \/ Said(t, "failed") /\ Goto(t, "failed") /\ UNCHANGED todo

TargetCheck(t) ==
  /\ pc[t] = "target_check"
  /\ Goto(t, IF Found(t) THEN "update" ELSE "target")
  /\ UNCHANGED todo

(* Wrong: a lost race counts as done.                                      *)
TargetTaken(t) ==
  /\ pc[t] = "target"
  /\ Goto(t, IF Said(t, "already_exists") THEN "ok" ELSE answer[t][1])
  /\ UNCHANGED todo

(* Who loses the race to insert updates instead.                           *)
Target(t) ==
  /\ pc[t] = "target"
  /\ Goto(t, IF Said(t, "already_exists") THEN "update" ELSE answer[t][1])
  /\ UNCHANGED todo

(* update_value, delete: the tree's answer is the job's.                   *)
Pass(t) ==
  /\ pc[t] \in {"update", "remove"}
  /\ Goto(t, answer[t][1])
  /\ UNCHANGED todo

(* Wrong: the tree's answer is the job's.                                   *)
RetrieveRaw(t) ==
  /\ pc[t] = "get"
  /\ Goto(t, answer[t][1])
  /\ UNCHANGED todo

Retrieve(t) ==
  /\ pc[t] = "get"
  /\ Goto(t, IF Found(t) THEN "ok" ELSE "not_found")
  /\ UNCHANGED todo

-----------------------------------------------------------------------------
(* embed_all *)

EmbedCheck(t) ==
  /\ pc[t] = "embed_check"
  /\ Goto(t, IF Found(t) THEN "embed_prefix" ELSE "list")
  /\ UNCHANGED todo

EmbedNext(l) == IF l = <<>> THEN "ok" ELSE "embed_each"

EmbedPrefix(t) ==
  /\ pc[t] = "embed_prefix"
  /\ Goto(t, IF answer[t][1] \in {"already", "upgraded"} THEN "list" ELSE answer[t][1])
  /\ UNCHANGED todo

EmbedEach(t) ==
  /\ pc[t] = "embed_each"
  /\ \/ /\ Said(t, "already") \/ Said(t, "upgraded")
        /\ todo' = [todo EXCEPT ![t] = Tail(@)]
        /\ Goto(t, EmbedNext(Tail(todo[t])))
     \/ /\ Said(t, "not_found") \/ Said(t, "failed")
        /\ Goto(t, answer[t][1])
        /\ UNCHANGED todo

(* Wrong: the children only.                                               *)
list_children_only(p) == {q \in Path \ {Root} : parent_path(q) = p}

list_subtree(p) == {q \in Path : Below(p, q)}

(* A call on the path map that lists a subtree comes to one path after     *)
(* another, and sees each as it is then.  The keys are sorted, so that no  *)
(* key comes before its parent.                                            *)
StartList(t) ==
  /\ pc[t] = "list"
  /\ unlisted' = [unlisted EXCEPT ![t] = list_subtree(job[t].path)]
  /\ Goto(t, "listing")
  /\ UNCHANGED <<tree, stubs, job, todo, history>>

List(t, p) ==
  /\ pc[t] = "listing"
  /\ p \in unlisted[t]
  /\ unlisted' = [unlisted EXCEPT ![t] = @ \ {p}]
  /\ \/ content[p] = Nil /\ UNCHANGED todo
     \/ /\ content[p] # Nil
        /\ \E i \in 1 .. Len(todo[t]) + 1 :
             /\ \A j \in 1 .. Len(todo[t]) : j < i <=> Len(todo[t][j]) < Len(p)
             /\ todo' = [todo EXCEPT ![t] = InsertAt(@, i, p)]
  /\ UNCHANGED <<tree, stubs, pc, job, history>>

Listed(t) ==
  /\ pc[t] = "listing"
  /\ unlisted[t] = {}
  /\ Goto(t, EmbedNext(todo[t]))
  /\ UNCHANGED <<tree, stubs, job, todo, unlisted, history>>

-----------------------------------------------------------------------------
React(t) ==
  /\ answer[t] # Nil
  /\ Scan(t) \/ MakeCheck(t) \/ Make(t) \/ TargetCheck(t) \/ Target(t) \/ Pass(t)
       \/ Retrieve(t) \/ EmbedCheck(t) \/ EmbedPrefix(t) \/ EmbedEach(t)
  /\ Respond(t)
  /\ UNCHANGED <<stubs, job, unlisted, history>>

Step(t) == Ask(t) \/ Serve(t) \/ Upgrade(t) \/ React(t) \/ StartList(t) \/ Listed(t) \/ End(t)

Next == \E t \in Thread : Begin(t) \/ Step(t) \/ \E p \in Path : List(t, p)

Spec == Init /\ [][Next]_vars

-----------------------------------------------------------------------------
(* Properties *)

TypeOK ==
  /\ content \in [Path -> {Fresh(v) : v \in Value \cup {Dir}} \cup {Nil}]
  /\ stubs \subseteq Path
  /\ pc \in [Thread -> Calling \cup Outcomes \cup {"idle", "list", "listing"}]
  /\ job \in [Thread -> Jobs \cup {Idle}]
  /\ \A t \in Thread : call[t] = Idle \/ call[t] = Wanted(t)
  /\ \A t \in Thread : \A i \in 1 .. Len(todo[t]) : todo[t][i] \in Path
  /\ unlisted \in [Thread -> SUBSET Path]
  /\ removed \in [Thread -> SUBSET Path]
  /\ stored \in [Thread -> BOOLEAN]
  /\ due \in [Thread -> SUBSET Path]

(* Each of these is said of clients that keep the rules from call to call: *)
(* the code neither asks it of them nor sees to it, and the tree breaks the *)
(* first, second and third of them for clients that do not.                *)

(* Making ancestors never empties a file: a path that holds what a client  *)
(* put does not turn into a directory while it lives, though a put of a    *)
(* child may race the put of its parent ("Ignore AlreadyExists").          *)
FilesSurvive ==
  [][\A p \in Path : content[p] # Nil /\ content'[p] # Nil /\ content[p].val \in Value =>
       content'[p].val \in Value]_vars

(* A put that answers Ok has had its value in the map while it ran: also   *)
(* one that lost the race to insert ("fall through to update").            *)
PutTookEffect ==
  \A t \in Thread : job[t].kind \in Puts /\ pc[t] = "ok" => stored[t]

(* A put and an embed_all answer NotFound only when a path they depend on  *)
(* was removed while they ran: an ancestor or the path itself, or a key    *)
(* under the prefix.  In particular each ancestor is made before its child *)
(* ("each parent exists before its child").                                *)
NotFoundMeansRemoved ==
  \A t \in Thread : pc[t] = "not_found" =>
    /\ job[t].kind \in Puts => \E p \in removed[t] : IsPrefix(p, job[t].path)
    /\ job[t].kind = "embed_all" => \E p \in removed[t] : IsPrefix(job[t].path, p)

(* An embed_all that answers Ok has embedded every key under its prefix,   *)
(* and the prefix, that was there when it began and has not been removed   *)
(* since, whatever else was put or removed while it listed ("every         *)
(* data-only key under it").                                               *)
EmbedAllReaches ==
  \A t \in Thread : job[t].kind = "embed_all" /\ pc[t] = "ok" => due[t] = {}

==============================================================================
