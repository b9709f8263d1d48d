------------------------------ MODULE PathStore ------------------------------
(***************************************************************************)
(* What the concurrent tree promises: a map from paths to a value and      *)
(* semantic coordinates, in which every path that is present has its       *)
(* parent present.  Each call takes effect at one moment between its       *)
(* invocation and its response, and answers for the map of that moment.    *)
(* embed_existing changes nothing a client can see here.                   *)
(***************************************************************************)
EXTENDS ClientRules

CONSTANTS Thread, Path, Request, Idle, Initially, Fresh(_), Nil

VARIABLES content,   \* content[p]: the value and coordinates, Nil if absent
          call,      \* the call of each thread, Idle between calls
          answer     \* the result of the call, Nil until it took effect

(* The call's outcome r, with the map left as it is.                       *)
Says(t, r) == answer' = [answer EXCEPT ![t] = r] /\ UNCHANGED content

StoreInit ==
  /\ content = Initially
  /\ call = [t \in Thread |-> Idle]
  /\ answer = [t \in Thread |-> Nil]

Invoke(t) ==
  /\ call[t] = Idle
  /\ \E o \in Request : call' = [call EXCEPT ![t] = o]
  /\ UNCHANGED <<content, answer>>

Respond(t) ==
  /\ answer[t] # Nil
  /\ call' = [call EXCEPT ![t] = Idle]
  /\ answer' = [answer EXCEPT ![t] = Nil]
  /\ UNCHANGED content

Pending(t, kinds) == answer[t] = Nil /\ call[t] # Idle /\ call[t].kind \in kinds

Insert(t) ==
  LET p == call[t].path
  IN  /\ Pending(t, {"insert", "insert_positioned", "insert_data_only"})
      /\ \/ content[p] # Nil /\ Says(t, <<"already_exists">>)
         \/ content[parent_path(p)] = Nil /\ Says(t, <<"not_found">>)
         \/ /\ content[p] = Nil /\ content[parent_path(p)] # Nil
            /\ content' = [content EXCEPT ![p] = Fresh(call[t].arg)]
            /\ answer' = [answer EXCEPT ![t] = <<"ok">>]
         \/ /\ call[t].kind # "insert_data_only" /\ content[p] = Nil
            /\ Says(t, <<"failed">>)
      /\ UNCHANGED call

Change(t) ==
  LET p == call[t].path
  IN  /\ Pending(t, {"update_value", "set_semantic"})
      /\ \/ content[p] = Nil /\ Says(t, <<"not_found">>)
         \/ /\ content[p] # Nil
            /\ content' = [content EXCEPT ![p] = IF call[t].kind = "update_value"
                                                 THEN [@ EXCEPT !.val = call[t].arg]
                                                 ELSE [@ EXCEPT !.sem = call[t].arg]]
            /\ answer' = [answer EXCEPT ![t] = <<"ok">>]
      /\ UNCHANGED call

Get(t) ==
  LET p == call[t].path
  IN  /\ Pending(t, {"get"})
      /\ Says(t, IF content[p] = Nil THEN <<"not_found">> ELSE <<"data", content[p]>>)
      /\ UNCHANGED call

Delete(t) ==
  LET p == call[t].path
      hasChild == \E q \in Path \ {<<>>} : parent_path(q) = p /\ content[q] # Nil
  IN  /\ Pending(t, {"delete"})
      /\ \/ content[p] = Nil /\ Says(t, <<"not_found">>)
         \/ content[p] # Nil /\ hasChild /\ Says(t, <<"has_children">>)
         \/ /\ content[p] # Nil /\ ~hasChild
            /\ content' = [content EXCEPT ![p] = Nil]
            /\ answer' = [answer EXCEPT ![t] = <<"ok">>]
      /\ UNCHANGED call

Embed(t) ==
  /\ Pending(t, {"embed_existing"})
  /\ \/ content[call[t].path] = Nil /\ Says(t, <<"not_found">>)
     \/ /\ content[call[t].path] # Nil
        /\ \E r \in {"already", "upgraded", "failed"} : Says(t, <<r>>)
  /\ UNCHANGED call

StoreNext ==
  \E t \in Thread :
    Invoke(t) \/ Insert(t) \/ Change(t) \/ Get(t) \/ Delete(t) \/ Embed(t) \/ Respond(t)

StoreSpec == StoreInit /\ [][StoreNext]_<<content, call, answer>>

==============================================================================
