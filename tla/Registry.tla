------------------------------ MODULE Registry ------------------------------
(***************************************************************************)
(* The shares table and the requests that create, change and delete shares *)
(* through the API and the web interface (api/shares.py, ui/routes.py,     *)
(* services/shares.py, schemas.py).                                        *)
(*                                                                         *)
(* Each database statement is a step: a request reads a row, awaits, and   *)
(* writes what it has decided, while other requests go on.  A session      *)
(* keeps the row that it read first, and an UPDATE names only the fields   *)
(* that differ from it.                                                    *)
(***************************************************************************)
EXTENDS Naturals, FiniteSets, Functions

CONSTANTS Handlers,     \* requests in progress at once
          Users, Names,
          MaxShares,    \* bound: shares ever created
          None

VARIABLES users,        \* the users that have a row
          shares,       \* shares[i]: the i-th row ever created, or None
          made,         \* rows ever created; an identifier is never used again
          req,          \* req[h]: the request of handler h
          due,          \* due[h]: fields that have never yet had the value that it sends
          ever          \* the rows that ever allowed other users, until they are removed

vars == <<users, shares, made, req, due, ever>>

Ids == 1..MaxShares
Fields == {"allowed", "done", "tag"}

\* allowed_users names the other users or nobody; done_folder_enabled; done_tag
\* is a tag or none.  A request sends all the fields, or (model_dump,
\* exclude_unset) the ones that are set.
Full == [Fields -> BOOLEAN]
Partial == UNION {[F -> BOOLEAN] : F \in SUBSET Fields}

\* validate_done_folder of ShareCreate.
Creatable == {d \in Full : d["done"] => d["tag"]}

Rows == [name : Names, owner : Users, data : Full]

ASSUME RegistryAssumption ==
    MaxShares \in Nat /\ IsFiniteSet(Handlers) /\ None \notin Rows

Existing == {i \in Ids : shares[i] # None}

Answers == {"ok", "missing", "forbidden", "conflict", "error"}

\* sets: the fields that the request still has to write; asked (history): those
\* for which it sent another value than it found.
Fresh == [op |-> "none", via |-> "api", pc |-> "ok", user |-> None, name |-> None,
          id |-> 0, sets |-> <<>>, asked |-> <<>>]

Request == [op : {"none", "create", "update", "delete"}, via : {"api", "ui"},
            pc : {"user", "add", "insert", "select", "write", "find", "remove", "refresh"}
                 \cup Answers,
            user : Users \cup {None}, name : Names \cup {None}, id : 0..MaxShares,
            sets : Partial, asked : Partial]

TypeOK ==
    /\ users \subseteq Users
    /\ made \in 0..MaxShares
    /\ shares \in [Ids -> Rows \cup {None}]
    /\ \A i \in Existing : i <= made /\ shares[i].owner \in users
    /\ \A i, j \in Existing : shares[i].name = shares[j].name => i = j
    /\ req \in [Handlers -> Request] /\ \A h \in Handlers : req[h].id <= made
    /\ due \in [Handlers -> SUBSET Fields]
    /\ ever \subseteq Ids

Init ==
    /\ users = {}
    /\ shares = [i \in Ids |-> None]
    /\ made = 0
    /\ req = [h \in Handlers |-> Fresh]
    /\ due = [h \in Handlers |-> {}]
    /\ ever = {}

Idle(h) == req[h].pc \in Answers

Creating == {h \in Handlers : req[h].pc \in {"user", "add", "insert"}}

Goes(h, pc) == req' = [req EXCEPT ![h].pc = pc]

\* The request is refused or fails; or it succeeds, on a row.
Refuse(h, pc) == req' = [req EXCEPT ![h] = [Fresh EXCEPT !.pc = pc]]
Succeed(h) == req' = [req EXCEPT ![h] = [@ EXCEPT !.pc = "ok", !.user = None, !.name = None,
                                                  !.sets = <<>>, !.asked = <<>>]]

\* get_share_by_name: the row of that name, if the user owns it or is allowed.
Accessible(u, n) == {i \in Existing : /\ shares[i].name = n
                                      /\ shares[i].owner = u \/ shares[i].data["allowed"]}
Owned(u, n) == {i \in Existing : shares[i].name = n /\ shares[i].owner = u}

-----------------------------------------------------------------------------
(* create_share_endpoint, create_share_submit, create_share                 *)

\* The API looks for a share of the name that the user can see, and answers 409;
\* the form goes ahead.
BeginCreate(h) ==
    /\ Idle(h)
    /\ made + Cardinality(Creating) < MaxShares
    /\ \E u \in Users, n \in Names, d \in Creatable, via \in {"api", "ui"} :
         IF via = "api" /\ Accessible(u, n) # {} THEN Refuse(h, "conflict")
         ELSE req' = [req EXCEPT ![h] = [Fresh EXCEPT !.op = "create", !.pc = "user", !.user = u,
                                                      !.name = n, !.sets = d]]
    /\ due' = [due EXCEPT ![h] = {}]
    /\ UNCHANGED <<users, shares, made, ever>>

\* get_or_create_user.
FindUser(h) ==
    /\ req[h].op = "create" /\ req[h].pc = "user"
    /\ Goes(h, IF req[h].user \in users THEN "insert" ELSE "add")
    /\ UNCHANGED <<users, shares, made, due, ever>>

\* The user is committed on its own; another request may have been faster.
AddUser(h) ==
    /\ req[h].pc = "add"
    /\ users' = users \cup {req[h].user}
    /\ IF req[h].user \in users THEN Refuse(h, "error") ELSE Goes(h, "insert")
    /\ UNCHANGED <<shares, made, due, ever>>

Created(h) ==
    /\ made' = made + 1
    /\ shares' = [shares EXCEPT ![made + 1] = [name |-> req[h].name, owner |-> req[h].user,
                                               data |-> req[h].sets]]
    /\ ever' = IF req[h].sets["allowed"] THEN ever \cup {made + 1} ELSE ever
    /\ req' = [req EXCEPT ![h].pc = "refresh", ![h].id = made + 1]
    /\ UNCHANGED <<users, due>>

\* Mutant: names are unique among the shares that the user can see.
InsertUnlessSeen(h) ==
    /\ req[h].pc = "insert"
    /\ IF Accessible(req[h].user, req[h].name) = {} THEN Created(h)
       ELSE Refuse(h, "error") /\ UNCHANGED <<users, shares, made, due, ever>>

\* Names are unique, whoever owns the share.
Insert(h) ==
    /\ req[h].pc = "insert"
    /\ IF \A i \in Existing : shares[i].name # req[h].name THEN Created(h)
       ELSE Refuse(h, "error") /\ UNCHANGED <<users, shares, made, due, ever>>

\* session.refresh after a commit: the row may be gone again.
Refresh(h) ==
    /\ req[h].pc = "refresh"
    /\ IF shares[req[h].id] # None THEN Succeed(h) ELSE Refuse(h, "error")
    /\ UNCHANGED <<users, shares, made, due, ever>>

-----------------------------------------------------------------------------
(* update_share_endpoint, edit_share_submit, update_share                   *)

\* Mutant: the UPDATE names every field, those not sent with the value read.
WholeRow(send, data) == [f \in Fields |-> IF f \in DOMAIN send THEN send[f] ELSE data[f]]

\* The fields that the UPDATE will name: those that differ from the row read.
Differing(send, data) == Restrict(send, {f \in DOMAIN send : send[f] # data[f]})

Found(h, u, i, via, d) ==
    LET sets == Differing(d, shares[i].data)
        asked == Restrict(d, {f \in DOMAIN d : d[f] # shares[i].data[f]})
    IN /\ req' = [req EXCEPT ![h] = [Fresh EXCEPT !.op = "update", !.via = via, !.pc = "select",
                                                  !.user = u, !.name = shares[i].name,
                                                  !.id = i, !.sets = sets,
                                                  !.asked = asked]]
       /\ due' = [due EXCEPT ![h] = DOMAIN sets]

Refused(h, answer) == Refuse(h, answer) /\ due' = [due EXCEPT ![h] = {}]

\* The API sets some fields and asks for the owner; the form sets all of them
\* and lets in everyone who may use the share.
BeginUpdate(h) ==
    /\ Idle(h)
    /\ \E u \in Users, n \in Names :
         \/ Accessible(u, n) = {} /\ Refused(h, "missing")
         \/ Accessible(u, n) # Owned(u, n) /\ Refused(h, "forbidden")
         \/ \E i \in Owned(u, n), d \in Partial : Found(h, u, i, "api", d)
         \/ \E i \in Accessible(u, n), d \in Full : Found(h, u, i, "ui", d)
    /\ UNCHANGED <<users, shares, made, ever>>

\* Mutant: the row is selected by its name once more.
SelectByName(h) ==
    /\ req[h].pc = "select"
    /\ IF \E i \in Existing : shares[i].name = req[h].name
         THEN \E i \in Existing : /\ shares[i].name = req[h].name
                                  /\ req' = [req EXCEPT ![h].pc = "write", ![h].id = i]
         ELSE Refuse(h, "error")
    /\ UNCHANGED <<users, shares, made, due, ever>>

\* Is the row still there?  If it is not, the API fails on what it cannot
\* return, and the form takes it for success.
Select(h) ==
    /\ req[h].pc = "select"
    /\ IF shares[req[h].id] # None THEN Goes(h, "write")
       ELSE IF req[h].via = "api" THEN Refuse(h, "error") ELSE Succeed(h)
    /\ UNCHANGED <<users, shares, made, due, ever>>

Over(data, sets) == [f \in Fields |-> IF f \in DOMAIN sets THEN sets[f] ELSE data[f]]

\* Row i is written; whoever else has a value of it to set may find it set.
Put(h, i, row) ==
    /\ shares' = [shares EXCEPT ![i] = row]
    /\ ever' = IF row.data["allowed"] THEN ever \cup {i} ELSE ever
    /\ due' = [k \in Handlers |->
                 IF req[k].op = "update" /\ req[k].id = i
                   THEN due[k] \cap {f \in Fields : f \notin DOMAIN req[k].sets
                                                    \/ req[k].sets[f] # row.data[f]}
                   ELSE due[k]]
    /\ Goes(h, "refresh")
    /\ UNCHANGED <<users, made>>

\* Mutant: a row that is gone is put back (session.merge).
WriteBack(h) ==
    /\ req[h].pc = "write"
    /\ Put(h, req[h].id, [name |-> req[h].name, owner |-> req[h].user,
                          data |-> Over([f \in Fields |-> FALSE], req[h].sets)])

\* The UPDATE.
Write(h) ==
    /\ req[h].pc = "write" /\ shares[req[h].id] # None
    /\ Put(h, req[h].id, [shares[req[h].id] EXCEPT !.data = Over(@, req[h].sets)])

\* Mutant: an UPDATE that finds no row is taken for success.
StaleIgnored(h) ==
    /\ req[h].pc = "write" /\ shares[req[h].id] = None
    /\ Succeed(h)
    /\ UNCHANGED <<users, shares, made, due, ever>>

\* The row is gone: the UPDATE (StaleDataError), or the refresh where there is
\* nothing to update.
WriteFails(h) ==
    /\ req[h].pc = "write" /\ shares[req[h].id] = None
    /\ Refuse(h, "error")
    /\ UNCHANGED <<users, shares, made, due, ever>>

-----------------------------------------------------------------------------
(* delete_share                                                             *)

BeginDelete(h) ==
    /\ Idle(h)
    /\ \E u \in Users, n \in Names :
         IF u \notin users THEN Refuse(h, "missing")
         ELSE req' = [req EXCEPT ![h] = [Fresh EXCEPT !.op = "delete", !.pc = "find", !.user = u,
                                                      !.name = n]]
    /\ due' = [due EXCEPT ![h] = {}]
    /\ UNCHANGED <<users, shares, made, ever>>

FindToDelete(h) ==
    /\ req[h].pc = "find"
    /\ IF Owned(req[h].user, req[h].name) = {} THEN Refuse(h, "missing")
       ELSE \E i \in Owned(req[h].user, req[h].name) :
              req' = [req EXCEPT ![h].pc = "remove", ![h].id = i]
    /\ UNCHANGED <<users, shares, made, due, ever>>

\* DELETE by identifier; that no row matches is only a warning.
Remove(h) ==
    /\ req[h].pc = "remove"
    /\ shares' = [shares EXCEPT ![req[h].id] = None]
    /\ Succeed(h)
    /\ ever' = ever \ {req[h].id}
    /\ UNCHANGED <<users, made, due>>

Next ==
    \E h \in Handlers :
        \/ BeginCreate(h) \/ FindUser(h) \/ AddUser(h) \/ Insert(h) \/ Refresh(h)
        \/ BeginUpdate(h) \/ Select(h) \/ Write(h) \/ WriteFails(h)
        \/ BeginDelete(h) \/ FindToDelete(h) \/ Remove(h)

Spec == Init /\ [][Next]_vars

-----------------------------------------------------------------------------
(* Properties.                                                              *)

\* "Only the owner can update a share", "Only the owner can delete a share"
\* (api/shares.py): the API changes, and either way removes, only shares of the user
\* who asks, whatever was deleted and created anew under the name while the request
\* was under way.  The form lets in everyone whom get_share_by_name finds the share
\* for, and of it the property asks no more: that the row allowed the user at some
\* time.  docs/plans/2026-01-24-admin-ui-design.md:103-104 would have it refuse all
\* but the owner ("Edit/delete non-owned share: 403"); see OnlyOwnersWrite.
WritesByRight ==
    [][\A i \in Existing :
         shares'[i] # shares[i] =>
            \E h \in Handlers :
               /\ req'[h] # req[h]
               /\ \/ req[h].user = shares[i].owner
                  \/ /\ req[h].via = "ui" /\ req[h].op = "update" /\ shares'[i] # None
                     /\ i \in ever]_vars

\* "Edit/delete non-owned share: 403, Not authorized"
\* (docs/plans/2026-01-24-admin-ui-design.md:103-104).  Not so: edit_share_submit
\* asks only whether the user may use the share.
OnlyOwnersWrite ==
    [][\A i \in Existing :
         shares'[i] # shares[i] =>
            \E h \in Handlers : req'[h] # req[h] /\ req[h].user = shares[i].owner]_vars

\* A row changes only in fields for which the request that writes it had sent
\* another value than it found, and to that value (update_share): what another
\* update has written in the meantime to the other fields is not overwritten with
\* what was read before.
ChangesOnlyWhatWasAsked ==
    [][\A i \in Existing :
         shares'[i] \notin {None, shares[i]} =>
            /\ shares'[i].name = shares[i].name /\ shares'[i].owner = shares[i].owner
            /\ \E h \in Handlers :
                 /\ req'[h] # req[h]
                 /\ \A f \in Fields :
                      shares'[i].data[f] # shares[i].data[f] =>
                         f \in DOMAIN req[h].asked /\ shares'[i].data[f] = req[h].asked[f]]_vars

\* What a delete has removed stays removed, whatever updates had read it before.
DeletedStaysDeleted ==
    \A h \in Handlers : req[h].op = "delete" /\ req[h].pc = "ok" => shares[req[h].id] = None

\* An update that the API acknowledges is in the table: each field that it sets
\* had that value at some time between the request's first look and its answer.
AcknowledgedFieldsHeld ==
    \A h \in Handlers :
        req[h].op = "update" /\ req[h].via = "api" /\ req[h].pc = "ok" => due[h] = {}

\* "done_tag is required when done_folder_enabled is True", of every share.
DoneFolderHasItsTag ==
    \A i \in Existing : shares[i].data["done"] => shares[i].data["tag"]

-----------------------------------------------------------------------------
(* The inductive invariant: what each request knows of the row it is about, *)
(* which may have been written or removed since it looked.                  *)

CreateSound(h) ==
    h \in Creating =>
        /\ req[h].op = "create"
        /\ req[h].user \in (IF req[h].pc = "insert" THEN users ELSE Users)
        /\ req[h].name \in Names /\ req[h].sets \in Full

\* An update that has not yet written: its row, if it is still there, is one
\* that the user may write, and it sends whatever is due.
UpdateSound(h) ==
    /\ req[h].pc \in {"select", "write"} =>
         /\ req[h].op = "update" /\ req[h].id # 0 /\ req[h].asked = req[h].sets
         /\ due[h] \subseteq DOMAIN req[h].sets
         /\ shares[req[h].id] # None => \/ req[h].user = shares[req[h].id].owner
                                       \/ (req[h].via = "ui" /\ req[h].id \in ever)
    /\ req[h].pc = "refresh" => req[h].op \in {"create", "update"} /\ req[h].id # 0
    /\ req[h].op = "update" /\ req[h].pc = "refresh" => due[h] = {}
    /\ req[h].op = "update" /\ req[h].pc = "ok" /\ req[h].via = "api" => due[h] = {}

DeleteSound(h) ==
    /\ req[h].pc \in {"find", "remove"} => req[h].op = "delete"
    /\ req[h].pc = "remove" =>
         /\ req[h].id # 0
         /\ shares[req[h].id] # None => req[h].user = shares[req[h].id].owner
    /\ req[h].op = "delete" /\ req[h].pc = "ok" => req[h].id # 0 /\ shares[req[h].id] = None

IInv ==
    /\ TypeOK
    /\ made + Cardinality(Creating) <= MaxShares
    /\ \A i \in Existing : shares[i].data["allowed"] => i \in ever
    /\ \A h \in Handlers : CreateSound(h) /\ UpdateSound(h) /\ DeleteSound(h)
=============================================================================
