------------------------- MODULE SyncPushInvariant --------------------------
(***************************************************************************)
(* The inductive invariants of SyncPush, on which its theorems rest: why   *)
(* the device's three records of a row's identity (primary key, queue,     *)
(* metadata) stay in step with each other and with the server's answer.    *)
(***************************************************************************)
EXTENDS SyncPush

\* No other statement runs inside an apply transaction, and the echoed entity
\* fits the table: what the invariants about identity and data rest on.
Isolated == ~JsInApplyWindow /\ ~ApplyMayFail

\* An item is being processed.
Busy == pc \in {"call", "reply", "local", "failed", "apply"}

Answered == pc \in {"reply", "apply"} /\ reply.code = "ok"

-----------------------------------------------------------------------------
(* What type correctness needs: a remote id is never recorded that the     *)
(* server did not assign.                                                  *)

RemoteIsEntity ==
  \A l \in Id : meta[l].remote # None => meta[l].entity = meta[l].remote

EchoHasId == reply.echo => reply.id \in ServerIds

PatchIsKnown ==
  Busy /\ cur.act = "PATCH" => meta[cur.local].remote # None

PostIsEchoed == pc = "apply" /\ cur.act = "POST" => reply.echo

\* The session only handles items that are in the queue, each of them once.
ItemsAreQueued ==
  /\ \A i \in ItemIds : Queued(i) => queue[i].ent \in Id
  /\ \A i \in ItemIds : batch[i].todo => Queued(i) /\ batch[i].ent \in Id
  /\ Busy => /\ cur.item \in ItemIds
             /\ Queued(cur.item)
             /\ ~batch[cur.item].todo
             /\ cur.local \in Id

TypeInv ==
  /\ TypeOK
  /\ RemoteIsEntity
  /\ EchoHasId
  /\ PatchIsKnown
  /\ PostIsEchoed
  /\ ItemsAreQueued

-----------------------------------------------------------------------------
(* What is under way.                                                      *)

\* The items a session holds are those it may settle: pending or failed, and
\* numbered below the next one.
HeldAreOpen ==
  /\ \A i \in ItemIds : nextItem <= i => ~Queued(i)
  /\ \A i \in ItemIds : batch[i].todo => queue[i].status \in {"PENDING", "FAILED"}
  /\ Busy => queue[cur.item].status \in {"PENDING", "FAILED"}

\* A row under a server id is one the server has created, and what a POST has
\* just created there has no row yet; a PATCH is answered for the row it names.
NewIdsAreFree ==
  /\ \A s \in ServerIds :
       rows[s].state # "absent" \/ saved[s].state # "absent" => server[s].state # "absent"
  /\ reply.echo => reply.code = "ok"
  /\ Busy /\ cur.act = "PATCH" => meta[cur.local].remote = cur.cid
  /\ Answered /\ cur.act = "PATCH" => reply.id = cur.cid
  /\ Answered /\ cur.act = "POST" =>
       /\ reply.id \in ServerIds
       /\ server[reply.id].state # "absent" /\ rows[reply.id].state = "absent"

-----------------------------------------------------------------------------
(* Identity.                                                               *)

\* Metadata follows local ids only; an entity not on the server yet is its
\* own local id.
LocalsAreTracked ==
  \A l \in Id : meta[l].entity # None =>
    l \in LocalIds /\ (meta[l].remote # None \/ meta[l].entity = l)

RowsAreTracked ==
  \A pk \in Id : rows[pk].state # "absent" => \E l \in Id : meta[l].entity = pk

\* Item numbers at and above nextItem are free.
QueueIsBounded ==
  nextItem <= writes /\ \A i \in ItemIds : nextItem <= i => ~Queued(i)

\* What the session read about an item still leads to the item's entity.
BatchResolves ==
  \A i \in ItemIds : batch[i].todo =>
    /\ batch[i].local \in Id
    /\ meta[batch[i].local].entity = queue[i].ent
    /\ meta[batch[i].local].remote = None => batch[i].ent = queue[i].ent

\* The request was built for the row the metadata still points at.
CurrentResolves ==
  Busy =>
    /\ meta[cur.local].entity = queue[cur.item].ent
    /\ cur.cid = queue[cur.item].ent
    /\ cur.remote = meta[cur.local].remote
    /\ cur.act = "POST" => cur.remote = None
    /\ cur.act = "PATCH" => cur.remote # None

\* A successful answer is about the row the request was built from.
AnswerMatches ==
  Answered =>
    /\ cur.act = "POST" =>
         /\ reply.id \in ServerIds
         /\ server[reply.id].state # "absent"
         /\ server[reply.id].origin = cur.local
         /\ server[reply.id].ver = cur.ver
    /\ cur.act = "PATCH" =>
         /\ reply.echo => reply.id = cur.cid
         /\ server[cur.cid].ver = cur.ver
    /\ cur.act \in {"POST", "PATCH"} /\ reply.echo => reply.ver = cur.ver

ApplyHasAnswer ==
  pc = "apply" /\ cur.act \in {"POST", "PATCH"} => reply.code = "ok"

LockIsApply ==
  /\ applyLock <=> pc = "apply"
  /\ applyLock => saved = rows

-----------------------------------------------------------------------------
(* Data.                                                                   *)

\* A session will read another item about pk than the current one.
OtherItem(pk) ==
  \E i \in Readable : i # cur.item /\ queue[i].ent = pk

\* Only what the server does not have is answered 404.
NotFoundIsGone ==
  pc = "reply" /\ reply.code = "notfound" => ~Alive(cur.cid)

\* A write after the snapshot has left an item of its own behind.
LaterWriteIsQueued ==
  Busy /\ cur.act \in {"POST", "PATCH"}
    /\ rows[cur.cid].state = "live" /\ rows[cur.cid].ver # cur.ver
  => OtherItem(cur.cid)

\* Only a row that is not live is deleted, confirmed or dropped.
DeletedIsNotLive ==
  Busy /\ cur.act \in {"DELETE", "CONFIRM", "DROP"} => rows[cur.cid].state # "live"

DeleteItemsAreGone ==
  \A i \in ItemIds : Queued(i) /\ queue[i].op = "delete" =>
    rows[queue[i].ent].state = "absent"

-----------------------------------------------------------------------------
(* Deletes.                                                                *)

\* Item i, which some session will read, tells the server of the row's end. Once
\* the row is gone from the table no snapshot of it can: only an item of a
\* DELETE statement does.
TellsOfDelete(i, pk) ==
  /\ i \in Readable /\ queue[i].ent = pk
  /\ rows[pk].state = "absent" => queue[i].op = "delete"

\* QuietDeletesAgree, with the item that will do it.
DeletesAreQueued ==
  \A l \in Id :
    /\ meta[l].remote # None
    /\ server[meta[l].remote].state = "live"
    /\ rows[meta[l].entity].state # "live"
    => \E i \in ItemIds : TellsOfDelete(i, meta[l].entity)

\* A delete after the snapshot of a POST or PATCH has left such an item behind.
LaterDeleteIsQueued ==
  Busy /\ cur.act \in {"POST", "PATCH"} /\ rows[cur.cid].state # "live"
  => \E i \in ItemIds : i # cur.item /\ TellsOfDelete(i, cur.cid)

\* What an item asks for fits it: an item is dropped only when its row is gone and
\* it is not the item of the DELETE statement, and only a row the server has never
\* heard of is deleted without a call.
ActionFits ==
  Busy =>
    /\ cur.act = "DROP" => queue[cur.item].op # "delete" /\ rows[cur.cid].state = "absent"
    /\ cur.act = "CONFIRM" => cur.remote = None
    /\ cur.act = "DELETE" => cur.remote = cur.cid

\* When a DELETE has been answered, the server no longer shows the row.
DeleteIsAnswered ==
  pc \in {"reply", "apply"} /\ cur.act = "DELETE" /\ reply.code \in {"ok", "notfound"}
  => cur.cid \in ServerIds /\ server[cur.cid].state # "live"

\* Only the answers to a DELETE reach the apply transaction of a DELETE.
DeleteIsConfirmed ==
  pc = "apply" /\ cur.act = "DELETE" => reply.code \in {"ok", "notfound"}

-----------------------------------------------------------------------------
(* Ownership and status.                                                   *)

OnlyOkHasId == reply.id # None => reply.code = "ok"

ServerRowsHaveOrigin ==
  \A s \in ServerIds : server[s].state # "absent" => server[s].origin \in Id

StatusHasEntity == \A l \in Id : meta[l].status # "NONE" => meta[l].entity # None

IdentityInv ==
  /\ TypeInv
  /\ IdentityAgrees
  /\ LocalsAreTracked
  /\ RowsAreTracked
  /\ QueueIsBounded
  /\ BatchResolves
  /\ CurrentResolves
  /\ AnswerMatches
  /\ ApplyHasAnswer
  /\ LockIsApply

DataInv ==
  /\ QuietRowsAgree
  /\ LaterWriteIsQueued
  /\ DeletedIsNotLive
  /\ DeleteItemsAreGone
  /\ NotFoundIsGone

DeletesInv ==
  /\ DeletesAreQueued
  /\ LaterDeleteIsQueued
  /\ ActionFits
  /\ DeleteIsAnswered
  /\ DeleteIsConfirmed

OwnedInv == ServerRowsOwned /\ OnlyOkHasId /\ ServerRowsHaveOrigin

StatusInv == PendingMeansQueued /\ StatusHasEntity

IInv == IdentityInv /\ HeldAreOpen /\ DataInv /\ DeletesInv /\ OwnedInv /\ StatusInv

=============================================================================
