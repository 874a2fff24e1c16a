---------------------------- MODULE ImageDelivery ----------------------------
(***************************************************************************)
(* From the upstream run of an image to the link its client opens: one     *)
(* image request on the upstream plane (UpstreamImage) that asked for      *)
(* response_format=url, the end of image_generations (crates/gateway/src/  *)
(* main.rs:769-835) and the asset store (ImageAssets), which other         *)
(* requests use as well.  A restart takes the run and the store with it.   *)
(***************************************************************************)
EXTENDS UpstreamImage

CONSTANTS
  Ids, Clients, TTL, MaxTime, MaxBoot,  \* of ImageAssets
  Others                                \* the images of other requests

ASSUME StoreAssumption == TTL \in Nat

VARIABLES
  reply,  \* what the client of the run was told
  now, boot, assets, links, asked

Store == INSTANCE ImageAssets

runVars == vars
storeVars == <<now, boot, assets, links, asked>>
allVars == <<vars, reply, storeVars>>

DeliveryInit == Init /\ reply = "none" /\ Store!Init

Told(answer) == reply = "none" /\ reply' = answer

(* The run of a request that is still there takes a step.                  *)
RunStep ==
  /\ reply = "none"
  /\ Next
  /\ UNCHANGED <<reply, storeVars>>

(* The run has ended: its error is the answer, or the image is too short,  *)
(* or the base of the link is unknown, or the image is stored and its link *)
(* is the answer.  The base is resolved before anything is stored.         *)
DeliverError ==
  /\ pc = "done"
  /\ \/ failure # "none" /\ Told("upstream_unreachable")
     \/ failure = "none" /\ (Told("empty_image") \/ Told("image_url_failed"))
  /\ UNCHANGED <<runVars, storeVars>>

DeliverLink(id) ==
  /\ pc = "done" /\ failure = "none"
  /\ Told("link")
  /\ Store!Put(id, url)
  /\ UNCHANGED runVars

Deliver == DeliverError \/ \E id \in Ids : DeliverLink(id)

(* Another request's image is stored; a client follows a link.  Bound: the *)
(* store and the clock rest until the run's own image is stored, which     *)
(* reads nothing of either.                                                *)
StoreStep ==
  /\ reply = "link"
  /\ \/ \E id \in Ids, image \in Others : Store!Put(id, image)
     \/ \E c \in Clients, id \in DOMAIN links, later \in {0, 1} :
          Store!Follow(c, id, links[id].exp + later)
     \/ \E c \in Clients : Store!Look(c)
     \/ Store!Tick
  /\ UNCHANGED <<runVars, reply>>

(* The gateway restarts: a request that had no answer has lost its client. *)
Restart ==
  /\ Store!Restart
  /\ reply' = IF reply = "none" THEN "gone" ELSE reply
  /\ UNCHANGED runVars

DeliveryNext == RunStep \/ Deliver \/ StoreStep \/ Restart

Delivery == DeliveryInit /\ [][DeliveryNext]_allVars

(* Requests to the upstream end, if only by the HTTP client's timeout, so  *)
(* does the stream, by its deadline, and the handler then goes on.         *)
FairDelivery ==
  Delivery /\ WF_allVars((reply = "none" /\ Proceed /\ UNCHANGED <<reply, storeVars>>)
                         \/ Deliver)
-----------------------------------------------------------------------------
(* A link opens what was stored for it, until it expires or the process    *)
(* restarts (image_assets.rs:53-99).                                       *)
LinksOpenUntilExpiry == Store!LinksOpenUntilExpiry

(* Every request is answered, or its process is restarted.                 *)
AnswerComes == <>(reply # "none")

=============================================================================
