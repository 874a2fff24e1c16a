----------------------------- MODULE ImageAssets -----------------------------
(***************************************************************************)
(* The store behind response_format=url (crates/gateway/src/               *)
(* image_assets.rs): images kept in memory under a fresh id until the      *)
(* process stops, and links that name the id and the second the link       *)
(* expires, signed.  The signing secret comes from the environment, so a   *)
(* link verifies after a restart although its image is gone.  The          *)
(* signature is taken to be ideal: it verifies for the id and the second   *)
(* it was made for and for nothing else.                                   *)
(*                                                                         *)
(* A request for a link looks at the clock, at the signature, at the map   *)
(* and at the clock again.  Other threads store images, and seconds pass,  *)
(* between the two looks.                                                  *)
(***************************************************************************)
EXTENDS Integers

CONSTANTS
  Ids,       \* the ids Uuid::new_v4 may draw
  Clients,   \* those that follow links, one at a time each
  TTL,       \* ttl_secs
  MaxTime,   \* bound: the last second of the clock
  MaxBoot    \* bound: restarts of the process

VARIABLES
  now,     \* unix_now()
  boot,    \* restarts so far
  assets,  \* the map of this process
  links,   \* history: what every id was issued for, with what, and when
  asked    \* the link each client follows and what has come of it

(* "looking" is a request between its two looks at the clock, "cut" one    *)
(* whose connection a restart closed.                                      *)
Steps == {"none", "looking", "served", "refused", "cut"}

Init ==
  /\ now = 0 /\ boot = 0
  /\ assets = [id \in {} |-> 0]
  /\ links = [id \in {} |-> 0]
  /\ asked = [c \in Clients |-> [step |-> "none"]]

Extended(f, id, value) ==
  [x \in DOMAIN f \cup {id} |-> IF x = id THEN value ELSE f[x]]

(* store: the image and its link share one expiry.                         *)
Put(id, image) ==
  /\ id \notin DOMAIN links
  /\ assets' = Extended(assets, id, [image |-> image, expires_at |-> now + TTL])
  /\ links' = Extended(links, id,
                       [image |-> image, exp |-> now + TTL, boot |-> boot])
  /\ UNCHANGED <<now, boot, asked>>

Answer(c, id, exp, step, image) ==
  asked' = [asked EXCEPT ![c] =
              [step |-> step, id |-> id, exp |-> exp, image |-> image,
               at |-> now, boot |-> boot]]

(* Fault: only the id is signed.                                           *)
FollowAnyExpiry(c, id, exp) ==
  /\ asked[c].step # "looking"
  /\ Answer(c, id, exp, IF exp < now THEN "refused" ELSE "looking", "none")
  /\ UNCHANGED <<now, boot, assets, links>>

(* A client follows an issued link, as it is or with another exp: a past   *)
(* exp and a signature of another one are refused.                         *)
Follow(c, id, exp) ==
  /\ asked[c].step # "looking"
  /\ Answer(c, id, exp,
            IF exp < now \/ exp # links[id].exp THEN "refused" ELSE "looking",
            "none")
  /\ UNCHANGED <<now, boot, assets, links>>

(* The rest of get_valid: the map, and the clock again.                    *)
Look(c) ==
  LET id == asked[c].id
      exp == asked[c].exp
  IN
  /\ asked[c].step = "looking"
  /\ \/ /\ id \in DOMAIN assets
        /\ assets[id].expires_at >= now
        /\ Answer(c, id, exp, "served", assets[id].image)
     \/ /\ id \in DOMAIN assets => assets[id].expires_at < now
        /\ Answer(c, id, exp, "refused", "none")
  /\ UNCHANGED <<now, boot, assets, links>>

(* The process stops and starts again: the map and the connections go.     *)
Restart ==
  /\ boot < MaxBoot
  /\ boot' = boot + 1
  /\ assets' = [id \in {} |-> 0]
  /\ asked' = [c \in Clients |->
                 IF asked[c].step = "looking" THEN [step |-> "cut"] ELSE asked[c]]
  /\ UNCHANGED <<now, links>>

Tick ==
  /\ now < MaxTime
  /\ now' = now + 1
  /\ UNCHANGED <<boot, assets, links, asked>>

-----------------------------------------------------------------------------
(* A link opens the image it was issued for, until the second it expires:  *)
(* it is refused only later than that, or because the process was          *)
(* restarted since, and with another expiry than the one it was issued     *)
(* with it never opens, however many requests, stores and restarts come    *)
(* between (image_assets.rs:53-99).                                        *)
LinksOpenUntilExpiry ==
  \A c \in Clients :
    LET q == asked[c]
        link == links[q.id]
    IN /\ q.step = "served" =>
            /\ q.image = link.image /\ q.exp = link.exp
            /\ q.at <= link.exp /\ q.boot = link.boot
       /\ q.step = "refused" /\ q.exp = link.exp =>
            q.at > link.exp \/ q.boot > link.boot

=============================================================================
