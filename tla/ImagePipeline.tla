---------------------------- MODULE ImagePipeline ----------------------------
(***************************************************************************)
(* An image on the helper plane, from the gateway's permit to the account: *)
(* BoundedAdmission, which ImageGateway implements, admits the requests of *)
(* one gateway; each admitted request makes at most one call of            *)
(* execute_image (HelperImages); the call reads what is left of the        *)
(* account's quota, waits for the account, and only then works.            *)
(*                                                                         *)
(* The two processes share nothing but that call.  When the gateway's      *)
(* client gives up after 180 s, or its own client leaves, the permit goes  *)
(* to the next request while the helper's thread, which nobody tells,      *)
(* works on.  A helper that serves the face has no gateway in front of it  *)
(* and reads the quota through its cache (FaceCaches): its jobs are as     *)
(* they are in HelperImages.                                               *)
(***************************************************************************)
EXTENDS HelperImages

CONSTANTS
  Permits,   \* IMAGE_GLOBAL_CONCURRENCY
  MinQuota,  \* MVP_MIN_IMAGE_QUOTA: images an account must have left
  Quota      \* images each account has left when the processes start

ASSUME PermitsAssumption == Permits \in Nat \ {0}
ASSUME QuotaAssumption == MinQuota \in Nat /\ Quota \in [Keys -> Nat]

VARIABLES
  inside,     \* the requests that hold a permit
  line,       \* those that wait for one
  abandoned,  \* history: the jobs whose request went while they worked
  remaining,  \* what upstream would answer get_user_info: images left
  overruns    \* history: conversations begun with less than MinQuota left

gatewayVars == <<inside, line, abandoned>>
quotaVars == <<remaining, overruns>>
pipeVars == <<vars, gatewayVars, quotaVars>>

Adm == INSTANCE BoundedAdmission WITH Requests <- Jobs

PipeInit ==
  /\ Init
  /\ Adm!Init
  /\ abandoned = {}
  /\ remaining = Quota
  /\ overruns = [k \in Keys |-> 0]

UnderWay(j) == pc[j] \notin {"idle", "done"}

-----------------------------------------------------------------------------
(* A request comes to the gateway and asks for a permit.                   *)
Come(j) ==
  /\ ~face
  /\ pc[j] = "idle"
  /\ Adm!Come(j)
  /\ UNCHANGED <<vars, abandoned, quotaVars>>

(* It goes: answered, refused by the precheck, tired of waiting, or with   *)
(* its job under way.                                                      *)
Leave(j) ==
  /\ Adm!Go(j)
  /\ abandoned' = abandoned \cup {i \in {j} : UnderWay(i)}
  /\ UNCHANGED <<vars, quotaVars>>

(* run_image: the gateway calls the helper, with the permit in its hand.   *)
RunImage(j) ==
  /\ face \/ j \in inside
  /\ \E e \in Keys, hasToken \in BOOLEAN : Call(j, e, hasToken)
  /\ UNCHANGED <<gatewayVars, quotaVars>>

(* Fault: the gate forgets the limit.                                      *)
PassAnyQuota(j) ==
  /\ QuotaGate(j)
  /\ UNCHANGED <<gatewayVars, quotaVars>>

(* execute_quota: upstream is asked; an account short of quota is refused, *)
(* another one may be (its status, or a failed call).                      *)
PassGate(j) ==
  /\ QuotaGate(j)
  /\ pc'[j] = "entering" => face \/ remaining[email[j]] >= MinQuota
  /\ UNCHANGED <<gatewayVars, quotaVars>>

(* The conversation begins, with whatever is left by now ...               *)
Begin(j) ==
  /\ MakeBackend(j)
  /\ LET late == ~face /\ pc'[j] = "running" /\ remaining[email[j]] < MinQuota IN
     overruns' = [overruns EXCEPT ![email[j]] = IF late THEN @ + 1 ELSE @]
  /\ UNCHANGED <<gatewayVars, remaining>>

(* ... and by its end has used one image of the account, or none.          *)
End(j) ==
  /\ ConversationEnds(j)
  /\ \/ UNCHANGED remaining
     \/ /\ ~face /\ remaining[email[j]] > 0
        /\ remaining' = [remaining EXCEPT ![email[j]] = @ - 1]
  /\ UNCHANGED <<gatewayVars, overruns>>

(* What the job does about its locks and slots.                            *)
Other(j) ==
  /\ \/ EnterFace(j) \/ EnterTry(j) \/ TakeLock(j) \/ LockTimeout(j)
     \/ TakeSlot(j) \/ CheckSticky(j) \/ HandleException(j) \/ Finally(j)
  /\ UNCHANGED <<gatewayVars, quotaVars>>

PipeNext ==
  \E j \in Jobs :
    \/ Come(j) \/ Leave(j) \/ RunImage(j)
    \/ PassGate(j) \/ Begin(j) \/ End(j) \/ Other(j)

Pipeline == PipeInit /\ [][PipeNext]_pipeVars
-----------------------------------------------------------------------------
(* The gate reads an account's quota before the wait for the account       *)
(* (protocol_bridge.py:490, 551), so jobs that read it together begin one  *)
(* after the other on a quota that the first has used up.  The gateway's   *)
(* permits bound the damage: no account is asked for more images beyond    *)
(* its quota than the permits but one, plus the jobs on it that went on    *)
(* after the gateway had given up on them (helper_client lib.rs:162).      *)
OverrunsAreBounded ==
  \A e \in Emails :
    overruns[e] <= Permits - 1 + Cardinality({j \in abandoned : email[j] = e})

=============================================================================
