--------------------------- MODULE ConfigReplication ---------------------------
(***************************************************************************)
(* Master -> replica replication of the leaderboard configuration          *)
(* (src/src/service/rank_config_service.rs): the master's gRPC server      *)
(* UpdateRankConfigGrpcServer, the replica's pull loop                     *)
(* UpdateRankConfigGrpcClient::send_update_config_request, and            *)
(* update_rank_config_from_master_server, composed with the master's       *)
(* admin requests of RankConfigService.                                    *)
(*                                                                         *)
(* The replica keeps its own registry (rConfigs), secret map (rSecrets)   *)
(* and config_update_time (rTime).  Every tick of the loop asks for the    *)
(* master's update time; when it differs from rTime the replica fetches a  *)
(* snapshot, which the server builds in two steps (load the time, then     *)
(* copy the registry under its mutex), and applies it.                     *)
(***************************************************************************)
EXTENDS RankConfigService

VARIABLES rConfigs, rSecrets, rTime, rpc, resp

replicaVars == <<rConfigs, rSecrets, rTime, rpc, resp>>
allVars == <<vars, replicaVars>>

\* A registry entry as it crosses the wire: the cron_uuid is not sent and the
\* replica stores String::default() (no job).
Wire(cfgs) == [i \in DOMAIN cfgs |-> [cfgs[i] EXCEPT !.job = NoJob]]

NoResp == [time |-> 0, cfgs |-> <<>>]

ReplicaTypeOK ==
    /\ TypeOK
    /\ rConfigs \in Seq(Config)
    /\ rSecrets \in [Apps -> Secrets \cup {NoSecret}]
    /\ rTime \in 0..MaxClock
    /\ rpc \in {"poll", "srv_time", "srv_copy", "apply"}
    /\ resp \in [time: 0..MaxClock, cfgs: Seq(Config)]

\* Both nodes start from init_rank over the same rank_table_config, which
\* the master's Init leaves empty; each stamps its own startup time.
ReplicaInit ==
    /\ Init
    /\ rConfigs = <<>>
    /\ rSecrets = [a \in Apps |-> NoSecret]
    /\ rTime = 0
    /\ rpc = "poll"
    /\ resp = NoResp

\* get_last_update_time answered; the replica moves on to fetching only when
\* the master's time differs from its own (otherwise it sleeps 30s).
ReplicaPoll ==
    /\ rpc = "poll" /\ up
    /\ updateTime # rTime
    /\ rpc' = "srv_time"
    /\ UNCHANGED <<vars, rConfigs, rSecrets, rTime, resp>>

\* get_rank_table_config, first half: msg.update_time = config_update_time.
SrvTime ==
    /\ rpc = "srv_time" /\ up
    /\ resp' = [resp EXCEPT !.time = updateTime]
    /\ rpc' = "srv_copy"
    /\ UNCHANGED <<vars, rConfigs, rSecrets, rTime>>

\* get_rank_table_config, second half: copy the registry under its mutex.
SrvCopy ==
    /\ rpc = "srv_copy" /\ up
    /\ resp' = [resp EXCEPT !.cfgs = Wire(configs)]
    /\ rpc' = "apply"
    /\ UNCHANGED <<vars, rConfigs, rSecrets, rTime>>

\* The RPC fails (always so while the master is down): logged, nothing
\* applied, retried on the next tick.
RpcFail ==
    /\ rpc \in {"srv_time", "srv_copy"}
    /\ rpc' = "poll"
    /\ resp' = NoResp
    /\ UNCHANGED <<vars, rConfigs, rSecrets, rTime>>

\* Mutant: an empty snapshot is taken as nothing to apply and returns before
\* anything, the time included, is stored.
ReplicaApplySkipEmpty ==
    LET fresh == resp.time # rTime /\ resp.cfgs # <<>> IN
    /\ rpc = "apply"
    /\ rSecrets' = [a \in Apps |->
                      IF fresh /\ \E i \in DOMAIN resp.cfgs : resp.cfgs[i].app = a
                      THEN resp.cfgs[SelectLastInSeq(resp.cfgs, LAMBDA x : x.app = a)].secret
                      ELSE rSecrets[a]]
    /\ rConfigs' = IF fresh THEN resp.cfgs ELSE rConfigs
    /\ rTime' = IF fresh THEN resp.time ELSE rTime
    /\ rpc' = "poll"
    /\ resp' = NoResp
    /\ UNCHANGED vars

\* update_rank_config_from_master_server: unless the snapshot's time is the
\* replica's own, insert every snapshot secret into the secret map (entries
\* are only added or overwritten), replace the registry and store the
\* snapshot's time.  (The early return is unreachable while the master's
\* time never comes back to a value the replica holds.)
ReplicaApply ==
    LET fresh == resp.time # rTime IN
    /\ rpc = "apply"
    /\ rSecrets' = [a \in Apps |->
                      IF fresh /\ \E i \in DOMAIN resp.cfgs : resp.cfgs[i].app = a
                      THEN resp.cfgs[SelectLastInSeq(resp.cfgs, LAMBDA x : x.app = a)].secret
                      ELSE rSecrets[a]]
    /\ rConfigs' = IF fresh THEN resp.cfgs ELSE rConfigs
    /\ rTime' = resp.time
    /\ rpc' = "poll"
    /\ resp' = NoResp
    /\ UNCHANGED vars

\* Same time on both sides, or get_last_update_time failed because the
\* master is down: the loop sleeps until the next tick.
ReplicaSleep ==
    /\ rpc = "poll"
    /\ updateTime = rTime \/ ~up
    /\ UNCHANGED allVars

ReplicaStep == ReplicaPoll \/ ReplicaSleep \/ SrvTime \/ SrvCopy \/ RpcFail \/ ReplicaApply

\* The master's request handlers once a request has arrived.
Serve(r) == pc[r] # "idle" /\ RequestStep(r) /\ UNCHANGED replicaVars

ReplicaNext ==
    \/ /\ \E r \in Reqs : RequestStep(r)
       /\ UNCHANGED replicaVars
    \/ ReplicaStep
    \/ (MasterCrash \/ InitRank) /\ UNCHANGED replicaVars

\* Requests in flight complete (their steps are always enabled); the pull
\* loop keeps running, and an RPC that keeps being retried eventually
\* succeeds (strong fairness: failures are transient).  A dead master is
\* started again by its supervisor.
ReplicaFairness ==
    /\ WF_allVars(InitRank /\ UNCHANGED replicaVars)
    /\ \A r \in Reqs : WF_allVars(Serve(r))
    /\ WF_allVars(ReplicaPoll)
    /\ SF_allVars(SrvTime) /\ SF_allVars(SrvCopy)
    /\ WF_allVars(ReplicaApply)

ReplicaSpec == ReplicaInit /\ [][ReplicaNext]_allVars /\ ReplicaFairness

-----------------------------------------------------------------------------
(* Properties *)

\* The update time is a version of the registry: whenever no admin request
\* is in flight and the replica's config_update_time equals the master's,
\* the replica holds the master's registry (spec 4.4: the snapshot's
\* update_time corresponds to the configs returned).  Breaks if a mutation
\* can leave config_update_time unchanged, if a snapshot can pair a newer
\* time with an older registry, or if a restarted master serves a reloaded
\* registry under a time the replica already holds.
ReplicaCurrentAtSameTime ==
    (Quiescent /\ up /\ rTime = updateTime) => rConfigs = Wire(configs)

\* Once the master stops changing, the replica's pull loop eventually brings
\* its registry to the master's and keeps it there (spec 8, invariant 4).
ReplicaConverges == <>[](rConfigs = Wire(configs))

=============================================================================
