------------------------ MODULE JobSupervisorProofs ------------------------
(***************************************************************************)
(* For any number of candidates, signals and commands, whatever fails:     *)
(* what the records say is true, no status takes the VM of a job that is   *)
(* supervised, and apply returns with somebody responsible for the VM.     *)
(*                                                                         *)
(* Any process may write back an old copy of the envelope, so what holds   *)
(* of envelope.json must hold of every copy (EnvelopeOK), from the moment  *)
(* it is made; and what a status found when it looked must stay true while *)
(* others go on (CommandOK).                                               *)
(***************************************************************************)
EXTENDS JobSupervisor, TLAPS

Working == Before \cup {"claim"}

Running == {"poll", "watch", "late", "cancel", "await", "ended"}

\* No VM is in any record yet.
Unnamed == {"claim", "provision", "assign", "granted"}

\* What an envelope says of the verdict and of the VM is true.
EnvelopeOK(e) ==
  /\ e.workload \in Verdicts =>
       e.workload = verdict \/ (e.workload = "cancelled" /\ ~e.launched)
  /\ e.names = "session" /\ e.cleanup = "released" => vm # "up"

\* What a command has found.
CommandOK(c) ==
  /\ EnvelopeOK(mem[c])
  /\ a \in Unnamed => mem[c].names = "nothing"
  /\ disk = NoEnvelope => q[c] \in {"off", "idle"}
  /\ q[c] \in {"scrub", "force"} => a \notin Working \/ mem[c].cleanup = "failed"
  /\ q[c] \in {"scrub", "look", "watch", "await", "release"} /\ flag[c] => a \notin Working
  /\ q[c] \in {"await", "release"} => flag[c]
  /\ q[c] = "await" => overdue
  /\ q[c] = "release" => Terminal(mem[c])

\* Until the run is over apply is the supervisor, and has released nothing.
ApplySupervises ==
  /\ a \in Before => ident = "apply"
  /\ a \in Before =>
       (env.launched <=> a \in Running) /\ (env.workload # "pending" <=> a \in Running)
  /\ a \in Working \cup {"finally", "cleanup", "release"} => env.cleanup = "pending"
  /\ a \in Unnamed => env = Fresh /\ disk.names \in {"absent", "nothing"}
  /\ a = "claim" => disk = NoEnvelope
  /\ a \in {"cancel", "await"} => overdue

\* A VM without a record is lost with the call that was granted it.
VmIsNamed == vm = "up" /\ env.names = "nothing" => a \in {"granted", "gone"}

\* A run that goes on without apply was interrupted, and how is known.
InterruptIsKnown ==
  /\ a = "ended" => env.sup = "finished"
  /\ a \in Leaving => env.sup # "running"
  /\ a \in Leaving /\ env.sup = "interrupted" =>
       env.launched /\ (handoff \/ \E i \in DOMAIN signals : signals[i] = "INT")

\* Where the credential file is not, if no answer has misled apply.
SecretIsKnown ==
  /\ a # "gone" /\ sure => ~secret \/ misled
  /\ a = "sent" => ~secret
  /\ a = "cleanup" /\ keep => ~secret \/ misled

\* What the cleanup has achieved.
CleanedUp ==
  /\ a = "drop" => env.cleanup = "failed" \/ (env.cleanup = "released" /\ vm # "up")
  /\ a \in {"clear", "spawn"} /\ vm = "up" =>
       /\ KeptOrReported(env) \/ (env.cleanup = "pending" /\ env.sup = "interrupted")
       /\ secret => misled \/ env.cleanup = "failed"

ApplyOK == ApplySupervises /\ VmIsNamed /\ InterruptIsKnown /\ SecretIsKnown /\ CleanedUp

\* The runner's side: it is spawned once, and starts once.
Unspawned == {"claim", "provision", "assign", "granted", "keepalive", "setup", "verify", "stage",
              "upload", "seal", "launch"}
JobOK ==
  /\ obituary => job = "lost"
  /\ posted => verdict \in Verdicts
  /\ starting => job = "unlaunched"
  /\ a \in Unspawned => ~starting /\ job = "unlaunched"

IInv ==
  /\ TypeOK /\ ApplyOK /\ JobOK
  /\ EnvelopeOK(env) /\ EnvelopeOK(disk)
  /\ \A c \in Commands : CommandOK(c)

-----------------------------------------------------------------------------
(***************************************************************************)
(* The types, in three parts.                                              *)
(***************************************************************************)

RecordsTyped ==
  a \in ApplyPlaces /\ env \in Envelopes /\ disk \in Envelopes \cup {NoEnvelope}

CommandsTyped ==
  q \in [Commands -> CommandPlaces] /\ mem \in [Commands -> Envelopes] /\ flag \in [Commands -> BOOLEAN]

ApplyTyped ==
  /\ tries \in 0..Candidates /\ sure \in BOOLEAN /\ keep \in BOOLEAN /\ handoff \in BOOLEAN
  /\ signals \in Seq({"INT", "TERM"}) /\ Len(signals) <= MaxSignals
  /\ how \in {"none", "exit", "told", "aborted", "killed"} /\ (how = "none" <=> a # "gone")
  /\ stray \in BOOLEAN /\ misled \in BOOLEAN /\ unread \in BOOLEAN

VmTyped ==
  /\ ident \in {"none", "apply", "second"} /\ session \in BOOLEAN
  /\ second \in {"no", "live", "gone"}
  /\ vm \in {"none", "up", "gone"} /\ secret \in BOOLEAN
  /\ starting \in BOOLEAN /\ overdue \in BOOLEAN /\ posted \in BOOLEAN
  /\ job \in {"unlaunched", "running", "lost"} /\ verdict \in Verdicts \cup {"none"}
  /\ intent \in BOOLEAN /\ obituary \in BOOLEAN

\* The parts of VmTyped, for the steps that change several of its variables.
VmStates ==
  /\ ident \in {"none", "apply", "second"} /\ second \in {"no", "live", "gone"}
  /\ vm \in {"none", "up", "gone"} /\ job \in {"unlaunched", "running", "lost"}
  /\ verdict \in Verdicts \cup {"none"}

VmFlags ==
  /\ session \in BOOLEAN /\ secret \in BOOLEAN /\ starting \in BOOLEAN
  /\ overdue \in BOOLEAN /\ posted \in BOOLEAN
  /\ intent \in BOOLEAN /\ obituary \in BOOLEAN

LEMMA TypesByPart == TypeOK <=> RecordsTyped /\ CommandsTyped /\ ApplyTyped /\ VmTyped
  BY DEF TypeOK, RecordsTyped, CommandsTyped, ApplyTyped, VmTyped

-----------------------------------------------------------------------------
(***************************************************************************)
(* What a step may do.                                                     *)
(***************************************************************************)

\* A VM comes up for the candidate that apply is trying; a verdict is final.
World ==
  /\ vm' \in {"none", "up", "gone"} /\ (vm' = "up" => vm = "up" \/ a = "assign")
  /\ verdict' = verdict \/ (verdict = "none" /\ verdict' \in Verdicts)
  /\ overdue' \in BOOLEAN /\ (overdue => overdue')

\* apply never begins again, nor does envelope.json go away.
Onwards ==
  /\ a \notin Working => a' \notin Working
  /\ a' \in Unnamed => a \in Unnamed
  /\ disk' = NoEnvelope => disk = NoEnvelope

LEMMA EnvelopeStays ==
  ASSUME World, verdict \in Verdicts \cup {"none"},
         NEW e, EnvelopeOK(e), a = "assign" => e.names # "session"
  PROVE  EnvelopeOK(e)'
  BY DEF World, EnvelopeOK, Verdicts

LEMMA CommandStays ==
  ASSUME IInv, World, Onwards, NEW c \in Commands,
         q'[c] = q[c], mem'[c] = mem[c], flag'[c] = flag[c]
  PROVE  CommandOK(c)'
  <1>1. CommandOK(c) /\ verdict \in Verdicts \cup {"none"}
    BY DEF IInv, TypeOK
  <1>2. EnvelopeOK(mem[c])'
    <2>1. PICK e : e = mem[c]
      OBVIOUS
    <2>2. EnvelopeOK(e)'
      BY <1>1, <2>1, EnvelopeStays DEF CommandOK, Unnamed
    <2> QED BY <2>1, <2>2 DEF EnvelopeOK
  <1> QED BY <1>1, <1>2 DEF CommandOK, World, Onwards, Terminal

\* A step of apply, or of the world, that leaves the commands alone.
LEMMA ApplyStep ==
  ASSUME IInv, World, Onwards, UNCHANGED cmdVars,
         RecordsTyped', ApplyTyped', VmTyped', ApplyOK', JobOK', EnvelopeOK(env)', EnvelopeOK(disk)'
  PROVE  IInv'
  <1>1. TypeOK'
    BY TypesByPart DEF IInv, cmdVars, TypeOK, RecordsTyped, CommandsTyped, ApplyTyped, VmTyped
  <1> QED BY <1>1, CommandStays DEF IInv, cmdVars

-----------------------------------------------------------------------------
(***************************************************************************)
(* Envelopes.                                                              *)
(***************************************************************************)

Endings == {"failed", "unknown"} \cup Verdicts

LEMMA EndedFields ==
  ASSUME NEW e \in Envelopes, NEW w \in Endings
  PROVE  /\ Ended(e, w) \in Envelopes
         /\ Ended(e, w).names = e.names /\ Ended(e, w).launched = e.launched
         /\ Ended(e, w).workload = w /\ Ended(e, w).sup = "finished"
         /\ Ended(e, w).cleanup = e.cleanup
  <1>1. [e EXCEPT !.workload = w] \in Envelopes
    BY DEF Envelopes, Endings, Verdicts
  <1> QED BY <1>1 DEF Ended, Envelopes, Endings, Verdicts

LEMMA FreshFields ==
  /\ Fresh \in Envelopes /\ Fresh.names = "nothing" /\ ~Fresh.launched
  /\ Fresh.workload = "pending" /\ Fresh.sup = "running" /\ Fresh.cleanup = "pending"
  /\ NoEnvelope \notin Envelopes /\ NoEnvelope.names = "absent"
  /\ NoEnvelope.workload = "pending"
  BY DEF Fresh, NoEnvelope, Envelopes

-----------------------------------------------------------------------------
(***************************************************************************)
(* apply: until the launch.                                                *)
(***************************************************************************)

LEMMA ProvisionSteps ==
  ASSUME IInv,
         Claim \/ BeginsProvision \/ AssignGranted \/ ProvisionFails
  PROVE  IInv'
  <1> USE BoundsAssumption, FreshFields
      DEF IInv, ApplyAt, ApplyRest, seenVars, fileVars, cmdVars, vmVars, jobVars
  <1>0. /\ Ended(env, "failed") \in Envelopes /\ Ended(env, "failed").names = env.names
        /\ Ended(env, "failed").launched = env.launched /\ Ended(env, "failed").sup = "finished"
        /\ Ended(env, "failed").workload = "failed" /\ Ended(env, "failed").cleanup = env.cleanup
    BY EndedFields DEF TypeOK, Endings
  <1>1. World /\ Onwards /\ UNCHANGED cmdVars
    BY DEF Claim, BeginsProvision, AssignGranted, ProvisionFails, World, Onwards,
           TypeOK, ApplyOK, ApplySupervises, Working, Before, SettingUp, Unnamed
  <1>2. RecordsTyped'
    BY <1>0 DEF Claim, BeginsProvision, AssignGranted, ProvisionFails, TypeOK,
           RecordsTyped, ApplyPlaces, Before, SettingUp, Leaving
  <1>2a. ApplyTyped'
    BY DEF Claim, BeginsProvision, AssignGranted, ProvisionFails, TypeOK, ApplyTyped
  <1>2b. VmTyped'
    BY DEF Claim, BeginsProvision, AssignGranted, ProvisionFails, TypeOK, VmTyped
  <1>3. ApplyOK'
    BY <1>0 DEF Claim, BeginsProvision, AssignGranted, ProvisionFails, TypeOK,
           ApplyOK, ApplySupervises, VmIsNamed, InterruptIsKnown, SecretIsKnown, CleanedUp,
           Working, Before, SettingUp, Unnamed, Running, Leaving
  <1>4. JobOK' /\ EnvelopeOK(env)' /\ EnvelopeOK(disk)'
    BY <1>0 DEF Claim, BeginsProvision, AssignGranted, ProvisionFails, TypeOK, JobOK, Unspawned,
           EnvelopeOK, ApplyOK, ApplySupervises, Unnamed, Verdicts
  <1> QED BY <1>1, <1>2, <1>2a, <1>2b, <1>3, <1>4, ApplyStep

LEMMA AssignFailsStep ==
  ASSUME IInv, AssignFails
  PROVE  IInv'
  <1> USE BoundsAssumption DEF IInv
  <1>1. /\ a = "assign" /\ tries \in 0..Candidates /\ tries < Candidates /\ tries' = tries + 1
        /\ stray' \in BOOLEAN
        /\ UNCHANGED <<a, env, sure, keep, handoff, signals, how, misled, unread>>
        /\ UNCHANGED <<disk, ident, session, second, q, mem, flag>>
        /\ UNCHANGED <<vm, secret, starting, overdue, posted, job, verdict, intent, obituary>>
    BY DEF AssignFails, ApplyAt, TypeOK, fileVars, cmdVars, jobVars
  <1>2. World /\ Onwards /\ UNCHANGED cmdVars
    BY <1>1 DEF World, Onwards, TypeOK, cmdVars
  <1>3. tries' \in 0..Candidates
    BY <1>1
  <1>4. RecordsTyped' /\ ApplyTyped'
    BY <1>1, <1>3 DEF TypeOK, RecordsTyped, ApplyTyped
  <1>5. VmTyped'
    BY <1>1 DEF TypeOK, VmTyped
  <1>6. ApplyOK'
    BY <1>1 DEF ApplyOK, ApplySupervises, VmIsNamed, InterruptIsKnown, SecretIsKnown, CleanedUp
  <1>7. JobOK' /\ EnvelopeOK(env)' /\ EnvelopeOK(disk)'
    BY <1>1 DEF JobOK, Unspawned, EnvelopeOK
  <1> QED BY <1>2, <1>4, <1>5, <1>6, <1>7, ApplyStep

LEMMA GrantSteps ==
  ASSUME IInv, GrantRefused \/ RecordsEndpoint \/ ScopeMissing
  PROVE  IInv'
  <1> USE BoundsAssumption, FreshFields
      DEF IInv, ApplyAt, ApplyRest, seenVars, fileVars, cmdVars, vmVars, jobVars
  <1> DEFINE Named(n) == [env EXCEPT !.names = n]
             Failed(e) == Ended(e, "failed")
  <1>1. \A n \in {"nothing", "endpoint", "session"} :
          /\ Named(n) \in Envelopes /\ Named(n).names = n
          /\ Named(n).launched = env.launched /\ Named(n).workload = env.workload
          /\ Named(n).sup = env.sup /\ Named(n).cleanup = env.cleanup
    BY DEF TypeOK, Envelopes
  <1>2. env \in Envelopes
    BY DEF TypeOK
  <1>3. \A e \in Envelopes :
          /\ Failed(e) \in Envelopes /\ Failed(e).names = e.names
          /\ Failed(e).launched = e.launched /\ Failed(e).workload = "failed"
          /\ Failed(e).sup = "finished" /\ Failed(e).cleanup = e.cleanup
    BY EndedFields DEF Endings
  <1>4. GrantRefused =>
          \/ /\ a = "granted" /\ a' = "assign" /\ vm' = "gone" /\ env' = env
          \/ /\ a = "granted" /\ a' = "finally" /\ vm' \in {vm, "gone"}
             /\ env' = Failed(Named("endpoint"))
    BY DEF GrantRefused
  <1>5. ScopeMissing =>
          /\ a = "keepalive" /\ a' = "finally"
          /\ \/ env' = Failed(env) /\ vm' \in {vm, "gone"} /\ (vm' = "up" => vm = "up")
             \/ env' = Failed(Named("nothing")) /\ vm' # "up" /\ vm' \in {vm, "gone"}
    BY DEF ScopeMissing, Unassign, ApplyOK, VmIsNamed
  <1>6. RecordsEndpoint => a = "granted" /\ a' = "keepalive" /\ env' = Named("session") /\ disk' = env'
    BY DEF RecordsEndpoint
  <1>7. GrantRefused \/ ScopeMissing => disk' = disk
    BY DEF GrantRefused, ScopeMissing
  <1>8. UNCHANGED <<tries, sure, keep, handoff, signals, how, stray, misled, unread, ident, session, second, q, mem, flag,
                    secret, starting, overdue, posted, job, verdict, intent, obituary>>
        /\ (RecordsEndpoint => vm' = vm)
    BY DEF GrantRefused, RecordsEndpoint, ScopeMissing
  <1> HIDE DEF Named, Failed
  <1>9. World /\ UNCHANGED cmdVars
    BY <1>4, <1>5, <1>6, <1>8 DEF World, TypeOK
  <1>9a. Onwards
    BY <1>1, <1>4, <1>5, <1>6, <1>7 DEF Onwards, Working, Before, SettingUp, Unnamed
  <1>10. RecordsTyped'
    BY <1>1, <1>2, <1>3, <1>4, <1>5, <1>6, <1>7, <1>8 DEF TypeOK, RecordsTyped, ApplyPlaces, Before, SettingUp, Leaving
  <1>10a. ApplyTyped'
    <2>1. UNCHANGED <<tries, sure, keep, handoff, signals, how, stray, misled, unread>>
          /\ a # "gone" /\ a' # "gone"
      BY <1>4, <1>5, <1>6, <1>8
    <2> QED BY <2>1 DEF TypeOK, ApplyTyped
  <1>10b. VmTyped'
    BY <1>1, <1>2, <1>3, <1>4, <1>5, <1>6, <1>7, <1>8 DEF TypeOK, VmTyped
  <1>11. ApplyOK'
    BY <1>1, <1>2, <1>3, <1>4, <1>5, <1>6, <1>7, <1>8
       DEF TypeOK, ApplyOK, ApplySupervises, VmIsNamed, InterruptIsKnown, SecretIsKnown, CleanedUp,
           Working, Before, SettingUp, Unnamed, Running, Leaving
  <1>12. JobOK' /\ EnvelopeOK(env)' /\ EnvelopeOK(disk)'
    BY <1>1, <1>2, <1>3, <1>4, <1>5, <1>6, <1>7, <1>8
       DEF TypeOK, JobOK, Unspawned, EnvelopeOK, ApplyOK, ApplySupervises, Working, Before, SettingUp,
           Unnamed, Running, Verdicts
  <1> QED BY <1>9, <1>9a, <1>10, <1>10a, <1>10b, <1>11, <1>12, ApplyStep

LEMMA SetupSteps ==
  ASSUME IInv,
         StartsKeepAlive \/ Installs \/ Verifies \/ Prepares \/ Stages \/ Seals \/ KernelLaunches
  PROVE  IInv'
  <1> USE BoundsAssumption, FreshFields
      DEF IInv, ApplyAt, ApplyRest, seenVars, fileVars, cmdVars, vmVars, jobVars
  <1>1. World /\ Onwards /\ UNCHANGED cmdVars
    BY DEF StartsKeepAlive, Installs, Verifies, Prepares, Stages, Seals, KernelLaunches, World, Onwards,
           TypeOK, Working, Before, SettingUp, Unnamed
  <1>2. RecordsTyped'
    BY DEF StartsKeepAlive, Installs, Verifies, Prepares, Stages, Seals, KernelLaunches, StoresKernel,
           CredentialChannel, TypeOK, RecordsTyped, ApplyPlaces, Before, SettingUp, Leaving
  <1>2a. ApplyTyped'
    BY DEF StartsKeepAlive, Installs, Verifies, Prepares, Stages, Seals, KernelLaunches, StoresKernel,
           CredentialChannel, TypeOK, ApplyTyped, SettingUp
  <1>2b. VmTyped'
    BY DEF StartsKeepAlive, Installs, Verifies, Prepares, Stages, Seals, KernelLaunches, StoresKernel,
           CredentialChannel, TypeOK, VmTyped
  <1>3. ApplySupervises' /\ VmIsNamed' /\ InterruptIsKnown' /\ CleanedUp'
    BY DEF StartsKeepAlive, Installs, Verifies, Prepares, Stages, Seals, KernelLaunches,
           TypeOK, ApplyOK, ApplySupervises, VmIsNamed, InterruptIsKnown, CleanedUp, Working, Before,
           SettingUp, Unnamed, Running, Leaving
  <1>3a. SecretIsKnown'
    <2>1. CASE StartsKeepAlive \/ Installs \/ Verifies \/ Seals \/ KernelLaunches
      BY <2>1 DEF StartsKeepAlive, Installs, Verifies, Seals, KernelLaunches, ApplyOK, SecretIsKnown
    <2>2. CASE Prepares
      <3>1. sure' => sure
        BY <2>2 DEF Prepares, CredentialChannel
      <3> QED BY <2>2, <3>1 DEF Prepares, ApplyOK, SecretIsKnown
    <2>3. CASE Stages
      <3>1. sure' => ~secret'
        BY <2>3 DEF Stages
      <3> QED BY <2>3, <3>1 DEF Stages, SecretIsKnown
    <2> QED BY <2>1, <2>2, <2>3
  <1>4. JobOK' /\ EnvelopeOK(env)' /\ EnvelopeOK(disk)'
    BY DEF StartsKeepAlive, Installs, Verifies, Prepares, Stages, Seals, KernelLaunches, JobOK, Unspawned, EnvelopeOK
  <1> QED BY <1>1, <1>2, <1>2a, <1>2b, <1>3, <1>3a, <1>4, ApplyStep DEF ApplyOK

LEMMA LaunchSteps ==
  ASSUME IInv, SetupFails \/ LaunchReturns
  PROVE  IInv'
  <1> USE BoundsAssumption, FreshFields
      DEF IInv, ApplyAt, ApplyRest, seenVars, fileVars, cmdVars, vmVars, jobVars
  <1>1. CASE SetupFails
    <2>1. PICK w \in {"failed", "unknown"} : env' = Ended(env, w)
      BY <1>1 DEF SetupFails
    <2>2. /\ env' \in Envelopes /\ env'.names = env.names /\ env'.launched = env.launched
          /\ env'.workload = w /\ env'.sup = "finished" /\ env'.cleanup = env.cleanup
      BY <2>1, EndedFields DEF TypeOK, Endings
    <2>3. World /\ Onwards /\ UNCHANGED cmdVars
      BY <1>1 DEF SetupFails, World, Onwards, TypeOK, Working, Before, SettingUp, Unnamed
    <2>4. RecordsTyped'
      BY <1>1, <2>2 DEF SetupFails, StoresKernel, MayBeWritten, TypeOK, RecordsTyped, ApplyPlaces, Before, SettingUp, Leaving
    <2>4a. ApplyTyped'
      BY <1>1, <2>2 DEF SetupFails, StoresKernel, MayBeWritten, TypeOK, ApplyTyped, SettingUp
    <2>4b. VmTyped'
      <3>1. session' \in BOOLEAN /\ secret' \in BOOLEAN
        BY <1>1 DEF SetupFails, StoresKernel, MayBeWritten, TypeOK
      <3>2. VmFlags'
        BY <1>1, <3>1 DEF SetupFails, TypeOK, VmFlags
      <3>3. VmStates'
        BY <1>1 DEF SetupFails, TypeOK, VmStates
      <3> QED BY <3>2, <3>3 DEF VmTyped, VmFlags, VmStates
    <2>5. ApplyOK'
      <3>1. ApplySupervises'
        BY <1>1, <2>2 DEF SetupFails, MayBeWritten, TypeOK, ApplyOK, ApplySupervises, Working, Before,
               SettingUp, Unnamed, Running
      <3>2. VmIsNamed' /\ InterruptIsKnown'
        BY <1>1, <2>2 DEF SetupFails, ApplyOK, VmIsNamed, InterruptIsKnown, SettingUp, Leaving
      <3>3. SecretIsKnown' /\ CleanedUp'
        BY <1>1 DEF SetupFails, MayBeWritten, TypeOK, ApplyOK, SecretIsKnown, CleanedUp, SettingUp
      <3> QED BY <3>1, <3>2, <3>3 DEF ApplyOK
    <2>6. JobOK' /\ EnvelopeOK(env)' /\ EnvelopeOK(disk)'
      BY <1>1, <2>2 DEF SetupFails, JobOK, Unspawned, EnvelopeOK, Verdicts
    <2> QED BY <2>3, <2>4, <2>4a, <2>4b, <2>5, <2>6, ApplyStep
  <1>2. CASE LaunchReturns
    <2> DEFINE e == [env EXCEPT !.workload = "running", !.launched = TRUE]
    <2>1. /\ e \in Envelopes /\ e.names = env.names /\ e.launched
          /\ e.workload = "running" /\ e.sup = env.sup /\ e.cleanup = env.cleanup
      BY DEF TypeOK, Envelopes
    <2>2. env' = e /\ disk' = e
      BY <1>2 DEF LaunchReturns
    <2> HIDE DEF e
    <2>3. World /\ Onwards /\ UNCHANGED cmdVars
      BY <1>2, <2>1, <2>2 DEF LaunchReturns, World, Onwards, TypeOK, Working, Before, SettingUp, Unnamed
    <2>4. RecordsTyped'
      BY <1>2, <2>1, <2>2 DEF LaunchReturns, TypeOK, RecordsTyped, ApplyPlaces, Before, SettingUp, Leaving
    <2>4a. ApplyTyped'
      BY <1>2, <2>1, <2>2 DEF LaunchReturns, TypeOK, ApplyTyped, SettingUp
    <2>4b. VmTyped'
      BY <1>2, <2>1, <2>2 DEF LaunchReturns, TypeOK, VmTyped
    <2>5. ApplyOK'
      BY <1>2, <2>1, <2>2 DEF LaunchReturns, TypeOK, ApplyOK, ApplySupervises, VmIsNamed,
             InterruptIsKnown, SecretIsKnown, CleanedUp, Working, Before, SettingUp, Unnamed, Running,
             Leaving
    <2>6. JobOK' /\ EnvelopeOK(env)' /\ EnvelopeOK(disk)'
      BY <1>2, <2>1, <2>2 DEF LaunchReturns, JobOK, Unspawned, EnvelopeOK, ApplyOK, ApplySupervises, Verdicts,
         Working, Before, SettingUp
    <2> QED BY <2>3, <2>4, <2>4a, <2>4b, <2>5, <2>6, ApplyStep
  <1> QED BY <1>1, <1>2

-----------------------------------------------------------------------------
(***************************************************************************)
(* apply: poll.                                                            *)
(***************************************************************************)

\* What control.result makes of an envelope.
LEMMA RecoveredFields ==
  ASSUME TypeOK, JobOK, NEW e \in Envelopes, NEW r \in Recovered(e)
  PROVE  /\ r \in Envelopes /\ r.names = e.names /\ r.launched = e.launched
         /\ r.sup = e.sup /\ r.cleanup = e.cleanup
         /\ r.workload = e.workload \/ (r.workload = verdict /\ verdict \in Verdicts)
  <1>1. r = e \/ (posted /\ r = [e EXCEPT !.workload = verdict])
    BY DEF Recovered, PostedIsRead, Absorbed
  <1>2. posted => verdict \in Verdicts
    BY DEF JobOK
  <1> DEFINE Read == [e EXCEPT !.workload = verdict]
  <1>3. verdict \in Verdicts =>
          /\ Read \in Envelopes /\ Read.names = e.names /\ Read.launched = e.launched
          /\ Read.sup = e.sup /\ Read.cleanup = e.cleanup /\ Read.workload = verdict
    BY DEF Envelopes, Verdicts
  <1>4. r = e \/ (posted /\ r = Read)
    BY <1>1
  <1> HIDE DEF Read
  <1> QED BY <1>2, <1>3, <1>4

\* What a poll that has no result.json calls the workload: the verdict, if
\* control.result has it and it can be read.
LEMMA EndingRead ==
  ASSUME IInv, NEW read \in PostedIsRead, NEW w, w = IF read THEN verdict ELSE "unknown"
  PROVE  /\ read \in BOOLEAN /\ w \in Endings /\ (w \in Verdicts => w = verdict)
         /\ w = "unknown" => ~read
  <1>1. read \in BOOLEAN /\ (read => posted)
    BY DEF PostedIsRead, IInv, TypeOK
  <1>2. posted => verdict \in Verdicts
    BY DEF IInv, JobOK
  <1> QED BY <1>1, <1>2 DEF Endings, Verdicts

LEMMA EndsWithoutVerdict ==
  ASSUME IInv, ApplyEndsWithout
  PROVE  \E w \in Endings : /\ ApplyEndsWith(w) /\ (w \in Verdicts => w = verdict)
                            /\ unread' \in BOOLEAN
                            /\ w = "unknown" /\ posted => unread'
  <1>1. PICK read \in PostedIsRead : /\ ApplyEndsWith(IF read THEN verdict ELSE "unknown")
                                    /\ unread' = (unread \/ (posted /\ ~read))
    BY DEF ApplyEndsWithout
  <1>2. PICK w : w = IF read THEN verdict ELSE "unknown"
    OBVIOUS
  <1>3. ApplyEndsWith(w)
    BY <1>1, <1>2
  <1>4. read \in BOOLEAN /\ unread \in BOOLEAN /\ posted \in BOOLEAN
    BY EndingRead DEF IInv, TypeOK
  <1>5. unread' \in BOOLEAN /\ (posted /\ ~read => unread')
    BY <1>1, <1>4
  <1> QED BY <1>2, <1>3, <1>5, EndingRead

LEMMA EndStep ==
  ASSUME IInv, a \in Running, NEW w \in Endings, w \in Verdicts => w = verdict, ApplyEndsWith(w),
         unread' \in BOOLEAN
  PROVE  IInv'
  <1> USE FreshFields DEF IInv, ApplyRest, seenVars, fileVars, cmdVars, vmVars, jobVars
  <1>1. /\ env' \in Envelopes /\ env'.names = env.names /\ env'.launched = env.launched
        /\ env'.workload = w /\ env'.sup = "finished" /\ env'.cleanup = env.cleanup
    BY EndedFields DEF ApplyEndsWith, TypeOK
  <1>2. World /\ Onwards /\ UNCHANGED cmdVars
    BY DEF ApplyEndsWith, World, Onwards, TypeOK, Working, Before, SettingUp, Unnamed, Running
  <1>3. RecordsTyped'
    BY <1>1 DEF ApplyEndsWith, TypeOK, RecordsTyped, ApplyPlaces, Before
  <1>4. ApplyTyped' /\ a # "gone"
    BY DEF ApplyEndsWith, TypeOK, ApplyTyped, Running
  <1>5. VmTyped'
    BY DEF ApplyEndsWith, TypeOK, VmTyped
  <1>6. ApplyOK'
    BY <1>1 DEF ApplyEndsWith, ApplyOK, ApplySupervises, VmIsNamed, InterruptIsKnown, SecretIsKnown,
       CleanedUp, Working, Before, SettingUp, Unnamed, Running, Leaving, Endings, Verdicts
  <1>7. JobOK' /\ EnvelopeOK(env)' /\ EnvelopeOK(disk)'
    BY <1>1 DEF ApplyEndsWith, JobOK, Unspawned, EnvelopeOK
  <1> QED BY <1>2, <1>3, <1>4, <1>5, <1>6, <1>7, ApplyStep

LEMMA EndSteps ==
  ASSUME IInv, PollResult \/ PollLost \/ PollReadsAgain \/ AwaitsResult
  PROVE  IInv'
  <1>1. a \in Running
    BY DEF PollResult, PollLost, PollReadsAgain, AwaitsResult, ApplyAt, Running
  <1>2. CASE ApplyEndsWithVerdict
    <2>1. verdict \in Endings /\ unread' \in BOOLEAN
      BY <1>2 DEF ApplyEndsWithVerdict, Published, IInv, TypeOK, Endings
    <2> QED BY <1>1, <1>2, <2>1, EndStep DEF ApplyEndsWithVerdict
  <1>3. CASE ApplyEndsWithout
    BY <1>1, <1>3, EndsWithoutVerdict, EndStep
  <1>4. ASSUME NEW read \in PostedIsRead, unread' = TRUE,
               ApplyEndsWith(IF read THEN verdict ELSE "unknown")
        PROVE  IInv'
    <2>1. PICK w : w = IF read THEN verdict ELSE "unknown"
      OBVIOUS
    <2>2. ApplyEndsWith(w) /\ unread' \in BOOLEAN
      BY <1>4, <2>1
    <2> QED BY <1>1, <2>1, <2>2, EndingRead, EndStep
  <1> QED BY <1>2, <1>3, <1>4 DEF PollResult, PollLost, PollReadsAgain, AwaitsResult

\* apply polls on, or writes what it has.
LEMMA PollSteps ==
  ASSUME IInv, PollReads \/ PollWatches \/ CancelsAfterDeadline \/ PersistsEnd
  PROVE  IInv'
  <1> USE FreshFields DEF IInv, ApplyAt, ApplyRest, seenVars, fileVars, cmdVars, vmVars, jobVars
  <1>1. World /\ Onwards /\ UNCHANGED cmdVars
    BY DEF PollReads, PollWatches, CancelsAfterDeadline, PersistsEnd, World, Onwards, TypeOK, Working, Before,
           SettingUp, Unnamed
  <1>2. RecordsTyped'
    BY DEF PollReads, PollWatches, CancelsAfterDeadline, PersistsEnd, TypeOK, RecordsTyped, ApplyPlaces,
           Before, Leaving
  <1>3. ApplyTyped'
    BY DEF PollReads, PollWatches, CancelsAfterDeadline, PersistsEnd, TypeOK, ApplyTyped
  <1>4. VmTyped'
    BY DEF PollReads, PollWatches, CancelsAfterDeadline, PersistsEnd, TypeOK, VmTyped
  <1>5. ApplyOK'
    BY DEF PollReads, PollWatches, CancelsAfterDeadline, PersistsEnd, ApplyOK, ApplySupervises, VmIsNamed,
           InterruptIsKnown, SecretIsKnown, CleanedUp, Working, Before, SettingUp, Unnamed, Running,
           Leaving
  <1>6. JobOK' /\ EnvelopeOK(env)' /\ EnvelopeOK(disk)'
    BY DEF PollReads, PollWatches, CancelsAfterDeadline, PersistsEnd, JobOK, Unspawned, EnvelopeOK
  <1> QED BY <1>1, <1>2, <1>3, <1>4, <1>5, <1>6, ApplyStep

LEMMA OverdueStep ==
  ASSUME IInv, PollOverdue
  PROVE  IInv'
  <1> USE FreshFields DEF IInv, ApplyAt, ApplyRest, seenVars, fileVars, cmdVars, vmVars, jobVars
  <1>1. /\ env' \in Envelopes /\ env'.names = env.names /\ env'.launched = env.launched
        /\ env'.workload = env.workload /\ env'.cleanup = env.cleanup
    BY DEF PollOverdue, TypeOK, Envelopes
  <1>2. World /\ Onwards /\ UNCHANGED cmdVars
    BY <1>1 DEF PollOverdue, World, Onwards, TypeOK, Working, Before, Unnamed
  <1>3. RecordsTyped'
    BY <1>1 DEF PollOverdue, TypeOK, RecordsTyped, ApplyPlaces, Before
  <1>4. ApplyTyped'
    BY DEF PollOverdue, TypeOK, ApplyTyped
  <1>5. VmTyped'
    BY DEF PollOverdue, TypeOK, VmTyped
  <1>6. ApplyOK'
    BY <1>1 DEF PollOverdue, ApplyOK, ApplySupervises, VmIsNamed, InterruptIsKnown, SecretIsKnown,
       CleanedUp, Working, Before, SettingUp, Unnamed, Running, Leaving
  <1>7. JobOK' /\ EnvelopeOK(env)' /\ EnvelopeOK(disk)'
    BY <1>1 DEF PollOverdue, JobOK, Unspawned, EnvelopeOK
  <1> QED BY <1>2, <1>3, <1>4, <1>5, <1>6, <1>7, ApplyStep

\* The end of an envelope that may have no verdict.
LEMMA UnresolvedFields ==
  ASSUME NEW e \in Envelopes
  PROVE  /\ Unresolved(e) \in Envelopes /\ Unresolved(e).names = e.names
         /\ Unresolved(e).launched = e.launched /\ Unresolved(e).sup = "finished"
         /\ Unresolved(e).cleanup = e.cleanup
         /\ Unresolved(e).workload \in Verdicts => Unresolved(e).workload = e.workload
         /\ Unresolved(e).workload # "pending"
         /\ Terminal(Unresolved(e))
  <1>1. \E w \in Endings : Unresolved(e) = Ended(e, w) /\ (w \in Verdicts => w = e.workload)
    BY DEF Unresolved, Terminal, Endings, Envelopes, Verdicts
  <1> QED BY <1>1, EndedFields DEF Endings, Verdicts, Terminal

LEMMA ErrorStep ==
  ASSUME IInv, SupervisorError
  PROVE  IInv'
  <1> USE FreshFields DEF IInv, ApplyRest, seenVars, fileVars, cmdVars, vmVars, jobVars
  <1>1. /\ env' \in Envelopes /\ env'.names = env.names /\ env'.launched = env.launched
        /\ env'.sup = "finished" /\ env'.cleanup = env.cleanup
        /\ env'.workload \in Verdicts => env'.workload = env.workload
    BY UnresolvedFields DEF SupervisorError, TypeOK
  <1>2. World /\ Onwards /\ UNCHANGED cmdVars
    BY <1>1 DEF SupervisorError, World, Onwards, TypeOK, Working, Before, Unnamed
  <1>3. RecordsTyped'
    BY <1>1 DEF SupervisorError, TypeOK, RecordsTyped, ApplyPlaces, Leaving
  <1>4. ApplyTyped'
    BY DEF SupervisorError, TypeOK, ApplyTyped
  <1>5. VmTyped'
    BY DEF SupervisorError, TypeOK, VmTyped
  <1>6. ApplyOK'
    BY <1>1 DEF SupervisorError, ApplyOK, ApplySupervises, VmIsNamed, InterruptIsKnown, SecretIsKnown,
       CleanedUp, Working, Before, SettingUp, Unnamed, Running, Leaving
  <1>7. JobOK' /\ EnvelopeOK(env)' /\ EnvelopeOK(disk)'
    BY <1>1 DEF SupervisorError, JobOK, Unspawned, EnvelopeOK
  <1> QED BY <1>2, <1>3, <1>4, <1>5, <1>6, <1>7, ApplyStep

-----------------------------------------------------------------------------
(***************************************************************************)
(* apply: leaving.                                                         *)
(***************************************************************************)

LEMMA KeptFields ==
  ASSUME NEW e \in Envelopes, NEW k \in Kept(e)
  PROVE  /\ k \in Envelopes /\ k.names = e.names /\ k.launched = e.launched
         /\ k.workload = e.workload /\ k.sup = e.sup /\ KeptOrReported(k)
  <1>1. PICK c \in {"left_up", "failed"} : k = [e EXCEPT !.cleanup = c]
    BY DEF Kept
  <1> QED BY <1>1 DEF Envelopes, KeptOrReported

\* A removal leaves the file or takes it away; a confirmed one that leaves
\* it misleads.
LEMMA Removed ==
  ASSUME TypeOK, NEW answer \in Removal
  PROVE  answer[1] \in BOOLEAN /\ answer[2] \in {secret, FALSE}
  <1>1. \/ answer = <<TRUE, FALSE>> \/ answer = <<FALSE, secret>> \/ answer = <<TRUE, secret>>
        \/ answer = <<FALSE, secret /\ vm # "up">>
    BY DEF Removal
  <1>2. \A x, y : answer = <<x, y>> => answer[1] = x /\ answer[2] = y
    OBVIOUS
  <1>3. (secret /\ vm # "up") \in {secret, FALSE}
    BY DEF TypeOK
  <1> QED BY <1>1, <1>2, <1>3, Zenon

LEMMA ScrubAnswered ==
  ASSUME TypeOK, NEW answer \in ScrubAnswers
  PROVE  answer[1] \in BOOLEAN /\ answer[2] \in {secret, FALSE} /\ (sure => answer[1])
  <1>1. answer = <<TRUE, secret>> \/ (answer \in Removal /\ ~sure)
    BY DEF ScrubAnswers
  <1>2. CASE answer = <<TRUE, secret>>
    <2>1. answer[1] = TRUE /\ answer[2] = secret
      BY <1>2
    <2> QED BY <2>1
  <1> QED BY <1>1, <1>2, Removed

LEMMA ScrubStep ==
  ASSUME IInv, ScrubsSecret
  PROVE  IInv'
  <1> USE BoundsAssumption, FreshFields DEF IInv, ApplyAt, seenVars, fileVars, cmdVars, vmVars, jobVars
  <1>0. PICK answer \in ScrubAnswers :
          /\ sure' = (sure \/ answer[1]) /\ secret' = answer[2]
          /\ misled' = (misled \/ (answer[1] /\ answer[2]))
          /\ keep' \in KeepAnswers(answer[1])
          /\ IF Detaches /\ answer[1] THEN a' = "clear" /\ disk' = env
             ELSE a' = "cleanup" /\ UNCHANGED disk
    BY DEF ScrubsSecret
  <1>1. /\ sure' \in BOOLEAN /\ secret' \in {secret, FALSE} /\ misled' \in BOOLEAN
        /\ sure' \/ keep' \/ a' = "clear" => ~secret' \/ misled'
        /\ keep' \in BOOLEAN
        /\ \/ Detaches /\ a' = "clear" /\ disk' = env
           \/ a' = "cleanup" /\ disk' = disk
    <2>1. /\ answer[1] \in BOOLEAN /\ answer[2] \in {secret, FALSE} /\ (sure => answer[1])
          /\ sure \in BOOLEAN /\ misled \in BOOLEAN /\ secret \in BOOLEAN
      BY ScrubAnswered DEF TypeOK
    <2>2. keep' \in BOOLEAN /\ (keep' => answer[1])
      BY <1>0, <2>1, BoundsAssumption DEF KeepAnswers
    <2>3. sure' = answer[1] /\ secret' = answer[2]
      BY <1>0, <2>1
    <2>4. answer[1] => ~secret' \/ misled'
      BY <1>0, <2>1
    <2>5. misled' \in BOOLEAN
      BY <1>0, <2>1
    <2> QED BY <1>0, <2>1, <2>2, <2>3, <2>4, <2>5
  <1>2. /\ a = "finally"
        /\ UNCHANGED <<env, tries, handoff, signals, how, stray, unread, ident, session, second,
                       cmdVars, vm, starting, overdue, posted, jobVars>>
    BY DEF ScrubsSecret
  <1>3. World /\ Onwards /\ UNCHANGED cmdVars
    BY <1>1, <1>2 DEF World, Onwards, TypeOK, Working, Before, SettingUp, Unnamed
  <1>4. RecordsTyped'
    BY <1>1, <1>2 DEF TypeOK, RecordsTyped, ApplyPlaces, Leaving
  <1>5. ApplyTyped'
    BY <1>1, <1>2 DEF TypeOK, ApplyTyped
  <1>6. VmTyped'
    <2>1. secret' \in BOOLEAN
      BY <1>1 DEF TypeOK
    <2> QED BY <1>2, <2>1 DEF TypeOK, VmTyped
  <1>7. /\ sure' => ~secret' \/ misled'
        /\ a' = "cleanup" /\ keep' => ~secret' \/ misled'
        /\ a' = "clear" => (~secret' \/ misled') /\ env.sup = "interrupted"
    BY <1>1, <1>2 DEF Detaches
  <1>8. ApplySupervises' /\ VmIsNamed' /\ InterruptIsKnown'
    BY <1>1, <1>2 DEF ApplyOK, ApplySupervises, VmIsNamed, InterruptIsKnown, Working, Before, SettingUp,
       Unnamed, Leaving
  <1>9. SecretIsKnown' /\ CleanedUp'
    BY <1>1, <1>2, <1>7 DEF ApplyOK, ApplySupervises, SecretIsKnown, CleanedUp
  <1>10. JobOK' /\ EnvelopeOK(env)' /\ EnvelopeOK(disk)'
    BY <1>1, <1>2 DEF JobOK, Unspawned, EnvelopeOK
  <1> QED BY <1>3, <1>4, <1>5, <1>6, <1>8, <1>9, <1>10, ApplyStep DEF ApplyOK

LEMMA CleanStep ==
  ASSUME IInv, CleansUp
  PROVE  IInv'
  <1> USE FreshFields DEF IInv, ApplyAt, ApplyRest, seenVars, fileVars, cmdVars, vmVars, jobVars
  <1>0. [env EXCEPT !.cleanup = "released"] \in Envelopes
    BY DEF TypeOK, Envelopes
  <1>1. /\ env' \in Envelopes /\ env'.names = env.names /\ env'.launched = env.launched
        /\ env'.workload = env.workload /\ env'.sup = env.sup
        /\ a' = "release" => env'.cleanup = env.cleanup
        /\ a' \in {"clear", "release"}
        /\ a' = "clear" /\ vm = "up" => env'.cleanup \in {"left_up", "failed"} /\ keep
    <2>1. env \in Envelopes /\ (env.names = "nothing" => vm # "up") /\ a = "cleanup"
      BY DEF CleansUp, TypeOK, ApplyOK, VmIsNamed
    <2>2. CASE env.names = "nothing"
      BY <1>0, <2>1, <2>2 DEF CleansUp, Envelopes
    <2>3. CASE env.names # "nothing" /\ keep
      BY <2>1, <2>3, KeptFields DEF CleansUp, KeptOrReported
    <2>4. CASE env.names # "nothing" /\ ~keep
      BY <2>1, <2>4 DEF CleansUp
    <2> QED BY <2>2, <2>3, <2>4
  <1>2. World /\ Onwards /\ UNCHANGED cmdVars
    BY <1>1 DEF CleansUp, World, Onwards, TypeOK, Working, Before, SettingUp, Unnamed
  <1>3. RecordsTyped'
    BY <1>1 DEF CleansUp, TypeOK, RecordsTyped, ApplyPlaces, Leaving
  <1>4. ApplyTyped'
    BY <1>1 DEF CleansUp, TypeOK, ApplyTyped
  <1>5. VmTyped'
    <2>1. session' \in BOOLEAN /\ UNCHANGED <<ident, second, vmVars>>
      BY DEF CleansUp, TypeOK
    <2> QED BY <2>1 DEF TypeOK, VmTyped
  <1>6. ApplyOK'
    BY <1>1 DEF CleansUp, ApplyOK, ApplySupervises, VmIsNamed, InterruptIsKnown, SecretIsKnown,
       CleanedUp, KeptOrReported, Working, Before, SettingUp, Unnamed, Running, Leaving
  <1>7. JobOK' /\ EnvelopeOK(env)' /\ EnvelopeOK(disk)'
    BY <1>1 DEF CleansUp, JobOK, Unspawned, EnvelopeOK, KeptOrReported
  <1> QED BY <1>2, <1>3, <1>4, <1>5, <1>6, <1>7, ApplyStep

\* What a release makes of the VM and of the envelope that names it.
LEMMA Unassigned ==
  ASSUME NEW e \in Envelopes, NEW r \in Unassign(e)
  PROVE  /\ r[1] \in {"released", "failed"}
         /\ r[2] \in {vm, "gone"} /\ (r[2] = "up" => vm = "up")
         /\ e.names # "nothing" /\ r[1] = "released" => r[2] # "up"
  BY DEF Unassign

LEMMA ReleaseStep ==
  ASSUME IInv, ReleasesVm
  PROVE  IInv'
  <1> USE FreshFields DEF IInv, ApplyAt, ApplyRest, seenVars, fileVars, cmdVars, vmVars, jobVars
  <1>1. PICK r \in Unassign(env) : env' = [env EXCEPT !.cleanup = r[1]] /\ vm' = r[2]
    BY DEF ReleasesVm
  <1>2. /\ r[1] \in {"released", "failed"} /\ vm' \in {vm, "gone"} /\ (vm' = "up" => vm = "up")
        /\ r[1] = "released" => vm' # "up"
    BY <1>1, Unassigned DEF TypeOK, ReleasesVm, ApplyOK, VmIsNamed
  <1>3. /\ env' \in Envelopes /\ env'.names = env.names /\ env'.launched = env.launched
        /\ env'.workload = env.workload /\ env'.sup = env.sup
        /\ env'.cleanup \in {"released", "failed"} /\ (env'.cleanup = "released" => vm' # "up")
    BY <1>1, <1>2 DEF TypeOK, Envelopes
  <1>4. World /\ Onwards /\ UNCHANGED cmdVars
    BY <1>2 DEF ReleasesVm, World, Onwards, TypeOK, Working, Before, SettingUp, Unnamed
  <1>5. RecordsTyped'
    BY <1>3 DEF ReleasesVm, TypeOK, RecordsTyped, ApplyPlaces, Leaving
  <1>6. ApplyTyped'
    BY DEF ReleasesVm, TypeOK, ApplyTyped
  <1>7. VmTyped'
    BY <1>2 DEF ReleasesVm, TypeOK, VmTyped
  <1>8. ApplyOK'
    BY <1>2, <1>3 DEF ReleasesVm, ApplyOK, ApplySupervises, VmIsNamed, InterruptIsKnown, SecretIsKnown,
       CleanedUp, Working, Before, SettingUp, Unnamed, Running, Leaving
  <1>9. JobOK' /\ EnvelopeOK(env)' /\ EnvelopeOK(disk)'
    BY <1>2, <1>3 DEF ReleasesVm, JobOK, Unspawned, EnvelopeOK
  <1> QED BY <1>4, <1>5, <1>6, <1>7, <1>8, <1>9, ApplyStep

LEMMA DropSteps ==
  ASSUME IInv, DropsSession \/ ClearsIdentity
  PROVE  IInv'
  <1> USE FreshFields DEF IInv, ApplyAt, ApplyRest, seenVars, fileVars, cmdVars, vmVars, jobVars
  <1>1. World /\ Onwards /\ UNCHANGED cmdVars
    BY DEF DropsSession, ClearsIdentity, World, Onwards, TypeOK, Working, Before, SettingUp, Unnamed
  <1>2. RecordsTyped'
    BY DEF DropsSession, ClearsIdentity, TypeOK, RecordsTyped, ApplyPlaces, Leaving
  <1>3. ApplyTyped'
    BY DEF DropsSession, ClearsIdentity, TypeOK, ApplyTyped
  <1>4. VmTyped'
    BY DEF DropsSession, ClearsIdentity, TypeOK, VmTyped
  <1>5. ApplyOK'
    BY DEF DropsSession, ClearsIdentity, ApplyOK, ApplySupervises, VmIsNamed, InterruptIsKnown,
       SecretIsKnown, CleanedUp, KeptOrReported, Working, Before, SettingUp, Unnamed, Running, Leaving
  <1>6. JobOK' /\ EnvelopeOK(env)' /\ EnvelopeOK(disk)'
    BY DEF DropsSession, ClearsIdentity, JobOK, Unspawned, EnvelopeOK
  <1> QED BY <1>1, <1>2, <1>3, <1>4, <1>5, <1>6, ApplyStep

-----------------------------------------------------------------------------
(***************************************************************************)
(* How apply ends, and signals.                                            *)
(***************************************************************************)

\* What is left of apply when it is gone.
LEMMA GoneOK ==
  ASSUME IInv, a' = "gone", Unremembered
  PROVE  ApplyOK' /\ env' \in Envelopes /\ EnvelopeOK(env)'
  BY FreshFields DEF Unremembered, ApplyOK, ApplySupervises, VmIsNamed, InterruptIsKnown, SecretIsKnown,
     CleanedUp, Working, Before, SettingUp, Unnamed, Leaving, EnvelopeOK, Verdicts

LEMMA GoneTyped ==
  ASSUME IInv, a' = "gone", Unremembered, how' \in {"exit", "told", "aborted", "killed"},
         stray' \in BOOLEAN
  PROVE  ApplyTyped'
  <1>1. << >> \in Seq({"INT", "TERM"}) /\ Len(<< >>) = 0
    OBVIOUS
  <1>2. signals' \in Seq({"INT", "TERM"}) /\ Len(signals') <= MaxSignals /\ tries' \in 0..Candidates
    BY <1>1, BoundsAssumption DEF Unremembered
  <1>3. sure' \in BOOLEAN /\ keep' \in BOOLEAN /\ handoff' \in BOOLEAN
    BY DEF Unremembered
  <1>4. misled' \in BOOLEAN /\ unread' \in BOOLEAN
    BY DEF Unremembered
  <1> QED BY <1>2, <1>3, <1>4 DEF ApplyTyped

LEMMA HandOffStep ==
  ASSUME IInv, HandsOff
  PROVE  IInv'
  <1> USE FreshFields DEF IInv, ApplyAt, seenVars, fileVars, cmdVars, vmVars, jobVars
  <1>1. /\ a = "spawn" /\ a' = "gone" /\ Unremembered
        /\ UNCHANGED <<ident, session, second, mem, flag, vmVars>> /\ stray' \in BOOLEAN
        /\ how' \in {"exit", "told"} /\ disk' \in {disk, env}
        /\ q' = q \/ q' = [q EXCEPT !["detached"] = "idle"]
    BY DEF HandsOff, SpawnsPoll, TellsUser, TypeOK
  <1>2. World
    BY <1>1 DEF World, TypeOK
  <1>3. Onwards
    BY <1>1 DEF Onwards, TypeOK, Working, Before, SettingUp, Unnamed
  <1>4. RecordsTyped'
    BY <1>1, GoneOK DEF TypeOK, RecordsTyped, ApplyPlaces
  <1>5. ApplyTyped' /\ ApplyOK'
    BY <1>1, GoneOK, GoneTyped
  <1>6. VmTyped'
    BY <1>1 DEF TypeOK, VmTyped
  <1>7. JobOK' /\ EnvelopeOK(env)' /\ EnvelopeOK(disk)'
    BY <1>1, GoneOK DEF JobOK, Unspawned, EnvelopeOK
  <1>8. CASE q' = q
    BY <1>1, <1>2, <1>3, <1>4, <1>5, <1>6, <1>7, <1>8, ApplyStep
  <1>9. CASE q' = [q EXCEPT !["detached"] = "idle"]
    <2>1. CommandsTyped'
      BY <1>1, <1>9 DEF TypeOK, CommandsTyped, CommandPlaces
    <2>2. TypeOK'
      BY <2>1, <1>4, <1>5, <1>6 DEF TypeOK, RecordsTyped, CommandsTyped, ApplyTyped, VmTyped
    <2>3. ASSUME NEW c \in Commands, c # "detached" PROVE CommandOK(c)'
      BY <1>1, <1>2, <1>3, <1>9, <2>3, CommandStays DEF TypeOK
    <2>4. ASSUME NEW c \in Commands, c = "detached" PROVE CommandOK(c)'
      <3>1. q'[c] = "idle" /\ a' = "gone"
        BY <1>1, <1>9, <2>4 DEF TypeOK
      <3>2. EnvelopeOK(mem[c])'
        BY <1>1 DEF CommandOK, EnvelopeOK
      <3> QED BY <3>1, <3>2 DEF CommandOK, Unnamed
    <2> QED BY <1>5, <1>7, <2>2, <2>3, <2>4
  <1> QED BY <1>1, <1>8, <1>9

LEMMA AbortSteps ==
  ASSUME IInv, (\E s \in {"INT", "TERM"} : Aborted(s)) \/ Killed
  PROVE  IInv'
  <1> USE FreshFields DEF IInv, seenVars, fileVars, cmdVars, vmVars, jobVars
  <1>1. /\ a' = "gone" /\ a # "gone" /\ Unremembered /\ UNCHANGED <<ident, second, cmdVars>>
        /\ UNCHANGED <<secret, starting, overdue, posted, jobVars>>
        /\ how' \in {"aborted", "killed"} /\ disk' \in {disk, env}
        /\ vm' \in {vm, "none", "gone"} /\ session' \in {session, FALSE}
        /\ stray' \in BOOLEAN
    BY DEF Aborted, Killed, LosesGrant, Leaving, TypeOK
  <1>2. World
    BY <1>1 DEF World, TypeOK
  <1>3. Onwards
    BY <1>1 DEF Onwards, TypeOK, Working, Before, SettingUp, Unnamed
  <1>4. RecordsTyped'
    BY <1>1, GoneOK DEF TypeOK, RecordsTyped, ApplyPlaces
  <1>5. ApplyTyped' /\ ApplyOK'
    BY <1>1, GoneOK, GoneTyped
  <1>6. VmTyped'
    <2>1. session' \in BOOLEAN
      BY <1>1 DEF TypeOK
    <2> QED BY <1>1, <2>1 DEF TypeOK, VmTyped
  <1>7. JobOK' /\ EnvelopeOK(env)' /\ EnvelopeOK(disk)'
    BY <1>1, GoneOK DEF JobOK, Unspawned, EnvelopeOK
  <1> QED BY <1>1, <1>2, <1>3, <1>4, <1>5, <1>6, <1>7, ApplyStep

LEMMA InterruptStep ==
  ASSUME IInv, NEW s \in {"INT", "TERM"}, Interrupted(s)
  PROVE  IInv'
  <1> USE FreshFields DEF IInv, seenVars, fileVars, cmdVars, vmVars, jobVars
  <1>1. /\ env' \in Envelopes /\ env'.names = env.names /\ env'.launched = env.launched
        /\ env'.cleanup = env.cleanup
        /\ \/ /\ env.workload = "pending" /\ env'.workload = "cancelled" /\ env'.sup = "finished"
              /\ handoff' = FALSE
           \/ /\ env.workload # "pending" /\ env'.workload = env.workload
              /\ env'.sup = "interrupted" /\ handoff' = (s = "TERM")
    <2>1. CASE env.workload = "pending"
      <3>1. env' = Ended(env, "cancelled")
        BY <2>1 DEF Interrupted, Stopped
      <3>2. handoff' = FALSE
        BY <2>1 DEF Interrupted
      <3> QED BY <2>1, <3>1, <3>2, EndedFields DEF TypeOK, Endings, Verdicts
    <2>2. CASE env.workload # "pending"
      <3>1. env' = [env EXCEPT !.sup = "interrupted"] /\ handoff' = (s = "TERM")
        BY <2>2 DEF Interrupted, Stopped
      <3> QED BY <2>2, <3>1 DEF TypeOK, Envelopes
    <2> QED BY <2>1, <2>2
  <1>2. /\ signals' \in Seq({"INT", "TERM"}) /\ Len(signals') <= MaxSignals
        /\ s = "INT" => \E i \in DOMAIN signals' : signals'[i] = "INT"
    <2>1. /\ signals \in Seq({"INT", "TERM"}) /\ Len(signals) < MaxSignals
          /\ signals' = Append(signals, s)
      BY DEF Interrupted, Delivered, TypeOK
    <2>2. Len(signals') = Len(signals) + 1 /\ signals'[Len(signals')] = s
          /\ signals' \in Seq({"INT", "TERM"}) /\ Len(signals') \in DOMAIN signals'
      BY <2>1
    <2> QED BY <2>1, <2>2, BoundsAssumption
  <1>3. /\ a \in Before /\ a' = "finally"
        /\ UNCHANGED <<tries, sure, keep, how, misled, unread, disk, ident, second, cmdVars>>
        /\ stray' \in BOOLEAN
        /\ UNCHANGED <<secret, starting, overdue, posted, jobVars>>
        /\ vm' \in {vm, "none"} /\ (vm' = "up" => vm = "up" /\ a # "granted")
        /\ session' \in {session, TRUE}
    BY DEF Interrupted, LosesGrant, StoresKernel, TypeOK
  <1>4. World
    BY <1>3 DEF World, TypeOK
  <1>5. Onwards
    BY <1>3 DEF Onwards, TypeOK, Working, Before, SettingUp, Unnamed
  <1>6. RecordsTyped'
    BY <1>1, <1>3 DEF TypeOK, RecordsTyped, ApplyPlaces, Leaving
  <1>7. ApplyTyped'
    BY <1>1, <1>2, <1>3 DEF TypeOK, ApplyTyped, Before, SettingUp
  <1>8. VmTyped'
    <2>1. session' \in BOOLEAN
      BY <1>3 DEF TypeOK
    <2>2. VmFlags'
      BY <1>3, <2>1 DEF TypeOK, VmFlags
    <2>3. VmStates'
      BY <1>3 DEF TypeOK, VmStates
    <2> QED BY <2>2, <2>3 DEF VmTyped, VmFlags, VmStates
  <1>9. ApplySupervises' /\ VmIsNamed' /\ InterruptIsKnown'
    <2>1. ApplySupervises'
      BY <1>1, <1>3 DEF ApplyOK, ApplySupervises, Working, Before, SettingUp, Unnamed, Running
    <2>2. VmIsNamed'
      BY <1>1, <1>3 DEF ApplyOK, VmIsNamed, Before, SettingUp
    <2>3. InterruptIsKnown'
      BY <1>1, <1>2, <1>3
         DEF ApplyOK, ApplySupervises, InterruptIsKnown, Before, SettingUp, Running, Leaving
    <2> QED BY <2>1, <2>2, <2>3
  <1>10. SecretIsKnown' /\ CleanedUp'
    BY <1>3 DEF ApplyOK, SecretIsKnown, CleanedUp, Before, SettingUp
  <1>11. JobOK' /\ EnvelopeOK(env)' /\ EnvelopeOK(disk)'
    BY <1>1, <1>3 DEF JobOK, Unspawned, EnvelopeOK, ApplyOK, ApplySupervises, Working, Verdicts
  <1> QED BY <1>3, <1>4, <1>5, <1>6, <1>7, <1>8, <1>9, <1>10, <1>11, ApplyStep DEF ApplyOK

-----------------------------------------------------------------------------
(***************************************************************************)
(* The world outside.                                                      *)
(***************************************************************************)

\* A step that changes neither apply nor an envelope.
LEMMA WorldStep ==
  ASSUME IInv, UNCHANGED <<applyVars, disk, cmdVars>>, VmTyped', JobOK',
         ident' = ident \/ a \notin Before,
         vm' \in {vm, "gone"}, verdict' = verdict \/ verdict = "none",
         secret' = secret, overdue => overdue'
  PROVE  IInv'
  <1> USE DEF IInv, seenVars, applyVars, cmdVars
  <1>1. World /\ Onwards
    BY DEF World, Onwards, TypeOK, VmTyped
  <1>2. RecordsTyped' /\ ApplyTyped'
    BY DEF TypeOK, RecordsTyped, ApplyTyped
  <1>3. ApplyOK'
    BY DEF ApplyOK, ApplySupervises, VmIsNamed, InterruptIsKnown, SecretIsKnown, CleanedUp
  <1>4. EnvelopeOK(env)' /\ EnvelopeOK(disk)'
    BY DEF EnvelopeOK, Verdicts
  <1> QED BY <1>1, <1>2, <1>3, <1>4, ApplyStep

LEMMA WorldSteps ==
  ASSUME IInv,
         SecondClaims \/ SecondRefused \/ RunnerStarts \/ JobGoesOn \/ RunnerPosts
         \/ VmReclaimed \/ DeadlinePasses
  PROVE  IInv'
  <1> USE DEF IInv, seenVars, applyVars, fileVars, cmdVars, vmVars, jobVars
  <1>1. CASE SecondClaims \/ SecondRefused
    <2>1. VmTyped' /\ JobOK'
      BY <1>1 DEF SecondClaims, SecondRefused, TypeOK, VmTyped, JobOK
    <2> QED BY <1>1, <2>1, WorldStep DEF SecondClaims, SecondRefused, Before, SettingUp
  <1>2. CASE RunnerStarts
    <2>1. VmTyped'
      <3>1. job' \in {job, "running"} /\ starting' = FALSE
        BY <1>2 DEF RunnerStarts, VM!Launch
      <3>2. VmFlags'
        BY <1>2, <3>1 DEF RunnerStarts, VM!Launch, TypeOK, VmFlags
      <3>3. VmStates'
        BY <1>2, <3>1 DEF RunnerStarts, VM!Launch, TypeOK, VmStates
      <3> QED BY <3>2, <3>3 DEF VmTyped, VmFlags, VmStates
    <2>2. JobOK'
      BY <1>2 DEF RunnerStarts, VM!Launch, JobOK
    <2> QED BY <1>2, <2>1, <2>2, WorldStep DEF RunnerStarts, VM!Launch
  <1>3. CASE JobGoesOn
    <2>1. /\ UNCHANGED <<vm, secret, starting, overdue, posted, applyVars, fileVars, cmdVars>>
          /\ intent' = intent
          /\ \/ job = "running" /\ verdict = "none" /\ verdict' \in Verdicts /\ UNCHANGED <<job, obituary>>
             \/ job = "running" /\ job' = "lost" /\ UNCHANGED <<verdict, obituary>>
             \/ job = "lost" /\ obituary' \in BOOLEAN /\ UNCHANGED <<verdict, job>>
      BY <1>3 DEF JobGoesOn, VM!Publish, VM!Lose, VM!Report
    <2>2. VmTyped'
      <3>1. obituary' \in BOOLEAN
        BY <2>1 DEF TypeOK
      <3> QED BY <2>1, <3>1 DEF TypeOK, VmTyped, Verdicts
    <2>3. JobOK'
      BY <2>1 DEF JobOK
    <2> QED BY <2>1, <2>2, <2>3, WorldStep
  <1>4. CASE RunnerPosts
    <2>1. VmTyped' /\ JobOK'
      BY <1>4 DEF RunnerPosts, TypeOK, VmTyped, JobOK
    <2> QED BY <1>4, <2>1, WorldStep DEF RunnerPosts
  <1>5. CASE VmReclaimed \/ DeadlinePasses
    <2>1. VmTyped'
      <3>1. overdue' \in BOOLEAN /\ vm' \in {"none", "up", "gone"}
        BY <1>5 DEF VmReclaimed, DeadlinePasses, TypeOK
      <3> QED BY <1>5, <3>1 DEF VmReclaimed, DeadlinePasses, TypeOK, VmTyped
    <2>2. JobOK'
      BY <1>5 DEF VmReclaimed, DeadlinePasses, JobOK
    <2> QED BY <1>5, <2>1, <2>2, WorldStep DEF VmReclaimed, DeadlinePasses
  <1> QED BY <1>1, <1>2, <1>3, <1>4, <1>5

-----------------------------------------------------------------------------
(***************************************************************************)
(* Commands.                                                               *)
(***************************************************************************)

\* What a step of a command changes beside what the command holds.
CommandMoves(c) ==
  /\ UNCHANGED <<applyVars, ident, second, starting, overdue, posted, job, verdict, obituary>>
  /\ vm' \in {vm, "gone"} /\ session' \in BOOLEAN /\ secret' \in {secret, FALSE}
  /\ intent' \in BOOLEAN
  /\ disk' = disk \/ (disk' = mem[c] /\ disk # NoEnvelope)
  /\ \A x \in Commands \ {c} : q'[x] = q[x] /\ mem'[x] = mem[x] /\ flag'[x] = flag[x]

LEMMA CommandStep ==
  ASSUME IInv, NEW c \in Commands, CommandMoves(c), CommandsTyped', CommandOK(c)'
  PROVE  IInv'
  <1> USE FreshFields DEF IInv, seenVars, applyVars
  <1>1. World
    BY DEF CommandMoves, World, TypeOK
  <1>2. mem[c] \in Envelopes /\ CommandOK(c)
    BY DEF TypeOK
  <1>3. Onwards
    BY <1>2 DEF CommandMoves, Onwards
  <1>4. \A x \in Commands : CommandOK(x)'
    BY <1>1, <1>3, CommandStays DEF CommandMoves
  <1>5. RecordsTyped' /\ ApplyTyped'
    BY <1>2 DEF CommandMoves, TypeOK, RecordsTyped, ApplyTyped
  <1>6. VmTyped'
    <2>1. secret' \in BOOLEAN
      BY DEF CommandMoves, TypeOK
    <2>2. VmFlags'
      BY <2>1 DEF CommandMoves, TypeOK, VmFlags
    <2>3. VmStates'
      BY DEF CommandMoves, TypeOK, VmStates
    <2> QED BY <2>2, <2>3 DEF VmTyped, VmFlags, VmStates
  <1>7. TypeOK'
    BY <1>5, <1>6 DEF TypeOK, RecordsTyped, CommandsTyped, ApplyTyped, VmTyped
  <1>8. ApplySupervises' /\ VmIsNamed' /\ InterruptIsKnown' /\ JobOK'
    BY <1>2 DEF CommandMoves, CommandOK, ApplyOK, ApplySupervises, VmIsNamed, InterruptIsKnown, JobOK, Unnamed
  <1>9. SecretIsKnown' /\ CleanedUp'
    <2>1. secret' => secret
      BY DEF CommandMoves, TypeOK
    <2> QED BY <2>1 DEF CommandMoves, ApplyOK, SecretIsKnown, CleanedUp
  <1>10. EnvelopeOK(env)' /\ EnvelopeOK(disk)'
    BY <1>2 DEF CommandMoves, CommandOK, EnvelopeOK
  <1> QED BY <1>4, <1>7, <1>8, <1>9, <1>10 DEF ApplyOK

\* An envelope made of another one: what it adds is true after the step.
Follows(e, m) ==
  /\ e \in Envelopes /\ e.names = m.names /\ e.launched = m.launched
  /\ e.workload \in Verdicts => e.workload \in {m.workload, verdict}
  /\ e.names = "session" /\ e.cleanup = "released" => m.cleanup = "released" \/ vm' # "up"

\* An envelope a command may have read.
Read(m) == m \in Envelopes /\ EnvelopeOK(m) /\ (a \in Unnamed => m.names = "nothing")

\* What a command must have found to be at pc with e.
MayBeAt(pc, e, found) ==
  /\ pc \in {"scrub", "force"} => a \notin Working \/ e.cleanup = "failed"
  /\ pc \in {"scrub", "look", "watch", "await", "release"} /\ found => a \notin Working
  /\ pc \in {"await", "release"} => found
  /\ pc = "await" => overdue
  /\ pc = "release" => Terminal(e)

\* A command goes on with an envelope that follows from one it has read.
Proceeds(c, pc, e, found) ==
  /\ Goes(c, pc, e) /\ flag' = [flag EXCEPT ![c] = found]
  /\ pc \in CommandPlaces /\ found \in BOOLEAN
  /\ MayBeAt(pc, e, found)

LEMMA ProceedStep ==
  ASSUME IInv, NEW c \in Commands, NEW pc, NEW e, NEW found, NEW m,
         Proceeds(c, pc, e, found), Read(m), Follows(e, m),
         UNCHANGED <<applyVars, ident, second, starting, overdue, posted, job, verdict, obituary>>,
         vm' \in {vm, "gone"}, session' \in BOOLEAN, secret' \in {secret, FALSE},
         intent' \in BOOLEAN, disk' = disk, disk # NoEnvelope
  PROVE  IInv'
  <1> USE DEF IInv
  <1>1. /\ q'[c] = pc /\ mem'[c] = e /\ flag'[c] = found
        /\ \A x \in Commands \ {c} : q'[x] = q[x] /\ mem'[x] = mem[x] /\ flag'[x] = flag[x]
    BY DEF Proceeds, Goes, TypeOK
  <1>2. CommandsTyped'
    BY DEF Proceeds, Goes, Follows, TypeOK, CommandsTyped
  <1>3. CommandMoves(c)
    BY <1>1 DEF CommandMoves
  <1>4. EnvelopeOK(mem[c])'
    BY <1>1 DEF Read, Follows, EnvelopeOK, Envelopes
  <1>5. a' = a /\ overdue' = overdue
    BY DEF applyVars
  <1>6. CommandOK(c)'
    BY <1>1, <1>4, <1>5 DEF CommandOK, Proceeds, MayBeAt, Read, Follows, Terminal
  <1> QED BY <1>2, <1>3, <1>6, CommandStep

LEMMA KnownEnvelopes ==
  ASSUME IInv, NEW c \in Commands
  PROVE  /\ Read(mem[c])
         /\ disk # NoEnvelope => Read(disk)
         /\ q[c] \notin {"off", "idle"} => disk # NoEnvelope
         /\ flag = [flag EXCEPT ![c] = flag[c]] /\ flag[c] \in BOOLEAN
  <1>1. mem[c] \in Envelopes /\ CommandOK(c) /\ flag \in [Commands -> BOOLEAN]
    BY DEF IInv, TypeOK
  <1>2. Read(mem[c]) /\ (q[c] \notin {"off", "idle"} => disk # NoEnvelope)
    BY <1>1 DEF Read, CommandOK
  <1>3. disk # NoEnvelope => disk \in Envelopes
    BY DEF IInv, TypeOK
  <1>4. a \in Unnamed => disk.names \in {"absent", "nothing"}
    BY DEF IInv, ApplyOK, ApplySupervises
  <1>5. disk # NoEnvelope => Read(disk)
    BY <1>3, <1>4 DEF IInv, Read, Envelopes
  <1> QED BY <1>1, <1>2, <1>5

\* A command that leaves has read, or written, the envelope.
LEMMA LeaveStep ==
  ASSUME IInv, NEW c \in Commands, Leaves(c), disk # NoEnvelope,
         disk' \in {disk, mem[c]}, session' \in BOOLEAN,
         UNCHANGED <<ident, second, applyVars, vmVars>>
  PROVE  IInv'
  <1> USE FreshFields DEF IInv, vmVars, jobVars
  <1>1. /\ q'[c] \in {"over", "idle"} /\ mem'[c] = Fresh /\ flag'[c] = FALSE
        /\ \A x \in Commands \ {c} : q'[x] = q[x] /\ mem'[x] = mem[x] /\ flag'[x] = flag[x]
    BY DEF Leaves, TypeOK
  <1>2. CommandsTyped'
    BY DEF Leaves, TypeOK, CommandsTyped, CommandPlaces
  <1>3. CommandMoves(c)
    BY <1>1 DEF CommandMoves, TypeOK
  <1>4. disk' # NoEnvelope
    BY DEF TypeOK
  <1>5. CommandOK(c)'
    BY <1>1, <1>4 DEF CommandOK, EnvelopeOK, Verdicts
  <1> QED BY <1>2, <1>3, <1>5, CommandStep

LEMMA WriteSteps ==
  ASSUME IInv, NEW c \in Commands, Forgets(c) \/ Writes(c)
  PROVE  IInv'
  <1>1. At(c, "forget") \/ At(c, "write")
    BY DEF Forgets, Writes
  <1>2. disk # NoEnvelope
    BY <1>1, KnownEnvelopes DEF At
  <1>3. session' \in BOOLEAN
    BY DEF Forgets, Writes, IInv, TypeOK
  <1> QED BY <1>2, <1>3, LeaveStep DEF Forgets, Writes

LEMMA ReadSteps ==
  ASSUME IInv, NEW c \in Commands, StatusReads(c) \/ DestroyReads(c)
  PROVE  IInv'
  <1>1. Read(disk) /\ disk # NoEnvelope /\ Follows(disk, disk)
    BY KnownEnvelopes DEF StatusReads, DestroyReads, Follows, Read
  <1>2. CASE StatusReads(c)
    <2>1. Proceeds(c, "check", disk, flag[c])
      BY <1>2, KnownEnvelopes DEF StatusReads, Proceeds, MayBeAt, CommandPlaces
    <2> QED BY <1>1, <1>2, <2>1, ProceedStep DEF StatusReads, fileVars, vmVars, jobVars, IInv, TypeOK
  <1>3. CASE DestroyReads(c)
    <2>1. Proceeds(c, "reconcile", disk, session /\ disk.names = "session")
      BY <1>3 DEF DestroyReads, Proceeds, MayBeAt, CommandPlaces
    <2> QED BY <1>1, <1>3, <2>1, ProceedStep DEF DestroyReads, fileVars, vmVars, jobVars, IInv, TypeOK
  <1> QED BY <1>2, <1>3

\* A step of a command that has read the envelope, but for where it goes.
Beside ==
  /\ UNCHANGED <<applyVars, ident, second, starting, overdue, posted, job, verdict, obituary>>
  /\ vm' \in {vm, "gone"} /\ session' \in BOOLEAN /\ secret' \in {secret, FALSE}
  /\ intent' \in BOOLEAN /\ UNCHANGED <<disk, flag>>

LEMMA GoStep ==
  ASSUME IInv, NEW c \in Commands, Beside, q[c] \notin {"off", "idle"},
         NEW pc \in CommandPlaces, NEW e, Goes(c, pc, e),
         MayBeAt(pc, e, flag[c]), Follows(e, mem[c])
  PROVE  IInv'
  <1>1. Proceeds(c, pc, e, flag[c])
    BY KnownEnvelopes DEF Proceeds, Beside
  <1> QED BY <1>1, KnownEnvelopes, ProceedStep DEF Beside

\* The envelope itself, with a verdict that was read, or with none.
LEMMA SameFollows ==
  ASSUME IInv, NEW c \in Commands
  PROVE  Follows(mem[c], mem[c])
  BY KnownEnvelopes DEF Read, Follows

LEMMA EndedFollows ==
  ASSUME IInv, NEW c \in Commands, NEW w \in {"unknown", verdict}, w \in Endings
  PROVE  Follows(Ended(mem[c], w), mem[c]) /\ Terminal(Ended(mem[c], w))
  BY KnownEnvelopes, EndedFields DEF Read, Follows, Terminal, Endings, Verdicts

LEMMA RecoveredFollows ==
  ASSUME IInv, NEW c \in Commands, NEW m \in Envelopes, Follows(m, mem[c]), NEW r \in Recovered(m)
  PROVE  Follows(r, mem[c])
  BY RecoveredFields DEF IInv, Follows

\* The supervisor is there until the run is over.
LEMMA OrphanIsAlone ==
  ASSUME IInv, disk # NoEnvelope, ~SupervisorAlive
  PROVE  a \notin Working
  BY DEF IInv, ApplyOK, ApplySupervises, SupervisorAlive, Working, Before, SettingUp

LEMMA OnwardFits ==
  ASSUME NEW p, NEW e, flag[p] \in BOOLEAN, flag[p] => a \notin Working
  PROVE  Onward(p, e) \in CommandPlaces /\ MayBeAt(Onward(p, e), e, flag[p])
  BY DEF Onward, MayBeAt, CommandPlaces

LEMMA EndsWithoutStep ==
  ASSUME IInv, NEW p \in Commands, q[p] \in {"look", "watch"}, Beside, EndsWithout(p)
  PROVE  IInv'
  <1>1. PICK e \in Recovered(Ended(mem[p], "unknown")) : Goes(p, Onward(p, e), e)
    BY DEF EndsWithout
  <1>2. Follows(Ended(mem[p], "unknown"), mem[p])
    BY EndedFollows DEF Endings
  <1>3. Follows(e, mem[p])
    BY <1>2, RecoveredFollows DEF Follows
  <1>4. flag[p] \in BOOLEAN /\ (flag[p] => a \notin Working)
    BY KnownEnvelopes DEF IInv, CommandOK
  <1> QED BY <1>1, <1>3, <1>4, OnwardFits, GoStep

LEMMA UndecidedStep ==
  ASSUME IInv, NEW p \in Commands, q[p] \in {"look", "watch"}, Beside, Undecided(p)
  PROVE  IInv'
  <1>1. PICK pc \in {"look", "write"} : Goes(p, pc, mem[p])
    BY DEF Undecided
  <1>2. MayBeAt(pc, mem[p], flag[p]) /\ pc \in CommandPlaces
    BY DEF IInv, CommandOK, MayBeAt, CommandPlaces
  <1> QED BY <1>1, <1>2, SameFollows, GoStep

-----------------------------------------------------------------------------

LEMMA CheckStep ==
  ASSUME IInv, NEW p \in Commands, StatusChecks(p)
  PROVE  IInv'
  <1>1. disk # NoEnvelope /\ Read(mem[p]) /\ q[p] = "check"
    BY KnownEnvelopes DEF StatusChecks, At
  <1>2. PICK e, pc : /\ Goes(p, pc, e) /\ e \in {mem[p], [mem[p] EXCEPT !.sup = "interrupted"]}
                     /\ \E found \in BOOLEAN :
                          /\ flag' = [flag EXCEPT ![p] = found] /\ (found => ~SupervisorAlive)
                          /\ pc \in {"scrub", "force"} => found \/ e.cleanup = "failed"
                     /\ pc \in {"scrub", "force", "look", "write"}
    BY DEF StatusChecks
  <1>3. PICK found \in BOOLEAN :
          /\ flag' = [flag EXCEPT ![p] = found] /\ (found => ~SupervisorAlive)
          /\ pc \in {"scrub", "force"} => found \/ e.cleanup = "failed"
    BY <1>2
  <1>4. Follows(e, mem[p])
    BY <1>1, <1>2 DEF Read, Follows, Envelopes
  <1>5. Proceeds(p, pc, e, found)
    BY <1>1, <1>2, <1>3, OrphanIsAlone DEF Proceeds, MayBeAt, CommandPlaces
  <1> QED BY <1>1, <1>4, <1>5, ProceedStep
          DEF StatusChecks, fileVars, vmVars, jobVars, IInv, TypeOK

LEMMA ScrubbingStep ==
  ASSUME IInv, NEW p \in Commands, StatusScrubs(p)
  PROVE  IInv'
  <1>0. secret' \in {secret, FALSE}
    BY Removed DEF StatusScrubs, IInv
  <1>1. q[p] = "scrub" /\ Beside
    BY <1>0 DEF StatusScrubs, At, Beside, EnsuresKeepAlive, jobVars, IInv, TypeOK
  <1>2. flag[p] \in BOOLEAN /\ (flag[p] => a \notin Working)
        /\ (a \notin Working \/ mem[p].cleanup = "failed")
    BY <1>1, KnownEnvelopes DEF IInv, CommandOK
  <1>3. CASE Goes(p, Onward(p, mem[p]), mem[p])
    BY <1>1, <1>2, <1>3, OnwardFits, SameFollows, GoStep
  <1>4. CASE Goes(p, "force", mem[p])
    <2>1. MayBeAt("force", mem[p], flag[p]) /\ "force" \in CommandPlaces
      BY <1>2 DEF MayBeAt, CommandPlaces
    <2> QED BY <1>1, <1>4, <2>1, SameFollows, GoStep
  <1> QED BY <1>3, <1>4 DEF StatusScrubs

LEMMA LookStep ==
  ASSUME IInv, NEW p \in Commands, StatusLooks(p)
  PROVE  IInv'
  <1>1. q[p] = "look" /\ Beside
    BY DEF StatusLooks, At, Beside, EnsuresKeepAlive, fileVars, vmVars, jobVars, IInv, TypeOK
  <1>2. flag[p] \in BOOLEAN /\ (flag[p] => a \notin Working)
    BY <1>1, KnownEnvelopes DEF IInv, CommandOK
  <1>3. CASE EndsWithout(p)
    BY <1>1, <1>3, EndsWithoutStep
  <1>4. CASE Undecided(p)
    BY <1>1, <1>4, UndecidedStep
  <1>5. CASE Goes(p, "watch", mem[p])
    <2>1. MayBeAt("watch", mem[p], flag[p]) /\ "watch" \in CommandPlaces
      BY <1>2 DEF MayBeAt, CommandPlaces
    <2> QED BY <1>1, <1>5, <2>1, SameFollows, GoStep
  <1>6. ASSUME Published, NEW e, Goes(p, Onward(p, e), e),
               e = [Absorbed(mem[p]) EXCEPT !.sup = IF flag[p] THEN "finished" ELSE @]
        PROVE  IInv'
    <2>1. mem[p] \in Envelopes /\ verdict \in Verdicts
      BY <1>6, KnownEnvelopes DEF Read, Published, IInv, TypeOK
    <2>2. Absorbed(mem[p]) \in Envelopes
      BY <2>1 DEF Absorbed, Envelopes, Verdicts
    <2>3. Absorbed(mem[p]).names = mem[p].names /\ Absorbed(mem[p]).launched = mem[p].launched
          /\ Absorbed(mem[p]).workload = verdict /\ Absorbed(mem[p]).cleanup = mem[p].cleanup
      BY <2>1 DEF Absorbed, Envelopes, Verdicts
    <2>4. Follows(e, mem[p])
      BY <1>6, <2>2, <2>3 DEF Follows, Envelopes
    <2> QED BY <1>1, <1>2, <1>6, <2>4, OnwardFits, GoStep
  <1> QED BY <1>3, <1>4, <1>5, <1>6 DEF StatusLooks

LEMMA WatchStep ==
  ASSUME IInv, NEW p \in Commands, StatusWatches(p)
  PROVE  IInv'
  <1>1. q[p] = "watch" /\ Beside
    BY DEF StatusWatches, At, Beside, fileVars, vmVars, jobVars, IInv, TypeOK
  <1>2. EndsWithout(p) \/ Undecided(p)
    BY DEF StatusWatches
  <1> QED BY <1>1, <1>2, EndsWithoutStep, UndecidedStep

LEMMA CancelStep ==
  ASSUME IInv, NEW p \in Commands, StatusCancels(p)
  PROVE  IInv'
  <1>1. q[p] = "look" /\ intent' \in BOOLEAN /\ Goes(p, "await", mem[p]) /\ flag[p] /\ overdue
    BY DEF StatusCancels, PastDeadline, At, IInv, TypeOK
  <1>2. Beside
    BY <1>1 DEF StatusCancels, Beside, fileVars, IInv, TypeOK
  <1>3. MayBeAt("await", mem[p], flag[p]) /\ "await" \in CommandPlaces
    BY <1>1 DEF MayBeAt, CommandPlaces, IInv, CommandOK
  <1> QED BY <1>1, <1>2, <1>3, SameFollows, GoStep

LEMMA AwaitStep ==
  ASSUME IInv, NEW p \in Commands, StatusAwaits(p)
  PROVE  IInv'
  <1>1. q[p] = "await" /\ Beside
    BY DEF StatusAwaits, At, Beside, fileVars, vmVars, jobVars, IInv, TypeOK
  <1>2. PICK w \in {"unknown", verdict} : Goes(p, "release", Ended(mem[p], w)) /\ w \in Endings
    BY DEF StatusAwaits, Published, Endings, IInv, TypeOK
  <1>3. Follows(Ended(mem[p], w), mem[p]) /\ Terminal(Ended(mem[p], w))
    BY <1>2, EndedFollows
  <1>4. MayBeAt("release", Ended(mem[p], w), flag[p]) /\ "release" \in CommandPlaces
    BY <1>1, <1>3 DEF MayBeAt, CommandPlaces, IInv, CommandOK
  <1> QED BY <1>1, <1>2, <1>3, <1>4, GoStep

\* A record that names a VM says released once the VM is gone.
LEMMA ReleaseFollows ==
  ASSUME IInv, NEW c \in Commands, NEW m \in Envelopes, Follows(m, mem[c]),
         NEW r \in Release(m), vm' = r[2]
  PROVE  Follows(r[1], mem[c]) /\ Follows(Unresolved(r[1]), mem[c]) /\ vm' \in {vm, "gone"}
  <1>1. PICK u \in Unassign(m) : r = <<[m EXCEPT !.cleanup = u[1]], u[2]>>
    BY DEF Release
  <1>2. /\ u[1] \in {"released", "failed"} /\ vm' \in {vm, "gone"}
        /\ m.names # "nothing" /\ u[1] = "released" => vm' # "up"
    BY <1>1, Unassigned
  <1>3. r[1] = [m EXCEPT !.cleanup = u[1]]
    BY <1>1
  <1>4. /\ r[1] \in Envelopes /\ r[1].names = m.names /\ r[1].launched = m.launched
        /\ r[1].workload = m.workload /\ r[1].cleanup = u[1]
    BY <1>2, <1>3 DEF Envelopes
  <1>5. Follows(r[1], mem[c])
    BY <1>2, <1>4 DEF Follows
  <1>6. Follows(Unresolved(r[1]), mem[c])
    BY <1>4, <1>5, UnresolvedFields DEF Follows
  <1> QED BY <1>2, <1>5, <1>6

\* A command that released the VM records it next.
LEMMA ForgetNext ==
  ASSUME IInv, NEW c \in Commands, q[c] \notin {"off", "idle"}, NEW e, Follows(e, mem[c]),
         Goes(c, "forget", e) \/ Goes(c, "write", e), vm' \in {vm, "gone"},
         UNCHANGED <<flag, applyVars, fileVars>>,
         UNCHANGED <<secret, starting, overdue, posted, jobVars>>
  PROVE  IInv'
  <1>1. Beside
    BY DEF Beside, fileVars, jobVars, IInv, TypeOK
  <1>2. \A pc \in {"forget", "write"} : MayBeAt(pc, e, flag[c]) /\ pc \in CommandPlaces
    BY DEF MayBeAt, CommandPlaces
  <1> QED BY <1>1, <1>2, GoStep

LEMMA ReleasingSteps ==
  ASSUME IInv, NEW c \in Commands, StatusReleases(c) \/ StatusForces(c) \/ DestroyReleases(c)
  PROVE  IInv'
  <1>1. /\ q[c] \notin {"off", "idle"}
        /\ UNCHANGED <<flag, applyVars, fileVars>>
        /\ UNCHANGED <<secret, starting, overdue, posted, jobVars>>
    BY DEF StatusReleases, StatusForces, DestroyReleases, At
  <1>2. mem[c] \in Envelopes
    BY KnownEnvelopes DEF Read
  <1>3. CASE StatusReleases(c)
    <2> DEFINE finished == [mem[c] EXCEPT !.sup = "finished"]
    <2>1. finished \in Envelopes /\ Follows(finished, mem[c])
      BY <1>2 DEF Envelopes, Follows
    <2>2. ASSUME NEW e \in Kept(finished), Goes(c, "write", e), UNCHANGED vm PROVE IInv'
      <3>1. Follows(e, mem[c])
        BY <2>1, <2>2, KeptFields DEF Follows, KeptOrReported
      <3> QED BY <1>1, <2>2, <3>1, ForgetNext
    <2>3. ASSUME NEW r \in Release(finished), Goes(c, "forget", r[1]), vm' = r[2] PROVE IInv'
      BY <1>1, <2>1, <2>3, ReleaseFollows, ForgetNext
    <2> QED BY <1>3, <2>2, <2>3 DEF StatusReleases
  <1>4. CASE StatusForces(c)
    <2>1. PICK e \in Recovered(mem[c]) : \E r \in Release(e) :
            Goes(c, "forget", Unresolved(r[1])) /\ vm' = r[2]
      BY <1>4 DEF StatusForces
    <2>2. Follows(e, mem[c]) /\ e \in Envelopes
      BY <1>2, SameFollows, RecoveredFollows DEF Follows
    <2> QED BY <1>1, <2>1, <2>2, ReleaseFollows, ForgetNext
  <1>5. CASE DestroyReleases(c)
    <2>1. PICK r \in Release(mem[c]) : Goes(c, "forget", Unresolved(r[1])) /\ vm' = r[2]
      BY <1>5 DEF DestroyReleases
    <2> QED BY <1>1, <1>2, <2>1, SameFollows, ReleaseFollows, ForgetNext
  <1> QED BY <1>3, <1>4, <1>5

LEMMA ReconcileStep ==
  ASSUME IInv, NEW d \in Commands, DestroyReconciles(d)
  PROVE  IInv'
  <1>1. q[d] = "reconcile" /\ secret' \in {secret, FALSE}
    <2>1. PICK answer \in IF flag[d] THEN Removal ELSE {<<FALSE, secret>>} : secret' = answer[2]
      BY DEF DestroyReconciles
    <2>2. CASE answer \in Removal
      BY <2>1, <2>2, Removed DEF DestroyReconciles, At, IInv
    <2>3. CASE answer = <<FALSE, secret>>
      <3>1. answer[2] = secret
        BY <2>3
      <3> QED BY <2>1, <3>1 DEF DestroyReconciles, At
    <2> QED BY <2>1, <2>2, <2>3
  <1>2. Beside
    BY <1>1 DEF DestroyReconciles, Beside, fileVars, jobVars, IInv, TypeOK
  <1>3. PICK e \in Reconciled(d), pc \in {"cancel", "unsure"} : Goes(d, pc, e)
    BY DEF DestroyReconciles
  <1>4. e = mem[d] \/ (e = Ended(mem[d], verdict) /\ verdict \in Verdicts)
    BY <1>3 DEF Reconciled, PostedIsRead, Published, IInv, TypeOK, JobOK
  <1>5. Follows(e, mem[d])
    BY <1>4, SameFollows, EndedFollows DEF Endings
  <1>6. MayBeAt(pc, e, flag[d]) /\ pc \in CommandPlaces
    BY DEF MayBeAt, CommandPlaces
  <1> QED BY <1>1, <1>2, <1>3, <1>5, <1>6, GoStep

LEMMA DestroyCancelSteps ==
  ASSUME IInv, NEW d \in Commands, DestroyCancels(d) \/ DestroyOnlyCancels(d)
  PROVE  IInv'
  <1>1. q[d] \in {"cancel", "unsure"} /\ intent' \in BOOLEAN
    BY DEF DestroyCancels, DestroyOnlyCancels, At, IInv, TypeOK
  <1>2. Beside
    BY <1>1 DEF DestroyCancels, DestroyOnlyCancels, Beside, fileVars, IInv, TypeOK
  <1>3. PICK pc \in {"waitapply", "waitrunner", "destroy", "write"} : Goes(d, pc, mem[d])
    BY DEF DestroyCancels, DestroyOnlyCancels
  <1>4. MayBeAt(pc, mem[d], flag[d]) /\ pc \in CommandPlaces
    BY DEF MayBeAt, CommandPlaces
  <1> QED BY <1>1, <1>2, <1>3, <1>4, SameFollows, GoStep

LEMMA DestroyWaitSteps ==
  ASSUME IInv, NEW d \in Commands, DestroyWaitsForApply(d) \/ DestroyWaitsForRunner(d)
  PROVE  IInv'
  <1>1. q[d] \notin {"off", "idle"} /\ disk # NoEnvelope
    BY KnownEnvelopes DEF DestroyWaitsForApply, DestroyWaitsForRunner, At
  <1>3. CASE DestroyWaitsForApply(d)
    <2>1. CASE Leaves(d)
      BY <1>1, <1>3, <2>1, LeaveStep DEF DestroyWaitsForApply, fileVars, IInv, TypeOK
    <2>2. CASE Goes(d, "destroy", disk) /\ UNCHANGED flag
      <3>1. Proceeds(d, "destroy", disk, flag[d])
        BY <2>2, KnownEnvelopes DEF Proceeds, MayBeAt, CommandPlaces
      <3>2. Read(disk) /\ Follows(disk, disk)
        BY <1>1, KnownEnvelopes DEF Read, Follows
      <3> QED BY <1>1, <1>3, <3>1, <3>2, ProceedStep
              DEF DestroyWaitsForApply, fileVars, vmVars, jobVars, IInv, TypeOK
    <2> QED BY <1>3, <2>1, <2>2 DEF DestroyWaitsForApply
  <1>4. CASE DestroyWaitsForRunner(d)
    <2>1. Beside
      BY <1>4 DEF DestroyWaitsForRunner, Beside, fileVars, vmVars, jobVars, IInv, TypeOK
    <2>2. PICK e : Goes(d, "destroy", e)
                   /\ (e = mem[d] \/ (e = Ended(mem[d], verdict) /\ verdict \in Verdicts))
      BY <1>4 DEF DestroyWaitsForRunner, Published, IInv, TypeOK
    <2>3. Follows(e, mem[d])
      BY <2>2, SameFollows, EndedFollows DEF Endings
    <2>4. MayBeAt("destroy", e, flag[d]) /\ "destroy" \in CommandPlaces
      BY DEF MayBeAt, CommandPlaces
    <2> QED BY <1>1, <2>1, <2>2, <2>3, <2>4, GoStep
  <1> QED BY <1>3, <1>4

-----------------------------------------------------------------------------
(***************************************************************************)
(* The theorems.                                                           *)
(***************************************************************************)

LEMMA Initially == Init => IInv
  <1> SUFFICES ASSUME Init PROVE IInv
    OBVIOUS
  <1> USE BoundsAssumption, FreshFields DEF Init, VM!Init
  <1>1. << >> \in Seq({"INT", "TERM"}) /\ Len(<< >>) = 0
    OBVIOUS
  <1>2. RecordsTyped /\ VmTyped
    BY DEF RecordsTyped, ApplyPlaces, VmTyped
  <1>3. CommandsTyped
    BY DEF CommandsTyped, CommandPlaces
  <1>4. ApplyTyped
    <2>1. signals \in Seq({"INT", "TERM"}) /\ Len(signals) <= MaxSignals /\ tries \in 0..Candidates
      BY <1>1
    <2>2. sure \in BOOLEAN /\ keep \in BOOLEAN /\ handoff \in BOOLEAN
      OBVIOUS
    <2> QED BY <2>1, <2>2 DEF ApplyTyped
  <1>5. ApplyOK /\ JobOK
    BY DEF ApplyOK, ApplySupervises, VmIsNamed, InterruptIsKnown, SecretIsKnown, CleanedUp, JobOK, Unspawned,
           Working, Before, SettingUp, Running, Leaving
  <1>6. EnvelopeOK(env) /\ EnvelopeOK(disk)
    BY DEF EnvelopeOK, Verdicts
  <1>7. ASSUME NEW c \in Commands PROVE CommandOK(c)
    BY <1>7 DEF CommandOK, EnvelopeOK, Verdicts
  <1> QED BY <1>2, <1>3, <1>4, <1>5, <1>6, <1>7, TypesByPart DEF IInv

LEMMA Preserved == IInv /\ [Next]_vars => IInv'
  <1> SUFFICES ASSUME IInv, [Next]_vars PROVE IInv'
    OBVIOUS
  <1>1. CASE Apply
    BY <1>1, ProvisionSteps, AssignFailsStep, GrantSteps, SetupSteps, LaunchSteps, EndSteps, PollSteps, OverdueStep,
       ScrubStep, CleanStep, ReleaseStep, DropSteps, HandOffStep DEF Apply
  <1>2. ASSUME NEW p \in Statuses, StatusReads(p) \/ Status(p) PROVE IInv'
    <2>1. p \in Commands
      BY DEF Commands
    <2> QED BY <1>2, <2>1, ReadSteps, WriteSteps, CheckStep, ScrubbingStep, LookStep, WatchStep, CancelStep,
               AwaitStep, ReleasingSteps DEF Status
  <1>3. ASSUME NEW d \in Destroyers, DestroyReads(d) \/ Destroy(d) PROVE IInv'
    <2>1. d \in Commands
      BY DEF Commands
    <2> QED BY <1>3, <2>1, ReadSteps, WriteSteps, ReconcileStep, DestroyCancelSteps, DestroyWaitSteps,
               ReleasingSteps DEF Destroy
  <1>4. CASE Outside
    BY <1>4, InterruptStep, AbortSteps, ErrorStep, WorldSteps DEF Outside
  <1>5. CASE UNCHANGED vars
    <2>1. UNCHANGED <<applyVars, disk, cmdVars, ident, vm, verdict, secret, overdue>>
      BY <1>5 DEF vars, fileVars, vmVars, jobVars
    <2>2. VmTyped' /\ JobOK'
      BY <1>5 DEF vars, applyVars, fileVars, vmVars, jobVars, IInv, TypeOK, VmTyped, JobOK
    <2> QED BY <2>1, <2>2, WorldStep
  <1> QED BY <1>1, <1>2, <1>3, <1>4, <1>5 DEF Next

\* Every state of a job satisfies the invariant.
THEOREM Invariance == Spec => []IInv
  BY Initially, Preserved, PTL DEF Spec

\* TypeOK: every variable holds a value of its kind.
THEOREM TypeCorrect == Spec => []TypeOK
  <1>1. IInv => TypeOK
    BY DEF IInv
  <1> QED BY <1>1, Invariance, PTL

\* RecordIsTrue: what envelope.json says of the VM and of the verdict is true,
\* though apply and any number of status and destroy commands write it whole
\* from copies as old as they like.
THEOREM RecordTold == Spec => []RecordIsTrue
  <1>1. IInv => RecordIsTrue
    BY DEF IInv, EnvelopeOK, RecordIsTrue, ReleasedIsGone, RecordedVerdictIsTrue
  <1> QED BY <1>1, Invariance, PTL

\* OnlyOrphansReleased: no status scrubs or releases a job that a live apply
\* still works on, unless a destroy has failed to release it.
THEOREM SupervisedIsKept == Spec => []OnlyOrphansReleased
  <1>1. IInv => OnlyOrphansReleased
    <2> SUFFICES ASSUME IInv, NEW p \in Statuses, q[p] \in {"scrub", "release", "force"}
                 PROVE  a \notin Before \/ mem[p].cleanup = "failed"
      BY DEF OnlyOrphansReleased
    <2>1. CommandOK(p)
      BY DEF IInv, Commands
    <2> QED BY <2>1 DEF CommandOK, Working
  <1> QED BY <1>1, Invariance, PTL
-----------------------------------------------------------------------------
(***************************************************************************)
(* The theorems about steps.                                               *)
(***************************************************************************)

\* What the steps of apply leave alone.
LEMMA ApplyFrame ==
  ASSUME Apply, ~HandsOff
  PROVE  how' = how /\ q' = q
  <1> USE DEF ApplyRest, ApplyEndsWithVerdict, ApplyEndsWithout, ApplyEndsWith, cmdVars
  <1>1. CASE Claim \/ BeginsProvision \/ AssignGranted \/ AssignFails \/ ProvisionFails
             \/ GrantRefused \/ RecordsEndpoint \/ ScopeMissing \/ StartsKeepAlive
    BY <1>1 DEF Claim, BeginsProvision, AssignGranted, AssignFails, ProvisionFails,
                GrantRefused, RecordsEndpoint, ScopeMissing, StartsKeepAlive
  <1>2. CASE Installs \/ Verifies \/ Prepares \/ Stages \/ Seals \/ SetupFails
             \/ KernelLaunches \/ LaunchReturns
    BY <1>2 DEF Installs, Verifies, Prepares, Stages, Seals, SetupFails, KernelLaunches, LaunchReturns
  <1>3. CASE PollResult \/ PollLost \/ PollReads \/ PollWatches \/ PollReadsAgain
             \/ PollOverdue \/ CancelsAfterDeadline \/ AwaitsResult \/ PersistsEnd
    BY <1>3 DEF PollResult, PollLost, PollReads, PollWatches, PollReadsAgain, PollOverdue,
                CancelsAfterDeadline, AwaitsResult, PersistsEnd
  <1>4. CASE ScrubsSecret \/ CleansUp \/ ReleasesVm \/ DropsSession \/ ClearsIdentity
    BY <1>4 DEF ScrubsSecret, CleansUp, ReleasesVm, DropsSession, ClearsIdentity
  <1> QED BY <1>1, <1>2, <1>3, <1>4 DEF Apply

LEMMA OutsideFrame ==
  ASSUME Outside
  PROVE  q' = q /\ (how' = how \/ how' \in {"aborted", "killed"})
  BY DEF Outside, Interrupted, Aborted, SupervisorError, ApplyRest, Killed, SecondClaims, SecondRefused,
         RunnerStarts, JobGoesOn, RunnerPosts, VmReclaimed, DeadlinePasses, cmdVars, applyVars

\* Commands leave apply alone.
LEMMA CommandFrame ==
  ASSUME NEW c, StatusReads(c) \/ Status(c) \/ DestroyReads(c) \/ Destroy(c)
  PROVE  UNCHANGED applyVars
  BY DEF StatusReads, Status, StatusChecks, StatusScrubs, StatusLooks, StatusWatches, StatusCancels,
         StatusAwaits, StatusReleases, StatusForces, Forgets, Writes, DestroyReads, Destroy,
         DestroyReconciles, DestroyCancels, DestroyOnlyCancels, DestroyWaitsForApply,
         DestroyWaitsForRunner, DestroyReleases

\* ExitIsResponsible: when apply returns and a VM that something names is up,
\* somebody answers for it, and it holds no credential file unless its release
\* failed or a removal was confirmed that did not happen.
THEOREM SomebodyAnswers == Spec => ExitIsResponsible
  <1>1. IInv /\ [Next]_vars => [ReturnsResponsibly]_vars
    <2> SUFFICES ASSUME IInv, [Next]_vars, how = "none", how' = "exit", vm = "up"
                 PROVE  /\ SomeoneIsResponsible
                        /\ Terminal(env) /\ env.sup = "finished" => KeptOrReported(env)
                        /\ secret => misled \/ env.cleanup = "failed"
      BY DEF ReturnsResponsibly, OnlyStrayIsUp
    <2>1. HandsOff
      BY ApplyFrame, OutsideFrame, CommandFrame DEF Next, vars, applyVars
    <2>2. /\ KeptOrReported(env) \/ (env.cleanup = "pending" /\ env.sup = "interrupted")
          /\ secret => misled \/ env.cleanup = "failed"
      BY <2>1 DEF HandsOff, ApplyAt, IInv, ApplyOK, CleanedUp
    <2>3. env.sup = "interrupted" =>
            env.launched /\ (handoff \/ \E i \in DOMAIN signals : signals[i] = "INT")
      BY <2>1 DEF HandsOff, ApplyAt, IInv, ApplyOK, InterruptIsKnown, Leaving
    <2>4. CASE handoff /\ env.cleanup = "pending"
      <3>1. "detached" \in Commands /\ q \in [Commands -> CommandPlaces]
        BY CommandsAssumption DEF Commands, Statuses, IInv, TypeOK
      <3>2. q' = [q EXCEPT !["detached"] = "idle"]
        BY <2>1, <2>4 DEF HandsOff, StartsPoll, SpawnsPoll, TellsUser
      <3>3. q'["detached"] = "idle"
        BY <3>1, <3>2
      <3> QED BY <2>2, <3>3 DEF SomeoneIsResponsible, KeptOrReported
    <2> QED BY <2>2, <2>3, <2>4 DEF SomeoneIsResponsible
  <1> QED BY <1>1, Invariance, PTL DEF Spec, ExitIsResponsible

\* What a plain step of a command writes of where it goes.
LEMMA GoesTo ==
  ASSUME TypeOK, NEW c \in Commands, NEW pc, NEW e, Goes(c, pc, e)
  PROVE  q'[c] = pc /\ \A x \in Commands \ {c} : q'[x] = q[x]
  BY DEF Goes, TypeOK

LEMMA LeavesTo ==
  ASSUME TypeOK, NEW c \in Commands, Leaves(c)
  PROVE  q'[c] # "release" /\ \A x \in Commands \ {c} : q'[x] = q[x]
  BY DEF Leaves, TypeOK

\* The two ways for a status to have a workload end that has not.
LEMMA WhereRelease ==
  ASSUME IInv, NEW c \in Commands,
         StatusReads(c) \/ Status(c) \/ DestroyReads(c) \/ Destroy(c)
  PROVE  /\ \A x \in Commands \ {c} : q'[x] = q[x]
         /\ q'[c] = "release" /\ ~Terminal(mem[c]) =>
              StatusAwaits(c) \/ StatusLooks(c) \/ StatusWatches(c)
  <1> USE GoesTo, LeavesTo DEF IInv
  <1>1. CASE StatusReads(c) \/ StatusChecks(c) \/ DestroyReads(c)
    BY <1>1 DEF StatusReads, StatusChecks, DestroyReads
  <1>2. CASE StatusScrubs(c)
    BY <1>2 DEF StatusScrubs, Onward
  <1>3. CASE StatusLooks(c)
    BY <1>3 DEF StatusLooks, EndsWithout, Undecided
  <1>4. CASE StatusWatches(c)
    BY <1>4 DEF StatusWatches, EndsWithout, Undecided
  <1>5. CASE StatusAwaits(c) \/ StatusCancels(c) \/ StatusReleases(c) \/ StatusForces(c)
    BY <1>5 DEF StatusAwaits, StatusCancels, StatusReleases, StatusForces
  <1>6. CASE Forgets(c) \/ Writes(c)
    BY <1>6 DEF Forgets, Writes
  <1>7. CASE DestroyReconciles(c)
    <2>1. \E pc \in {"cancel", "unsure"} : \E e : Goes(c, pc, e)
      BY <1>7 DEF DestroyReconciles
    <2> QED BY <2>1
  <1>7a. CASE DestroyCancels(c) \/ DestroyOnlyCancels(c)
    BY <1>7a DEF DestroyCancels, DestroyOnlyCancels
  <1>8. CASE DestroyWaitsForApply(c) \/ DestroyWaitsForRunner(c) \/ DestroyReleases(c)
    BY <1>8 DEF DestroyWaitsForApply, DestroyWaitsForRunner, DestroyReleases
  <1> QED BY <1>1, <1>2, <1>3, <1>4, <1>5, <1>6, <1>7, <1>7a, <1>8 DEF Status, Destroy

\* LiveRunnerSpared: before the deadline, no status ends a workload and goes
\* on to the release while its runner, launched or still starting, is there
\* and has given no verdict, but for one that finds no launch.json.
THEOREM RunnerLeftRunning == Spec => LiveRunnerSpared
  <1>1. IInv /\ [Next]_vars => [SparesLiveRunner]_vars
    <2> SUFFICES ASSUME IInv, [Next]_vars, NEW p \in Statuses,
                        q'[p] = "release", ~Terminal(mem[p]), ~overdue, vm = "up",
                        ~FindsNoLaunch(p), job = "running" \/ starting, verdict = "none"
                 PROVE  FALSE
      BY DEF SparesLiveRunner, At
    <2>1. p \in Commands /\ CommandOK(p) /\ JobOK /\ TypeOK
      BY DEF Commands, IInv
    <2>2. q[p] # "release"
      BY <2>1 DEF CommandOK
    <2>3. ASSUME NEW c \in Commands, StatusReads(c) \/ Status(c) \/ DestroyReads(c) \/ Destroy(c)
          PROVE  StatusAwaits(p) \/ StatusLooks(p) \/ StatusWatches(p)
      <3>1. c = p
        BY <2>1, <2>2, <2>3, WhereRelease
      <3> QED BY <2>3, <3>1, WhereRelease
    <2>4. CASE HandsOff
      <3>1. q' = q \/ q' = [q EXCEPT !["detached"] = "idle"]
        BY <2>4 DEF HandsOff, SpawnsPoll, TellsUser
      <3> QED BY <2>1, <2>2, <3>1 DEF TypeOK
    <2>5. StatusAwaits(p) \/ StatusLooks(p) \/ StatusWatches(p)
      BY <2>1, <2>2, <2>3, <2>4, ApplyFrame, OutsideFrame DEF Next, Commands, vars, cmdVars
    <2>6. ~StatusAwaits(p)
      BY <2>1 DEF StatusAwaits, At, CommandOK
    <2>7. CASE StatusLooks(p)
      <3>1. \E pc \in {"watch", "look", "write"} : Goes(p, pc, mem[p])
        BY <2>7 DEF StatusLooks, Published, Undecided
      <3> QED BY <2>1, <3>1, GoesTo
    <2>8. CASE StatusWatches(p)
      <3>1. job = "running"
        <4>1. job # "unlaunched" /\ (starting => job = "unlaunched")
          BY <2>1, <2>8 DEF StatusWatches, FindsNoLaunch, JobOK
        <4> QED BY <4>1
      <3>2. \E pc \in {"look", "write"} : Goes(p, pc, mem[p])
        BY <2>1, <2>8, <3>1 DEF StatusWatches, DeadRunner, JobOK, Undecided
      <3> QED BY <2>1, <3>2, GoesTo
    <2> QED BY <2>5, <2>6, <2>7, <2>8
  <1> QED BY <1>1, Invariance, PTL DEF Spec, LiveRunnerSpared

-----------------------------------------------------------------------------

\* The steps of apply that may call a running workload unknown.
LEMMA WhereUnknown ==
  ASSUME IInv, Apply, env.workload = "running", env'.workload = "unknown"
  PROVE  \/ PollLost \/ PollReadsAgain \/ AwaitsResult
  <1> USE FreshFields DEF IInv, ApplyRest
  <1>0. env \in Envelopes
    BY DEF TypeOK
  <1>1. env' # env
    OBVIOUS
  <1>2. CASE Claim \/ BeginsProvision \/ AssignGranted \/ AssignFails \/ StartsKeepAlive
             \/ Installs \/ Verifies \/ Prepares \/ Stages \/ Seals \/ KernelLaunches
    BY <1>1, <1>2 DEF Claim, BeginsProvision, AssignGranted, AssignFails, StartsKeepAlive, Installs,
                      Verifies, Prepares, Stages, Seals, KernelLaunches
  <1>3. CASE PollReads \/ PollWatches \/ CancelsAfterDeadline \/ PersistsEnd \/ ScrubsSecret
             \/ DropsSession \/ ClearsIdentity
    BY <1>1, <1>3 DEF PollReads, PollWatches, CancelsAfterDeadline, PersistsEnd, ScrubsSecret, DropsSession,
                      ClearsIdentity
  <1>4. CASE ProvisionFails \/ GrantRefused \/ RecordsEndpoint \/ ScopeMissing \/ SetupFails
             \/ LaunchReturns
    <2>1. a \notin {"launch", "sent"} => a \notin Running
      BY <1>4 DEF ProvisionFails, GrantRefused, RecordsEndpoint, ScopeMissing, SetupFails, LaunchReturns,
                  ApplyAt, SettingUp, Running
    <2>2. env.workload = "pending"
      BY <1>4 DEF ProvisionFails, GrantRefused, RecordsEndpoint, ScopeMissing, SetupFails, LaunchReturns,
                  ApplyAt, SettingUp, Running, ApplyOK, ApplySupervises, Before
    <2> QED BY <2>2
  <1>5. CASE PollResult
    <2>1. env' = Ended(env, verdict) /\ verdict \in Verdicts
      BY <1>5 DEF PollResult, ApplyEndsWithVerdict, ApplyEndsWith, Published, TypeOK
    <2> QED BY <1>0, <2>1, EndedFields DEF Endings, Verdicts
  <1>6. CASE PollOverdue
    BY <1>0, <1>6 DEF PollOverdue, Envelopes
  <1>7. CASE CleansUp
    <2>1. CASE env' \in Kept(env)
      BY <1>0, <2>1, KeptFields
    <2>2. CASE env' \in {env, [env EXCEPT !.cleanup = "released"]}
      BY <1>0, <2>2 DEF Envelopes
    <2> QED BY <1>7, <2>1, <2>2 DEF CleansUp
  <1>8. CASE ReleasesVm
    <2>1. PICK r : env' = [env EXCEPT !.cleanup = r[1]]
      BY <1>8 DEF ReleasesVm
    <2> QED BY <1>0, <2>1 DEF Envelopes
  <1>9. CASE HandsOff
    BY <1>9 DEF HandsOff, Unremembered
  <1> QED BY <1>2, <1>3, <1>4, <1>5, <1>6, <1>7, <1>8, <1>9 DEF Apply

\* ApplyKeepsVerdict: unless a read of the verdict has failed, or apply itself,
\* apply calls the workload unknown, before its deadline and with the VM there,
\* only where result.json is not; and never once the runner has posted its
\* result.
THEOREM VerdictKept == Spec => ApplyKeepsVerdict
  <1>1. IInv /\ [Next]_vars => [KeepsVerdict]_vars
    <2> SUFFICES ASSUME IInv, [Next]_vars, env.workload = "running", env'.workload = "unknown",
                        ~unread'
                 PROVE  ~posted /\ (~overdue /\ vm = "up" => verdict = "none")
      BY DEF KeepsVerdict
    <2>1. Apply
      <3>1. ~UNCHANGED applyVars
        BY DEF applyVars
      <3>2. ~Outside
        BY FreshFields DEF Outside, Interrupted, Stopped, Aborted, SupervisorError, Killed,
           SecondClaims, SecondRefused, RunnerStarts, JobGoesOn, RunnerPosts, VmReclaimed,
           DeadlinePasses, applyVars, Unremembered, IInv, TypeOK, Envelopes
      <3> QED BY <3>1, <3>2, CommandFrame DEF Next, vars
    <2>2. PollLost \/ PollReadsAgain \/ AwaitsResult
      BY <2>1, WhereUnknown
    <2>3. a = "await" => overdue
      BY DEF IInv, ApplyOK, ApplySupervises
    <2>4. ~ApplyEndsWithVerdict
      <3> SUFFICES ASSUME Published, ApplyEndsWith(verdict) PROVE FALSE
        BY DEF ApplyEndsWithVerdict
      <3>1. env' = Ended(env, verdict) /\ verdict \in Verdicts /\ env \in Envelopes
        BY DEF ApplyEndsWith, Published, IInv, TypeOK
      <3> QED BY <3>1, EndedFields DEF Endings, Verdicts
    <2>5. ApplyEndsWithout
      BY <2>2, <2>4 DEF PollLost, PollReadsAgain, AwaitsResult
    <2>6. PICK w \in Endings : ApplyEndsWith(w) /\ (w = "unknown" /\ posted => unread')
      BY <2>5, EndsWithoutVerdict
    <2>7. w = "unknown"
      BY <2>6, EndedFields DEF ApplyEndsWith, IInv, TypeOK
    <2>8. ~overdue /\ vm = "up" => verdict = "none"
      BY <2>2, <2>3, <2>4 DEF PollLost, PollReadsAgain, AwaitsResult, ApplyAt, Published
    <2> QED BY <2>6, <2>7, <2>8
  <1> QED BY <1>1, Invariance, PTL DEF Spec, ApplyKeepsVerdict
=============================================================================
