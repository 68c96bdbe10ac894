----------------------------- MODULE Discovery -----------------------------
(***************************************************************************)
(* How the worker finds the PC (source/program/discovery.cpp), and where   *)
(* the address it sweeps from comes from (the RomMounted hook of           *)
(* source/program/romfs.cpp).  The game thread mounts "rom", reads three   *)
(* files in the hook, rebuilds from them the list of replaced paths and    *)
(* the names of the save slots, and publishes bridge_host; the game may    *)
(* unmount "rom" at any later moment, which aborts the process if a file   *)
(* is still open.                                                          *)
(* The worker runs resolveBridge over and over: a probe to the same host,  *)
(* then, if an address has been published, a sweep of its /24 and a        *)
(* bounded number of polls for the answer.                                 *)
(*                                                                         *)
(* A file handle is one of a count, g_cfgHost is how much of it has been   *)
(* written, a slot's name is the mount whose seed hash it was made from,   *)
(* an entry of the list is written or still the kind of value it is to be  *)
(* made from, and a datagram is a bridge's reply or one that does not      *)
(* parse.                                                                  *)
(***************************************************************************)
EXTENDS Integers, Sequences

CONSTANTS
  Hosts,     \* kMaxSweepHosts: hosts of the subnet
  PcHost,    \* the host of that subnet the PC has, 0 for none
  MaxPolls,  \* kSweepCollectMs / kInnerPollMs
  MaxMounts, \* bound: times the game mounts "rom"
  MaxEntries \* bound: entries of replacements.json

ASSUME SweepAssumption ==
  /\ {Hosts, PcHost, MaxPolls, MaxMounts, MaxEntries} \subseteq Nat
  /\ PcHost <= Hosts

VARIABLES
  \* The game thread.
  gpc,             \* the step of the RomMounted hook it is at
  file,            \* the file being read
  mounted, mounts,
  handles,         \* file handles open on "rom"
  buffers,         \* buffers of OpenAndReadFile that nobody has freed
  g_stringListSize,
  g_stringList,    \* its entries: "written", or the kind of the value to come
  profiles,        \* the mounts the names of the three save slots come from
  g_cfgHost,       \* Unwritten, Partial or Whole
  g_cfgHostValid,  \* atomic: released by the game thread, acquired by the worker
  \* The worker thread.
  wpc,             \* the step of resolveBridge it is at
  fds,             \* UDP sockets open
  host, polls,     \* the counters of the sweep's two loops
  cfg_host,        \* what readConfiguredHost copied
  found,           \* the probe was answered
  \* The network.
  asked,           \* a probe to the PC is out on the open socket
  inbox            \* datagrams that have arrived at it

hostCache  == <<g_cfgHost, g_cfgHostValid>>
tables     == <<g_stringListSize, g_stringList, profiles>>
gameVars   == <<gpc, file, mounted, mounts, handles, buffers, tables, hostCache>>
counters   == <<host, polls>>
network    == <<asked, inbox>>
workerVars == <<wpc, fds, counters, cfg_host, found, network>>
vars == <<gameVars, workerVars>>

Replacements == 1
SeedHash     == 2
ApConfig     == 3

Unwritten == 0
Partial   == 1
Whole     == 2

\* What an entry of "replacements" can be: a string, an object in an array, which
\* has no name, an object in an object, or something else.  An array and an object
\* are walked alike, and a file has one of the two.
EntryKinds  == {"string", "unnamed", "named", "other"}
KindsOfFile == {{"string", "unnamed", "other"}, {"string", "named", "other"}}

\* The hook has dereferenced NULL: the process is gone, with both its threads.
Faulted == gpc \in {"nullName", "nullBuffer"}

Init ==
  /\ gpc = "idle" /\ file = Replacements /\ mounted = FALSE /\ mounts = 0
  /\ handles = 0 /\ buffers = 0 /\ g_cfgHost = Unwritten
  /\ g_stringListSize = 0 /\ g_stringList = <<>> /\ profiles = <<0, 0, 0>>
  /\ g_cfgHostValid = FALSE
  /\ wpc = "loopOpen" /\ fds = 0 /\ host = 1 /\ polls = 0
  /\ cfg_host = Unwritten /\ found = FALSE /\ asked = FALSE /\ inbox = {}

-----------------------------------------------------------------------------
\* The game thread: RomMounted, and OpenAndReadFile for each file in turn.

\* Whatever mounting returned, the hook goes on to read.
MountRom ==
  /\ gpc = "idle" /\ ~mounted /\ mounts < MaxMounts
  /\ mounted' \in BOOLEAN /\ mounts' = mounts + 1
  /\ gpc' = "entry" /\ file' = Replacements
  /\ UNCHANGED <<handles, buffers, tables, hostCache, workerVars>>

Unmount ==
  /\ gpc = "idle" /\ mounted /\ mounted' = FALSE
  /\ UNCHANGED <<gpc, file, mounts, handles, buffers, tables, hostCache, workerVars>>

\* A step of the hook that opens h handles and allocates b buffers.
HookStep(from, h, b) ==
  /\ gpc = from /\ handles' = handles + h /\ buffers' = buffers + b
  /\ UNCHANGED <<mounted, mounts, workerVars>>

Goto(to) == gpc' = to /\ UNCHANGED file

\* The hook is done with a file, and goes on with the next one.
NextFile ==
  IF file = ApConfig THEN Goto("idle") ELSE gpc' = "entry" /\ file' = file + 1

\* CacheBridgeHostFromRomfs returns before it opens the file, once the host has
\* been published.
AlreadyCached == file = ApConfig /\ g_cfgHostValid

\* Nothing to open: cached already, or GetEntryType or OpenFile failed.
SkipFile ==
  HookStep("entry", 0, 0) /\ NextFile /\ UNCHANGED <<tables, hostCache>>

OpenFile ==
  /\ mounted /\ ~AlreadyCached
  /\ HookStep("entry", 1, 0) /\ Goto("opened") /\ UNCHANGED <<tables, hostCache>>

\* GetFileSize or malloc failed.
NoBuffer ==
  HookStep("opened", -1, 0) /\ NextFile /\ UNCHANGED <<tables, hostCache>>

AllocBuffer ==
  HookStep("opened", 0, 1) /\ Goto("read") /\ UNCHANGED <<tables, hostCache>>

\* Faulty variant: a failed read returns before CloseFile.
ReadFailsUnclosed ==
  HookStep("read", 0, -1) /\ NextFile /\ UNCHANGED <<tables, hostCache>>

ReadFails ==
  HookStep("read", -1, -1) /\ NextFile /\ UNCHANGED <<tables, hostCache>>

ReadFile ==
  HookStep("read", -1, 0) /\ Goto("use") /\ UNCHANGED <<tables, hostCache>>

\* Faulty variant: a file that is of no use is not freed.
NoUseUnfreed == HookStep("use", 0, 0) /\ NextFile /\ UNCHANGED <<tables, hostCache>>

\* The file is not what the hook looks for: no JSON, an empty hash, no
\* bridge_host that fits.
NoUse == HookStep("use", 0, -1) /\ NextFile /\ UNCHANGED <<tables, hostCache>>

\* populateStringReplacementList: the size, the new list, its entries, free.
SetListSize ==
  /\ file = Replacements /\ HookStep("use", 0, 0) /\ Goto("list")
  /\ g_stringListSize' \in 0..MaxEntries
  /\ UNCHANGED <<g_stringList, profiles, hostCache>>

\* Faulty variant: a list that is there already is used again.
AllocListOnce ==
  /\ HookStep("list", 0, 0) /\ Goto("fill")
  /\ IF g_stringList # <<>> THEN UNCHANGED g_stringList
     ELSE \E kinds \in KindsOfFile : g_stringList' \in [1..g_stringListSize -> kinds]
  /\ UNCHANGED <<g_stringListSize, profiles, hostCache>>

AllocList ==
  /\ HookStep("list", 0, 0) /\ Goto("fill")
  /\ \E kinds \in KindsOfFile : g_stringList' \in [1..g_stringListSize -> kinds]
  /\ UNCHANGED <<g_stringListSize, profiles, hostCache>>

\* malloc returned NULL and nobody asked: the first entry is written through it.
AllocListFails ==
  /\ g_stringListSize > 0 /\ HookStep("list", 0, 0) /\ Goto("nullBuffer")
  /\ UNCHANGED <<tables, hostCache>>

\* The loop counts every entry and writes those that are a string or an object;
\* any other keeps what malloc left there.
Passed(i) == g_stringList[i] \in {"written", "other"}
AtEntry(i) ==
  /\ HookStep("fill", 0, 0)
  /\ i \in DOMAIN g_stringList /\ ~Passed(i) /\ \A j \in 1..(i - 1) : Passed(j)

FillEntry ==
  \E i \in DOMAIN g_stringList :
    /\ AtEntry(i) /\ Goto("fill")
    /\ g_stringList[i] \in {"string", "named"}
    /\ g_stringList' = [g_stringList EXCEPT ![i] = "written"]
    /\ UNCHANGED <<g_stringListSize, profiles, hostCache>>

\* No memory for "rom:/" and the string, and strcpy writes there.
FillEntryFails ==
  \E i \in DOMAIN g_stringList :
    /\ AtEntry(i) /\ Goto("nullBuffer")
    /\ g_stringList[i] = "string" /\ UNCHANGED <<tables, hostCache>>

\* cJSON_GetItemName of an object in an array is NULL, and strlen reads it.
NameIsNull ==
  \E i \in DOMAIN g_stringList :
    /\ AtEntry(i) /\ Goto("nullName")
    /\ g_stringList[i] = "unnamed" /\ UNCHANGED <<tables, hostCache>>

ListFilled ==
  /\ \A i \in DOMAIN g_stringList : Passed(i)
  /\ HookStep("fill", 0, -1) /\ NextFile /\ UNCHANGED <<tables, hostCache>>

\* setSeedSaveProfile: the three slots in turn.
RenameProfile ==
  /\ file = SeedHash
  /\ \E slot \in 1..3 :
       /\ profiles' = [profiles EXCEPT ![slot] = mounts]
       /\ IF slot = 3 THEN HookStep("profile3", 0, -1) /\ NextFile
          ELSE /\ HookStep(IF slot = 1 THEN "use" ELSE "profile2", 0, 0)
               /\ Goto(IF slot = 1 THEN "profile2" ELSE "profile3")
  /\ UNCHANGED <<g_stringListSize, g_stringList, hostCache>>

\* setSeedSaveProfile returns early when the hash is too long for a slot name.
HashTooLong ==
  /\ file = SeedHash
  /\ HookStep("use", 0, 0) /\ NextFile /\ UNCHANGED <<tables, hostCache>>

\* Faulty variant: the flag is released before the copy is complete.
StartCopyPublishing ==
  /\ file = ApConfig /\ HookStep("use", 0, -1) /\ Goto("copy")
  /\ g_cfgHost' = Partial /\ g_cfgHostValid' = TRUE /\ UNCHANGED tables

\* ap_config.json has a bridge_host that fits: memcpy, the terminator, release.
StartCopy ==
  /\ file = ApConfig /\ HookStep("use", 0, -1) /\ Goto("copy")
  /\ g_cfgHost' = Partial /\ UNCHANGED <<g_cfgHostValid, tables>>

EndCopy ==
  /\ HookStep("copy", 0, 0) /\ Goto("publish")
  /\ g_cfgHost' = Whole /\ UNCHANGED <<g_cfgHostValid, tables>>

Publish ==
  /\ HookStep("publish", 0, 0) /\ NextFile
  /\ g_cfgHostValid' = TRUE /\ UNCHANGED <<g_cfgHost, tables>>

RomMounted ==
  \/ SkipFile \/ OpenFile \/ NoBuffer \/ AllocBuffer \/ ReadFails \/ ReadFile
  \/ NoUse \/ SetListSize \/ AllocList \/ AllocListFails \/ FillEntry
  \/ FillEntryFails \/ NameIsNull \/ ListFilled
  \/ RenameProfile \/ HashTooLong \/ StartCopy \/ EndCopy \/ Publish

-----------------------------------------------------------------------------
\* The worker thread: resolveBridge.

WorkerStep(from, to) ==
  ~Faulted /\ wpc = from /\ wpc' = to /\ UNCHANGED gameVars

\* Nothing but the worker's place in resolveBridge changes.
OnlyStep(from, to) ==
  /\ WorkerStep(from, to)
  /\ UNCHANGED <<fds, counters, cfg_host, found, network>>

\* A fresh UDP socket has its own port: nothing that answers an earlier one
\* arrives at it.
openUdpSocket == fds' = fds + 1 /\ UNCHANGED network
closeSocket   == fds' = fds - 1 /\ asked' = FALSE /\ inbox' = {}

LoopbackOpen ==
  /\ WorkerStep("loopOpen", "loopSend") /\ openUdpSocket
  /\ UNCHANGED <<counters, cfg_host, found>>

LoopbackOpenFails == OnlyStep("loopOpen", "config")

LoopbackSend ==
  /\ WorkerStep("loopSend", "loopWait") /\ asked' = TRUE
  /\ UNCHANGED <<fds, counters, cfg_host, found, inbox>>

\* SendTo failed, or Poll timed out: no answer, whatever arrives later.
NoLoopback ==
  \E from \in {"loopSend", "loopWait"} : OnlyStep(from, "loopClose")

\* One datagram is read, and it is the answer or it is not.
LoopbackReceive ==
  /\ WorkerStep("loopWait", "loopClose")
  /\ \E d \in inbox : inbox' = inbox \ {d} /\ found' = (d = "bridge")
  /\ UNCHANGED <<fds, counters, cfg_host, asked>>

\* Faulty variant: a probe that was not answered leaves its socket open.
LoopbackCloseIfFound ==
  /\ WorkerStep("loopClose", IF found THEN "done" ELSE "config")
  /\ IF found THEN closeSocket ELSE UNCHANGED <<fds, network>>
  /\ UNCHANGED <<counters, cfg_host, found>>

LoopbackClose ==
  /\ WorkerStep("loopClose", IF found THEN "done" ELSE "config")
  /\ closeSocket /\ UNCHANGED <<counters, cfg_host, found>>

\* readConfiguredHost: acquire the flag, then copy.
NotConfigured == ~g_cfgHostValid /\ OnlyStep("config", "done")

CopyHost ==
  /\ g_cfgHostValid /\ WorkerStep("config", "sweepOpen")
  /\ cfg_host' = g_cfgHost
  /\ UNCHANGED <<fds, counters, found, network>>

\* InetAton or the socket call failed.
CannotSweep == OnlyStep("sweepOpen", "done")

SweepOpen ==
  /\ WorkerStep("sweepOpen", "sweep") /\ openUdpSocket
  /\ host' = 1 /\ polls' = 0
  /\ UNCHANGED <<cfg_host, found>>

\* One SendTo of the burst; a failed one is not repeated.
SweepSend ==
  /\ WorkerStep("sweep", "sweep") /\ host <= Hosts /\ host' = host + 1
  /\ asked' \in {asked, asked \/ host = PcHost}
  /\ UNCHANGED <<fds, polls, cfg_host, found, inbox>>

SweepSent == host > Hosts /\ OnlyStep("sweep", "collect")

\* A poll that finds a datagram: the first valid reply ends the sweep.
CollectReply(d) ==
  /\ WorkerStep("collect", IF d = "bridge" THEN "sweepClose" ELSE "collect")
  /\ inbox' = inbox \ {d} /\ found' = (d = "bridge")
  /\ UNCHANGED <<fds, host, cfg_host, asked>>

\* Faulty variant: a datagram that does not parse is not counted as a poll.
CollectUncounted ==
  /\ polls < MaxPolls
  /\ \E d \in inbox :
       CollectReply(d) /\ polls' = IF d = "bridge" THEN polls + 1 ELSE polls

\* Faulty variant: one poll more than the window has.
CollectUncapped ==
  /\ polls <= MaxPolls /\ polls' = polls + 1
  /\ \E d \in inbox : CollectReply(d)

Collect ==
  /\ polls < MaxPolls /\ polls' = polls + 1
  /\ \E d \in inbox : CollectReply(d)

\* The poll timed out, or it or RecvFrom failed.
CollectNothing ==
  /\ WorkerStep("collect", "collect") /\ polls < MaxPolls /\ polls' = polls + 1
  /\ UNCHANGED <<fds, host, cfg_host, found, network>>

CollectOver == polls = MaxPolls /\ OnlyStep("collect", "sweepClose")

SweepClose ==
  /\ WorkerStep("sweepClose", "done") /\ closeSocket
  /\ UNCHANGED <<counters, cfg_host, found>>

\* worker_main dials what was found, or sleeps; either way it is back here.
ResolveAgain ==
  /\ WorkerStep("done", "loopOpen") /\ found' = FALSE
  /\ UNCHANGED <<fds, counters, cfg_host, network>>

ResolveBridge ==
  \/ LoopbackOpen \/ LoopbackOpenFails \/ LoopbackSend \/ NoLoopback
  \/ LoopbackReceive \/ LoopbackClose \/ NotConfigured \/ CopyHost
  \/ CannotSweep \/ SweepOpen \/ SweepSend \/ SweepSent \/ Collect
  \/ CollectNothing \/ CollectOver \/ SweepClose

\* The network, external: late, repeated and unexpected datagrams.
Arrives(d) ==
  /\ ~Faulted /\ fds > 0 /\ (d = "bridge" => asked)
  /\ inbox' = inbox \cup {d}
  /\ UNCHANGED <<wpc, fds, counters, cfg_host, found, asked, gameVars>>

Next ==
  \/ MountRom \/ Unmount \/ RomMounted
  \/ ResolveBridge \/ ResolveAgain
  \/ \E d \in {"bridge", "junk"} : Arrives(d)

\* Every wait of resolveBridge has a timeout, and the hook never waits.
Spec == Init /\ [][Next]_vars /\ WF_vars(ResolveBridge) /\ WF_vars(RomMounted)

-----------------------------------------------------------------------------
\* Properties.

\* The counters stay in range.
TypeOK ==
  /\ gpc \in {"idle", "entry", "opened", "read", "use", "list", "fill",
              "profile2", "profile3", "copy", "publish", "nullName",
              "nullBuffer"}
  /\ file \in {Replacements, SeedHash, ApConfig}
  /\ mounted \in BOOLEAN /\ mounts \in 0..MaxMounts
  /\ handles \in 0..1 /\ buffers \in Nat
  /\ g_stringListSize \in 0..MaxEntries
  /\ g_stringList \in Seq(EntryKinds \cup {"written"})
  /\ profiles \in [1..3 -> 0..MaxMounts]
  /\ g_cfgHost \in {Unwritten, Partial, Whole} /\ g_cfgHostValid \in BOOLEAN
  /\ wpc \in {"loopOpen", "loopSend", "loopWait", "loopClose", "config",
              "sweepOpen", "sweep", "collect", "sweepClose", "done"}
  /\ fds \in 0..1 /\ host \in 1..(Hosts + 1) /\ polls \in 0..MaxPolls
  /\ cfg_host \in {Unwritten, Partial, Whole}
  /\ {found, asked} \subseteq BOOLEAN /\ inbox \subseteq {"bridge", "junk"}

\* Whenever the game may unmount "rom", no file on it is open: whatever failed
\* in OpenAndReadFile, on whichever mount.
NoHandleLeft == gpc = "idle" => handles = 0

\* resolveBridge returns with every UDP socket closed, on each of its exits.
NoSocketLeft == wpc \in {"loopOpen", "config", "sweepOpen", "done"} => fds = 0

\* The worker sweeps from a whole address only, however the game thread's write
\* and later mounts fall among its reads.
SeedWhole == cfg_host \in {Unwritten, Whole} /\ (wpc = "sweep" => cfg_host = Whole)

\* When the hook comes back to the game, on whichever mount and whichever of its
\* reads failed, what it rebuilds is consistent: replaceString walks as many
\* entries as the list has, each of a kind the code reads is written, and the three
\* save slots are named after one seed.  (It may not come back: see FormatsRead.)
TablesWhole ==
  gpc = "idle" =>
    /\ g_stringListSize = Len(g_stringList)
    /\ \A i \in 1..g_stringListSize : g_stringList[i] \in {"written", "other"}
    /\ \A slot \in 1..3 : profiles[slot] = profiles[1]

\* Of the buffers that OpenAndReadFile hands out for its caller to free, a mount
\* leaves at most one behind, however its three reads end: setSeedSaveProfile
\* does not free that of a hash too long for a slot name.
OneBufferPerMount == gpc = "idle" => buffers <= mounts

\* resolveBridge returns, whatever keeps arriving at its sockets, unless the hook
\* takes the process down.
ResolveReturns == wpc = "loopOpen" ~> wpc = "done" \/ Faulted

-----------------------------------------------------------------------------
\* README.md: "replacements.json can have two structures", a list of strings or a
\* list of objects.  The hook gets through both.
FormatsRead == gpc # "nullName"
=============================================================================
