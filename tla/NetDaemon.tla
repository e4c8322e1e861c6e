----------------------------- MODULE NetDaemon -----------------------------
(***************************************************************************)
(* The net daemon: task/fte_task_netd.c with net/fte_net.c, and the SNMP   *)
(* traps it sends for the others, net/snmp/fte_snmp.c over fte_list.c.     *)
(*                                                                         *)
(* All these tasks have the same priority and no time slice, so that one   *)
(* takes over only where another waits: for ipcfg's bind, for a command of *)
(* the TCP/IP task (RTCS_trap_target_add and _remove, sending), in a delay *)
(* or for input.  What a task does between two waits is one step here; the *)
(* list operations, with their test of the count before the lock, do not   *)
(* wait, because nobody waits while holding a list's lock.                 *)
(***************************************************************************)
EXTENDS Integers, Sequences, FiniteSets

CONSTANTS
  Hosts,       \* addresses of managers
  None,        \* the address 0
  MaxTraps,    \* 100, the queued traps above which an alert drops the oldest
  MaxServers,  \* FTE_NET_SNMP_TRAP_COUNT, the servers the configuration holds
  Slots,       \* SNMPCFG_MAX_TRAP_RECEIVERS, the receivers RTCS can keep
  Burst,       \* 10, the traps sent in one round
  Tries,       \* 2, the failing binds the node survives
  MaxAlerts, MaxAsks, MaxCmds, MaxFaults   \* bounds of the environment

ASSUME NetAssumption ==
  /\ IsFiniteSet(Hosts) /\ Hosts # {} /\ None \notin Hosts
  /\ {MaxTraps, MaxServers, Slots, Burst, Tries} \subseteq Nat /\ MaxServers < Slots
  /\ {MaxAlerts, MaxAsks, MaxCmds, MaxFaults} \subseteq Nat

VARIABLES
  link,      \* the cable
  ip,        \* ipcfg's state of the interface
  netd,      \* the net daemon: at, nRetry, loop_count, pCurrentTrapMsg, bNewServer
  queue,     \* _trapList
  servers,   \* _trapServerList
  stored,    \* the servers in the configuration
  targets,   \* RTCS's table of receivers
  shell,     \* the shell's snmp trap command
  hist       \* history and bounds: see Init

vars == <<link, ip, netd, queue, servers, stored, targets, shell, hist>>

Alert == [type |-> "ALERT"]
Ask(h) == [type |-> "DISCOVERY", host |-> h]
Messages == {Alert} \cup {Ask(h) : h \in Hosts}

NetdIdle == [at |-> "top", retry |-> 0, left |-> 0, msg |-> Alert, temp |-> FALSE]
ShellIdle == [at |-> "idle", host |-> None]

(* FTE_SNMPD_init enters the stored servers, external: into the first      *)
(* slots of the table.                                                     *)
Tables(S) ==
  LET n == Cardinality(S)
  IN  {t \in [1 .. Slots -> S \cup {None}] :
         /\ \A h \in S : \E i \in 1 .. n : t[i] = h
         /\ \A i \in n + 1 .. Slots : t[i] = None}

(* hist.asked: discoveries queued since the start.  hist.refused: hosts    *)
(* whose addition found the configuration full since then; they stay in    *)
(* the list of servers.                                                    *)
Init ==
  /\ link \in BOOLEAN
  /\ ip = "UNBOUND"
  /\ netd = NetdIdle
  /\ queue = << >>
  /\ stored \in {S \in SUBSET Hosts : Cardinality(S) <= MaxServers}
  /\ servers = stored
  /\ targets \in Tables(stored)
  /\ shell = ShellIdle
  /\ hist = [alerts |-> 0, asked |-> 0, cmds |-> 0, faults |-> 0, refused |-> {}]

-----------------------------------------------------------------------------
(* External: RTCS's table takes an address as often as it is added, while  *)
(* there is room, and drops one entry at a time.                           *)
First(S) == CHOOSE x \in S : \A y \in S : x <= y

SlotsOf(h) == {i \in 1 .. Slots : targets[i] = h}

Insert(h) ==
  targets' = IF SlotsOf(None) = {} THEN targets
               ELSE [targets EXCEPT ![First(SlotsOf(None))] = h]
Remove(h) ==
  targets' = IF SlotsOf(h) = {} THEN targets
               ELSE [targets EXCEPT ![First(SlotsOf(h))] = None]

(* External: the cable is plugged or pulled, and ipcfg loses its lease.    *)
Fault == hist.faults < MaxFaults /\ hist' = [hist EXCEPT !.faults = @ + 1]

LinkChanges ==
  /\ Fault
  /\ link' = ~link
  /\ UNCHANGED <<ip, netd, queue, servers, stored, targets, shell>>

LeaseLost ==
  /\ ip = "BOUND" /\ Fault
  /\ ip' = "BUSY"
  /\ UNCHANGED <<link, netd, queue, servers, stored, targets, shell>>

-----------------------------------------------------------------------------
(* Mutant: one trap more than the limit. *)
Trim_Late(q) == IF Len(q) > MaxTraps + 1 THEN Tail(q) ELSE q

(* FTE_SNMPD_TRAP_sendAlert, in the event task or the shell: above the     *)
(* limit the oldest trap, of whatever type, makes room before the new one  *)
(* is allocated.                                                           *)
Trim(q) == IF Len(q) > MaxTraps THEN Tail(q) ELSE q

SendAlert ==
  /\ hist.alerts < MaxAlerts
  /\ hist' = [hist EXCEPT !.alerts = @ + 1]
  /\ queue' = Append(Trim(queue), Alert)
  /\ UNCHANGED <<link, ip, netd, servers, stored, targets, shell>>

SendAlertNoMemory ==
  /\ Fault
  /\ queue' = Trim(queue)
  /\ UNCHANGED <<link, ip, netd, servers, stored, targets, shell>>

(* FTE_SNMPD_TRAP_discovery, for a "Hello?" at the management port or from *)
(* the shell: no limit.                                                    *)
Discovery(h) ==
  /\ hist.asked < MaxAsks
  /\ hist' = [hist EXCEPT !.asked = @ + 1]
  /\ queue' = Append(queue, Ask(h))
  /\ UNCHANGED <<link, ip, netd, servers, stored, targets, shell>>

-----------------------------------------------------------------------------
(* Mutant: only an interface that was never bound is bound. *)
NeedsBind_Unbound == ip = "UNBOUND"

(* The daemon's round, every 100 ms: bind or unbind as the cable says.     *)
(* Traps are sent in a round that finds the interface bound.               *)
NeedsBind == ip \in {"BUSY", "UNBOUND"}

StartBind ==
  /\ netd.at = "top" /\ link /\ NeedsBind
  /\ netd' = [netd EXCEPT !.at = "bind"]
  /\ UNCHANGED <<link, ip, queue, servers, stored, targets, shell, hist>>

StartTraps ==
  /\ netd.at = "top" /\ link /\ ip = "BOUND" /\ queue # << >>
  /\ netd' = [netd EXCEPT !.at = "traps", !.left = Burst]
  /\ UNCHANGED <<link, ip, queue, servers, stored, targets, shell, hist>>

Unbind ==
  /\ netd.at = "top" /\ ~link /\ ip # "UNBOUND"
  /\ ip' = "UNBOUND"
  /\ UNCHANGED <<link, netd, queue, servers, stored, targets, shell, hist>>

(* Mutant: nRetry is left as it is. *)
BindSucceeds_KeepRetry ==
  /\ netd.at = "bind"
  /\ ip' = "BOUND"
  /\ netd' = [netd EXCEPT !.at = "top"]
  /\ UNCHANGED <<link, queue, servers, stored, targets, shell, hist>>

BindSucceeds ==
  /\ netd.at = "bind"
  /\ ip' = "BOUND"
  /\ netd' = [netd EXCEPT !.at = "top", !.retry = 0]
  /\ UNCHANGED <<link, queue, servers, stored, targets, shell, hist>>

(* Mutant: a try too many. *)
BindFails_OneMore ==
  /\ netd.at = "bind"
  /\ Fault
  /\ netd' = [netd EXCEPT !.at = "top", !.retry = @ + 1]
  /\ UNCHANGED <<link, ip, queue, servers, stored, targets, shell>>

BindFails ==
  /\ netd.at = "bind" /\ netd.retry < Tries
  /\ Fault
  /\ netd' = [netd EXCEPT !.at = "top", !.retry = @ + 1]
  /\ UNCHANGED <<link, ip, queue, servers, stored, targets, shell>>

(* The third failure resets the node, which forgets everything but the     *)
(* configuration.                                                          *)
LastBindFails ==
  /\ netd.at = "bind" /\ netd.retry = Tries
  /\ hist.faults < MaxFaults
  /\ hist' = [hist EXCEPT !.faults = @ + 1, !.asked = 0, !.refused = {}]
  /\ netd' = NetdIdle
  /\ ip' = "UNBOUND"
  /\ queue' = << >>
  /\ servers' = stored
  /\ targets' \in Tables(stored)
  /\ shell' = ShellIdle
  /\ UNCHANGED <<link, stored>>

(* FTE_SNMPD_TRAP_processing takes a message.  A manager that asks and is  *)
(* not a stored server becomes a receiver for this one trap.               *)
TakeTrap ==
  /\ netd.at = "traps" /\ queue # << >> /\ netd.left > 0
  /\ LET m == Head(queue)
         t == m.type = "DISCOVERY" /\ m.host \notin stored
     IN  netd' = [netd EXCEPT !.at = IF t THEN "add" ELSE "send", !.msg = m, !.temp = t]
  /\ queue' = Tail(queue)
  /\ UNCHANGED <<link, ip, servers, stored, targets, shell, hist>>

AddAsker ==
  /\ netd.at = "add"
  /\ Insert(netd.msg.host)
  /\ netd' = [netd EXCEPT !.at = "send"]
  /\ UNCHANGED <<link, ip, queue, servers, stored, shell, hist>>

(* Mutant: the asker stays a receiver. *)
Send_Keep ==
  /\ netd.at = "send"
  /\ netd' = [netd EXCEPT !.at = "traps", !.left = @ - 1, !.msg = Alert, !.temp = FALSE]
  /\ UNCHANGED <<link, ip, queue, servers, stored, targets, shell, hist>>

Send ==
  /\ netd.at = "send"
  /\ netd' = IF netd.temp THEN [netd EXCEPT !.at = "remove"]
               ELSE [netd EXCEPT !.at = "traps", !.left = @ - 1, !.msg = Alert]
  /\ UNCHANGED <<link, ip, queue, servers, stored, targets, shell, hist>>

RemoveAsker ==
  /\ netd.at = "remove"
  /\ Remove(netd.msg.host)
  /\ netd' = [netd EXCEPT !.at = "traps", !.left = @ - 1, !.msg = Alert, !.temp = FALSE]
  /\ UNCHANGED <<link, ip, queue, servers, stored, shell, hist>>

EndTraps ==
  /\ netd.at = "traps" /\ (queue = << >> \/ netd.left = 0)
  /\ netd' = [netd EXCEPT !.at = "top", !.left = 0]
  /\ UNCHANGED <<link, ip, queue, servers, stored, targets, shell, hist>>

-----------------------------------------------------------------------------
(* The shell's "snmp trap add": FTE_SNMPD_TRAP_add enters the server into  *)
(* the list, into RTCS's table, whatever that says, and into the           *)
(* configuration if there is room.  A server that is in the list already   *)
(* is left as it is.                                                       *)
ShellAdd(h) ==
  /\ shell.at = "idle" /\ h \notin servers /\ hist.cmds < MaxCmds
  /\ hist' = [hist EXCEPT !.cmds = @ + 1]
  /\ servers' = servers \cup {h}
  /\ shell' = [at |-> "add", host |-> h]
  /\ UNCHANGED <<link, ip, netd, queue, stored, targets>>

ShellAddTarget ==
  /\ shell.at = "add"
  /\ Insert(shell.host)
  /\ shell' = [shell EXCEPT !.at = "store"]
  /\ UNCHANGED <<link, ip, netd, queue, servers, stored, hist>>

(* Mutant: one server too many. *)
Room_OneMore == Cardinality(stored) <= MaxServers

(* FTE_CFG_NET_TRAP_addIP. *)
Room == Cardinality(stored) < MaxServers

ShellStore ==
  /\ shell.at = "store"
  /\ stored' = IF Room THEN stored \cup {shell.host} ELSE stored
  /\ hist' = IF Room \/ shell.host \in stored THEN hist
              ELSE [hist EXCEPT !.refused = @ \cup {shell.host}]
  /\ shell' = ShellIdle
  /\ UNCHANGED <<link, ip, netd, queue, servers, targets>>

(* "snmp trap del": FTE_SNMPD_TRAP_del takes it out of the table, then out *)
(* of the configuration and the list.                                      *)
ShellDel(h) ==
  /\ shell.at = "idle" /\ h \in servers /\ hist.cmds < MaxCmds
  /\ hist' = [hist EXCEPT !.cmds = @ + 1]
  /\ shell' = [at |-> "remove", host |-> h]
  /\ UNCHANGED <<link, ip, netd, queue, servers, stored, targets>>

ShellRemoveTarget ==
  /\ shell.at = "remove"
  /\ Remove(shell.host)
  /\ shell' = [shell EXCEPT !.at = "unstore"]
  /\ UNCHANGED <<link, ip, netd, queue, servers, stored, hist>>

ShellUnstore ==
  /\ shell.at = "unstore"
  /\ stored' = stored \ {shell.host}
  /\ servers' = servers \ {shell.host}
  /\ shell' = ShellIdle
  /\ UNCHANGED <<link, ip, netd, queue, targets, hist>>

-----------------------------------------------------------------------------
Daemon ==
  \/ StartBind \/ StartTraps \/ Unbind
  \/ BindSucceeds \/ BindFails \/ LastBindFails
  \/ TakeTrap \/ AddAsker \/ Send \/ RemoveAsker \/ EndTraps

Shell ==
  \/ \E h \in Hosts : ShellAdd(h) \/ ShellDel(h)
  \/ ShellAddTarget \/ ShellStore \/ ShellRemoveTarget \/ ShellUnstore

Next ==
  \/ Daemon
  \/ Shell
  \/ SendAlert \/ SendAlertNoMemory
  \/ \E h \in Hosts : Discovery(h)
  \/ LinkChanges \/ LeaseLost

Spec == Init /\ [][Next]_vars

(* The daemon comes round every 100 ms and RTCS and ipcfg answer.          *)
FairSpec == Spec /\ WF_vars(Daemon)

-----------------------------------------------------------------------------
TypeOK ==
  /\ link \in BOOLEAN /\ ip \in {"UNBOUND", "BUSY", "BOUND"}
  /\ netd \in [at : {"top", "bind", "traps", "add", "send", "remove"}, retry : 0 .. Tries,
               left : 0 .. Burst, msg : Messages, temp : BOOLEAN]
  /\ queue \in Seq(Messages)
  /\ servers \subseteq Hosts /\ stored \subseteq Hosts
  /\ targets \in [1 .. Slots -> Hosts \cup {None}]
  /\ shell \in [at : {"idle", "add", "store", "remove", "unstore"}, host : Hosts \cup {None}]
  /\ hist \in [alerts : 0 .. MaxAlerts, asked : 0 .. MaxAsks, cmds : 0 .. MaxCmds,
               faults : 0 .. MaxFaults, refused : SUBSET Hosts]

(* The queue grows past its limit by discoveries only, which are queued    *)
(* without a test (FTE_SNMPD_TRAP_discovery:390): an alert that finds it   *)
(* too long drops one trap, whether or not that was an alert.              *)
QueueBounded == Len(queue) <= MaxTraps + 1 + hist.asked

(* A bound interface has all its tries again (FTE_TASK_net:97): the node   *)
(* is reset by three failures of one outage, never by the sum of several.  *)
TriesAreBack == ip = "BOUND" => netd.retry = 0

(* Between commands and discoveries the list of servers, the configuration *)
(* and RTCS's table agree, although discoveries add and remove entries of  *)
(* the same hosts while the shell does.  That ends when an addition is     *)
(* refused for lack of room: FTE_SNMPD_TRAP_add:175 has listed the host    *)
(* and taken the slot meant for discoveries, later additions of it do      *)
(* nothing, and a discovery that finds the table full removes an entry it  *)
(* has not made, perhaps that of a stored server.                          *)
Quiet == shell.at = "idle" /\ ~netd.temp

ServersServed ==
  Quiet /\ hist.refused = {} =>
    /\ servers = stored
    /\ {targets[i] : i \in 1 .. Slots} \ {None} = stored

(* A manager that asks hears the answer: when its trap is sent it is a     *)
(* receiver.  RTCS has one slot more than the configuration has servers;   *)
(* only a server that does not fit takes it, or the shell's command.       *)
AskerHears ==
  netd.at = "send" /\ netd.msg.type = "DISCOVERY" /\ (netd.temp \/ netd.msg.host \in stored)
    => SlotsOf(netd.msg.host) # {} \/ hist.refused # {} \/ shell.at # "idle"

(* While the cable is in, the queued traps are sent: binding is tried      *)
(* again, and a long queue is continued in the next rounds.                *)
TrapsDrain == []<>(queue = << >> \/ ~link)
=============================================================================
