-------------------------------- MODULE Hotplug --------------------------------
(****************************************************************************)
(* usb.watch of linux/usb.lua as raw-usb.lua calls it: devices are found by  *)
(* enumeration and by the events of udev, and one that is connected is       *)
(* opened, configured and claimed with the ioctls of l_usb.c, against the    *)
(* drivers of the kernel.  All that happens is at one port of the bus.  The  *)
(* kernel is external; it unloads no driver.                                 *)
(****************************************************************************)
EXTENDS Integers, Sequences, FiniteSets

CONSTANTS
    InterfacesOf,   \* the numbers of the interfaces in each configuration
    Vendor,         \* that of the vendor's interface
    Wanted,         \* the configuration raw-usb asks for
    Default,        \* the one the kernel chooses
    MaxPlugs        \* bound: how often a device is plugged in

ASSUME HotplugParameters ==
    /\ {Wanted, Default} \subseteq DOMAIN InterfacesOf \ {0}
    /\ InterfacesOf[0] = {} /\ Vendor \in InterfacesOf[Wanted]
    /\ MaxPlugs \in Nat

VARIABLES
    plugged_in,     \* the device at the port, a number for every plugging; 0: none
    plugs,
    ours,           \* those that have the product raw-usb looks for
    probing,        \* the kernel has still to configure the device
    configured,     \* the configuration; 0: not configured
    driver_of,      \* of each interface: "none", "kernel" or "usbfs", the claim of a file

    uevents,        \* what the monitor has not yet handled: [action, of]
    stage,          \* "start", "monitor", "enumerated", "loop" or "exited"
    known,          \* devices[path]: the device, or 0
    jobs,           \* the messages of the agent: [job, of]
    opening,        \* where the agent is in the first of them: "" or "open", "reset", ...
    undriven,       \* the interfaces whose drivers have still to be disconnected
    attached,       \* the device whose interface was claimed last, or 0
    told,           \* history: the jobs that were begun
    hasty           \* history: devices enumerated while the kernel was probing

kernelVars == <<plugged_in, plugs, ours, probing, configured, driver_of>>
agentVars == <<opening, undriven, attached, told>>
hotplugVars == <<kernelVars, agentVars, uevents, stage, known, jobs, hasty>>

AllInterfaces == UNION {InterfacesOf[c] : c \in DOMAIN InterfacesOf}
NoDrivers == [i \in AllInterfaces |-> "none"]

HotplugInit ==
    /\ plugged_in \in {0, 1} /\ plugs = plugged_in
    /\ ours = 1..plugs /\ probing \in {FALSE, plugged_in = 1}
    /\ configured = IF plugged_in = 0 \/ probing THEN 0 ELSE Default
    /\ driver_of = NoDrivers
    /\ uevents = <<>> /\ stage = "start" /\ known = 0 /\ jobs = <<>>
    /\ opening = "" /\ undriven = {} /\ attached = 0 /\ told = <<>> /\ hasty = {}

Running == stage # "exited"
IsOurs(d) == d # 0 /\ d \in ours

----------------------------------------------------------------------------
(* The kernel *)

\* Mistake: events are received when the devices have been enumerated.
MonitoredLate == stage = "loop"

\* monitor.new receives events from then on.
Monitored == stage \in {"monitor", "enumerated", "loop"}

Event(action, d) ==
    uevents' = IF Monitored THEN Append(uevents, [action |-> action, of |-> d]) ELSE uevents

Plug ==
    /\ Running /\ plugged_in = 0 /\ plugs < MaxPlugs
    /\ plugs' = plugs + 1 /\ plugged_in' = plugs + 1
    /\ ours' \in {ours, ours \cup {plugs + 1}}
    /\ probing' = TRUE /\ configured' = 0 /\ driver_of' = NoDrivers
    /\ Event("add", plugs + 1)
    /\ UNCHANGED <<agentVars, stage, known, jobs, hasty>>

PullOut ==
    /\ Running /\ plugged_in # 0
    /\ plugged_in' = 0 /\ probing' = FALSE /\ configured' = 0 /\ driver_of' = NoDrivers
    /\ Event("remove", plugged_in)
    /\ UNCHANGED <<plugs, ours, agentVars, stage, known, jobs, hasty>>

\* The kernel configures a new device as it likes best, whatever was done with it by then.
KernelConfigures ==
    /\ Running /\ probing
    /\ probing' = FALSE /\ configured' = Default /\ driver_of' = NoDrivers
    /\ UNCHANGED <<plugged_in, plugs, ours, agentVars, uevents, stage, known, jobs, hasty>>

\* A driver takes an interface that nobody has.
Bind(i) ==
    /\ Running /\ i \in InterfacesOf[configured]
    /\ driver_of[i] = "none"
    /\ driver_of' = [driver_of EXCEPT ![i] = "kernel"]
    /\ UNCHANGED <<plugged_in, plugs, ours, probing, configured, agentVars, uevents, stage,
                   known, jobs, hasty>>

----------------------------------------------------------------------------
(* usb.watch *)

MakeMonitor ==
    /\ stage = "start" /\ stage' = "monitor"
    /\ UNCHANGED <<kernelVars, agentVars, uevents, known, jobs, hasty>>

Job(job, d) == jobs' = Append(jobs, [job |-> job, of |-> d])

\* enumerate with its callback.
Enumerate ==
    /\ stage = "monitor" /\ stage' = "enumerated"
    /\ IF IsOurs(plugged_in) THEN known' = plugged_in /\ Job("connect", plugged_in)
                             ELSE UNCHANGED <<known, jobs>>
    /\ hasty' = IF probing THEN {plugged_in} ELSE {}
    /\ UNCHANGED <<kernelVars, agentVars, uevents>>

\* monitor:enable; what came before is still to be read.
Enable ==
    /\ stage = "enumerated" /\ stage' = "loop"
    /\ UNCHANGED <<kernelVars, agentVars, uevents, known, jobs, hasty>>

\* The attributes are those of the device that is there now.  The agent is to sleep first.
adddev(d) ==
    IF known # 0 \/ ~IsOurs(plugged_in) THEN UNCHANGED <<known, jobs>>
    ELSE known' = d /\ Job("sleep and connect", d)

remdev ==
    IF known = 0 THEN UNCHANGED <<known, jobs>>
    ELSE known' = 0 /\ Job("disconnect", known)

\* read_dev
ReadDev ==
    /\ stage = "loop" /\ uevents # <<>>
    /\ uevents' = Tail(uevents)
    /\ IF Head(uevents).action = "add" THEN adddev(Head(uevents).of) ELSE remdev
    /\ UNCHANGED <<kernelVars, agentVars, stage, hasty>>

----------------------------------------------------------------------------
(* The agent: open_device of raw-usb.lua and device:set_configuration.  An error ends the *)
(* process, and leaves the drivers that were disconnected without their interfaces.        *)

Device == Head(jobs).of
There == plugged_in = Device
GiveUp == stage' = "exited" /\ UNCHANGED <<kernelVars, agentVars, jobs>>
AgentAt(s) == stage = "loop" /\ opening = s /\ jobs # <<>>
Go(s) == opening' = s /\ UNCHANGED <<stage, jobs, attached, told>>
Agent == UNCHANGED <<uevents, known, hasty>>

\* Mistake: no time is given to the kernel.
DoesNotSleep == TRUE

\* The sleep is taken to be longer than the kernel needs.
Slept == Head(jobs).job = "sleep and connect" /\ There => ~probing

\* disconnect does nothing in raw-usb.
Begin ==
    /\ AgentAt("") /\ Slept /\ Agent
    /\ told' = Append(told, [job |-> Head(jobs).job, of |-> Device])
    /\ IF Head(jobs).job = "disconnect" THEN jobs' = Tail(jobs) /\ UNCHANGED opening
                                        ELSE opening' = "open" /\ UNCHANGED jobs
    /\ UNCHANGED <<kernelVars, stage, undriven, attached>>

\* device:open
OpenDevice ==
    /\ AgentAt("open") /\ Agent
    /\ IF There THEN Go("reset") /\ UNCHANGED <<kernelVars, undriven>> ELSE GiveUp

\* SETCONFIGURATION: refused when an interface has a driver; the configuration that is set
\* already stays as it is.
Busy == \E i \in InterfacesOf[configured] : driver_of[i] # "none"
_set_configuration(c) ==
    /\ configured' = c
    /\ UNCHANGED <<plugged_in, plugs, ours, probing, driver_of>>

\* The result for 0 is not looked at.
ResetConfiguration ==
    /\ AgentAt("reset") /\ Agent /\ Go("set") /\ UNCHANGED undriven
    /\ IF There /\ ~Busy THEN _set_configuration(0) ELSE UNCHANGED kernelVars

set_configuration ==
    /\ AgentAt("set") /\ Agent
    /\ CASE ~There -> GiveUp
         [] There /\ Busy -> /\ Go("disconnect") /\ undriven' = InterfacesOf[configured]
                             /\ UNCHANGED kernelVars
         [] OTHER -> Go("claim") /\ _set_configuration(Wanted) /\ UNCHANGED undriven

\* ENODATA is "none".
get_driver(i) == driver_of[i]

\* Of the interfaces with a driver; it takes an interface from another file too.
disconnect_kernel(i) ==
    /\ AgentAt("disconnect") /\ i \in undriven /\ Agent
    /\ undriven' = undriven \ {i} /\ Go("disconnect")
    /\ driver_of' = IF There /\ get_driver(i) # "none" THEN [driver_of EXCEPT ![i] = "none"]
                    ELSE driver_of
    /\ UNCHANGED <<plugged_in, plugs, ours, probing, configured>>

SetAgain ==
    /\ AgentAt("disconnect") /\ undriven = {} /\ Agent
    /\ IF There /\ ~Busy THEN Go("claim") /\ _set_configuration(Wanted) /\ UNCHANGED undriven
                         ELSE GiveUp

\* interface:open
claim_interface ==
    /\ AgentAt("claim") /\ Agent
    /\ IF There /\ Vendor \in InterfacesOf[configured] /\ driver_of[Vendor] = "none"
       THEN /\ driver_of' = [driver_of EXCEPT ![Vendor] = "usbfs"]
            /\ attached' = Device /\ opening' = "" /\ jobs' = Tail(jobs)
            /\ UNCHANGED <<plugged_in, plugs, ours, probing, configured, stage, undriven, told>>
       ELSE GiveUp

\* read_dev, of an event that is neither of these nor bind or unbind: the kernel has others
\* ("change", "move"), and an error ends the process.
UnknownAction == stage = "loop" /\ GiveUp /\ Agent

\* A transfer fails because the device is gone.
Lost ==
    /\ stage = "loop" /\ attached \notin {0, plugged_in}
    /\ GiveUp /\ Agent

HotplugNext ==
    \/ Plug \/ PullOut \/ KernelConfigures
    \/ \E i \in AllInterfaces : Bind(i)
    \/ MakeMonitor \/ Enumerate \/ Enable \/ ReadDev
    \/ Begin \/ OpenDevice \/ ResetConfiguration \/ set_configuration
    \/ \E i \in AllInterfaces : disconnect_kernel(i)
    \/ SetAgain \/ claim_interface \/ Lost \/ UnknownAction

HotplugSpec == HotplugInit /\ [][HotplugNext]_hotplugVars

----------------------------------------------------------------------------

\* The calls of connect and disconnect, with those to come.
AllTold == SubSeq(told, 1, IF opening = "" THEN Len(told) ELSE Len(told) - 1) \o jobs

\* Where the device was connected.
Connects(s, d) == {i \in 1..Len(s) : s[i].of = d /\ s[i].job # "disconnect"}
Twice(d) == \E i, j \in Connects(told, d) : i # j

\* The interface that transfers use is still the process's own, in the configuration it asked
\* for, although the kernel configures new devices and binds drivers when it likes
\* (usb.lua:415).  The exceptions: a device that was enumerated before the kernel was done with
\* it, which nothing waits for; and one that is being connected for the second time.
HoldsItsInterface ==
    attached # 0 /\ attached = plugged_in =>
        \/ configured = Wanted /\ driver_of[Vendor] = "usbfs"
        \/ attached \in hasty
        \/ Twice(attached)

\* When the events have been handled the table has the device that is there, although it may
\* have been plugged in or removed before, while and after the devices were enumerated
\* (usb.lua:400); and the calls of connect and disconnect, with those to come, alternate, in
\* pairs of the same device, the last one being that of the table.
Tracks ==
    LET all == AllTold
        last == Len(all)
    IN /\ stage = "loop" /\ uevents = <<>> =>
            known = IF IsOurs(plugged_in) THEN plugged_in ELSE 0
       /\ \A i \in 1..last : (all[i].job = "disconnect") = (i % 2 = 0)
       /\ \A i \in 1..last : i % 2 = 0 => all[i].of = all[i - 1].of
       /\ known = IF last % 2 = 1 THEN all[last].of ELSE 0
================================================================================
