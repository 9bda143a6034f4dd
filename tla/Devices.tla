------------------------------ MODULE Devices ------------------------------
(***************************************************************************)
(* The account's devices (client.rs: enumerate_devices, create_device,     *)
(* rename_device, delete_device).                                          *)
(*                                                                         *)
(* A device's name is that of its root folder.  The server stores it as a  *)
(* key packet, which holds a session key, and a data packet made with one; *)
(* its rename route keeps the first and replaces the second.  Two clients  *)
(* of the account run the calls below side by side, request by request.    *)
(***************************************************************************)
EXTENDS Integers, FiniteSets

CONSTANTS
    Machine,       \* clients
    Device,        \* devices that may be registered
    DeviceName,
    NoName,        \* no device is asked about, or its name could not be read
    MaxDeviceCalls, MaxDeviceFailures

ASSUME DevicesAssumption ==
    NoName \notin DeviceName \cup Device /\ MaxDeviceCalls \in Nat /\ MaxDeviceFailures \in Nat

VARIABLES
    devices,         \* server: [Device -> registered, its type known, deprecated name, packets]
    sessionKeys,     \* name session keys made so far
    rootKeys,        \* cache.folder_keys of each client: the device roots
    deviceCall,      \* [Machine -> the call under way]
    deviceCalls, deviceFailures

deviceVars == <<devices, sessionKeys, rootKeys, deviceCall, deviceCalls, deviceFailures>>

NoDevice == [there |-> FALSE, typed |-> TRUE, deprecated |-> FALSE, packet |-> 0, data |-> 0,
             name |-> NoName]
AtRest == [at |-> "rest", device |-> NoName, name |-> NoName, todo |-> {}, read |-> NoDevice,
           listed |-> [d \in {} |-> NoName]]

\* Devices registered by older clients carry the deprecated name too, and the
\* account may have one of a type this client does not know.
DevicesInit ==
    /\ sessionKeys = 1
    /\ devices \in [Device -> {NoDevice} \cup
          [there : {TRUE}, typed : BOOLEAN, deprecated : BOOLEAN, packet : {1}, data : {1},
           name : DeviceName]]
    /\ rootKeys = [m \in Machine |-> {}]
    /\ deviceCall = [m \in Machine |-> AtRest]
    /\ deviceCalls = 0 /\ deviceFailures = 0

BeginDeviceCall(m, call) ==
    /\ deviceCall[m].at \in {"rest", "listed", "failed", "renamed"}
    /\ deviceCalls < MaxDeviceCalls /\ deviceCalls' = deviceCalls + 1
    /\ deviceCall' = [deviceCall EXCEPT ![m] = call]
    /\ UNCHANGED <<devices, sessionKeys, rootKeys, deviceFailures>>

Becomes(m, call) ==
    deviceCall' = [deviceCall EXCEPT ![m] = call] /\ UNCHANGED <<deviceCalls, deviceFailures>>

There == {d \in Device : devices[d].there}

-----------------------------------------------------------------------------
(* Listing.                                                                 *)

EnumerateDevices(m) == BeginDeviceCall(m, [AtRest EXCEPT !.at = "list"])
RenameDevice(m, d, n) ==
    BeginDeviceCall(m, [AtRest EXCEPT !.at = "find", !.device = d, !.name = n])

\* device_metadata: every device, or none if the type of one is unknown.
DeviceMetadata(m) ==
    /\ deviceCall[m].at \in {"list", "find"}
    /\ LET c == deviceCall[m] IN
       Becomes(m,
          IF \E d \in There : ~devices[d].typed THEN [c EXCEPT !.at = "failed"]
          ELSE IF c.at = "list" THEN [c EXCEPT !.at = "names", !.todo = There]
          ELSE IF c.device \notin There THEN [c EXCEPT !.at = "failed"]
          ELSE [c EXCEPT !.at = IF devices[c.device].deprecated THEN "clear" ELSE "read"])
    /\ UNCHANGED <<devices, sessionKeys, rootKeys>>

\* The packets open with the share key if they were made with one session key.
Opens(d) == devices[d].packet = devices[d].data

\* device_root_folder_name: a device that is gone by now, or a request that fails,
\* has no name; the others are listed.
DeviceRootFolderName(m, d) ==
    /\ deviceCall[m].at = "names" /\ d \in deviceCall[m].todo
    /\ LET named(n) == [deviceCall[m] EXCEPT
             !.todo = @ \ {d},
             !.listed = [e \in DOMAIN @ \cup {d} |-> IF e = d THEN n ELSE @[e]]]
       IN \/ /\ devices[d].there /\ Opens(d) /\ Becomes(m, named(devices[d].name))
             /\ rootKeys' = [rootKeys EXCEPT ![m] = @ \cup {d}]
          \/ /\ ~devices[d].there \/ ~Opens(d)
             /\ Becomes(m, named(NoName)) /\ UNCHANGED rootKeys
          \/ /\ deviceFailures < MaxDeviceFailures /\ deviceFailures' = deviceFailures + 1
             /\ deviceCall' = [deviceCall EXCEPT ![m] = named(NoName)]
             /\ UNCHANGED <<deviceCalls, rootKeys>>
    /\ UNCHANGED <<devices, sessionKeys>>

DevicesListed(m) ==
    /\ deviceCall[m].at = "names" /\ deviceCall[m].todo = {}
    /\ Becomes(m, [deviceCall[m] EXCEPT !.at = "listed"])
    /\ UNCHANGED <<devices, sessionKeys, rootKeys>>

-----------------------------------------------------------------------------
(* Creating, renaming, deleting.                                            *)

\* The server gives every device an id of its own, never one of a deleted device.
CreateDevice(m, d, n) ==
    /\ deviceCall[m].at = "rest" /\ devices[d] = NoDevice
    /\ deviceCalls < MaxDeviceCalls /\ deviceCalls' = deviceCalls + 1
    /\ sessionKeys' = sessionKeys + 1
    /\ devices' = [devices EXCEPT ![d] = [there |-> TRUE, typed |-> TRUE, deprecated |-> FALSE,
                      packet |-> sessionKeys', data |-> sessionKeys', name |-> n]]
    /\ UNCHANGED <<rootKeys, deviceCall, deviceFailures>>

\* The copy on the share is cleared first; whether that worked is not looked at.
ClearDeprecatedName(m) ==
    /\ deviceCall[m].at = "clear"
    /\ \/ /\ devices' = [devices EXCEPT ![deviceCall[m].device].deprecated = FALSE]
          /\ Becomes(m, [deviceCall[m] EXCEPT !.at = "read"])
       \/ /\ deviceFailures < MaxDeviceFailures /\ deviceFailures' = deviceFailures + 1
          /\ deviceCall' = [deviceCall EXCEPT ![m].at = "read"]
          /\ UNCHANGED <<devices, deviceCalls>>
    /\ UNCHANGED <<sessionKeys, rootKeys>>

\* The share's key and the current name, whose session key is recovered.
ReadCurrentName(m) ==
    /\ deviceCall[m].at = "read"
    /\ LET d == deviceCall[m].device IN
       Becomes(m, IF devices[d].there THEN [deviceCall[m] EXCEPT !.at = "put", !.read = devices[d]]
                  ELSE [deviceCall[m] EXCEPT !.at = "failed"])
    /\ UNCHANGED <<devices, sessionKeys, rootKeys>>

\* The session key the new name is encrypted under.
NameSessionKeyFresh(m) == sessionKeys + 1
NameSessionKey(m) == deviceCall[m].read.packet

PutName(m) ==
    /\ deviceCall[m].at = "put"
    /\ LET d == deviceCall[m].device IN
       IF devices[d].there
       THEN /\ devices' = [devices EXCEPT ![d].data = NameSessionKey(m), ![d].name = deviceCall[m].name]
            /\ Becomes(m, [deviceCall[m] EXCEPT !.at = "renamed"])
       ELSE Becomes(m, [deviceCall[m] EXCEPT !.at = "failed"]) /\ UNCHANGED devices
    /\ UNCHANGED <<sessionKeys, rootKeys>>

DeleteDevice(m, d) ==
    /\ deviceCall[m].at = "rest" /\ devices[d].there
    /\ deviceCalls < MaxDeviceCalls /\ deviceCalls' = deviceCalls + 1
    /\ devices' = [devices EXCEPT ![d].there = FALSE]
    /\ UNCHANGED <<sessionKeys, rootKeys, deviceCall, deviceFailures>>

DeviceNext ==
    \E m \in Machine :
        \/ EnumerateDevices(m) \/ DeviceMetadata(m) \/ DevicesListed(m)
        \/ ClearDeprecatedName(m) \/ ReadCurrentName(m) \/ PutName(m)
        \/ \E d \in Device :
              \/ DeviceRootFolderName(m, d) \/ DeleteDevice(m, d)
              \/ \E n \in DeviceName : CreateDevice(m, d, n) \/ RenameDevice(m, d, n)

DeviceSpec == DevicesInit /\ [][DeviceNext]_deviceVars

\* However two clients rename a device at once, its name stays readable for every
\* client: the key packet the server kept opens the data packet it was sent.
DeviceNamesOpen == \A d \in There : Opens(d)
=============================================================================
