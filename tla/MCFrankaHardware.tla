-------------------------- MODULE MCFrankaHardware --------------------------
(***************************************************************************)
(* Small instances of FrankaHardware.                                      *)
(***************************************************************************)
EXTENDS FrankaHardware

UpTo(n) == {S \in SUBSET Interface : Cardinality(S) <= n}

Req(start, stop, startPart, stopPart) ==
  [start |-> start, stop |-> stop, startPart |-> startPart, stopPart |-> stopPart]

(* One type, or an elbow with its Cartesian interface, or two motion types *)
(* of two controllers, with at most one type named in part; and the one    *)
(* request for everything.                                                 *)
Group ==
  {S \in UpTo(1) : "velocity" \notin S}
    \cup {{"elbow_command", i} : i \in Cartesian} \cup {{"effort", "position"}}

AllRequests ==
  {Req(start, stop, {}, {}) : start \in Group, stop \in Group}
    \cup {Req(start, {}, {i}, {}) :
            start \in Group, i \in {"effort", "cartesian_pose_command"}}
    \cup {Req({}, stop, {}, {i}) : stop \in Group, i \in {"position"}}
    \cup {Req(Interface, {}, {}, {})}

(* A robot description with one joint type, so that requests for efforts   *)
(* name interfaces the hardware does not export.                           *)
OneJointType == Interface \ {"velocity", "effort"}

AllowedRequests == {r \in AllRequests :
  r.start \cap r.startPart = {} /\ r.stop \cap r.stopPart = {}}

CompleteRequests ==
  {Req(start, stop, {}, {}) : start \in UpTo(2), stop \in UpTo(3)}

=============================================================================
