------------------------- MODULE ResourceQuotaListSdk -------------------------
(***************************************************************************)
(* The generated Go SDK constructor and getter of core/v1 ResourceQuotaList *)
(* (sdk/go/kubernetes/core/v1/resourceQuotaList.go).                        *)
(*                                                                         *)
(* A program calls NewResourceQuotaList and GetResourceQuotaList with      *)
(* names from a small set.  The Pulumi engine (not under src/, modelled    *)
(* from its interface) registers or reads a resource under a fresh name,   *)
(* refuses a name already taken, and may fail any registration or read.    *)
(***************************************************************************)
EXTENDS Naturals

CONSTANTS
  Names,      \* the resource names a program uses
  MaxCalls    \* bound on the calls a program makes

\* The args a program passes: a nil *ResourceQuotaListArgs, or a struct
\* whose Items is nil or a list and whose ApiVersion and Kind the caller may
\* have left unset or set to anything.
NilArgs == [items |-> "nilArgs", apiVersion |-> "nilArgs", kind |-> "nilArgs"]
ArgsValues ==
  {NilArgs} \cup [items: {"nil", "list"}, apiVersion: {"unset", "v1", "v2"},
                  kind: {"unset", "ResourceQuota", "ResourceQuotaList"}]

Absent == [items |-> "absent", apiVersion |-> "absent", kind |-> "absent"]

VARIABLES
  resources,  \* the engine's state: name -> the inputs registered, or Absent
  ret,        \* what the program's last call returned
  calls       \* the calls made so far

sdkVars == <<resources, ret, calls>>

Errors == {"missingArgs", "invalidItems", "registerFailed", "readFailed"}

Init ==
  /\ resources = [n \in Names |-> Absent]
  /\ ret = "none"
  /\ calls = 0

\* ctx.RegisterResource: the engine registers the inputs under a name not
\* yet taken, or fails (a duplicate name, or any engine error).
RegisterResource(name, inputs) ==
  \/ /\ resources[name] = Absent
     /\ resources' = [resources EXCEPT ![name] = inputs]
     /\ ret' = "resource"
  \/ /\ resources' = resources
     /\ ret' = "registerFailed"

\* NewResourceQuotaList: nil args and nil Items are refused before anything
\* is registered; otherwise ApiVersion and Kind are overwritten with the
\* list's own and the args are registered.
NewResourceQuotaList(name, args) ==
  /\ calls < MaxCalls
  /\ calls' = calls + 1
  /\ \/ args = NilArgs /\ ret' = "missingArgs" /\ UNCHANGED resources
     \/ /\ args # NilArgs
        /\ args.items = "nil"
        /\ ret' = "invalidItems"
        /\ UNCHANGED resources
     \/ /\ args # NilArgs
        /\ args.items # "nil"
        /\ RegisterResource(name, [args EXCEPT !.apiVersion = "v1",
                                               !.kind = "ResourceQuotaList"])

\* The live ResourceQuotaList the engine reads from the cluster by its ID.
LiveList == [items |-> "list", apiVersion |-> "v1", kind |-> "ResourceQuotaList"]

\* GetResourceQuotaList: ctx.ReadResource adopts the live object under the
\* name (a name already taken, or a missing ID, is an error, returned as
\* is).
GetResourceQuotaList(name) ==
  /\ calls < MaxCalls
  /\ calls' = calls + 1
  /\ \/ RegisterResource(name, LiveList)
     \/ ret' = "readFailed" /\ UNCHANGED resources

Next ==
  \/ \E n \in Names, a \in ArgsValues : NewResourceQuotaList(n, a)
  \/ \E n \in Names : GetResourceQuotaList(n)

Spec == Init /\ [][Next]_sdkVars
=============================================================================
