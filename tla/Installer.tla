------------------------------ MODULE Installer -------------------------------
(***************************************************************************)
(* Installing and removing the driver: the custom actions of ca/ca.cpp and *)
(* their sequence in vdisksetup/Product.wxs.                               *)
(*                                                                         *)
(* Windows Installer executes one installation at a time; the dialogs that *)
(* come before it, with the check for the driver, may be open several      *)
(* times.  Whether the product is installed is seen anew by the execution. *)
(* Any call a custom action makes may fail; what was done before stays     *)
(* done.  Of the installer's own actions those after InstallDriver may     *)
(* fail and roll the installation back; those of a removal do not fail.    *)
(*                                                                         *)
(* A device node is "bare" until UpdateDriverForPlugAndPlayDevices finds   *)
(* it, then "driven".  The driver package is what that call installs once  *)
(* for all nodes: the key of the driver's service, the INF in Windows'     *)
(* directory, and the image the key names.                                 *)
(***************************************************************************)
CONSTANTS
  Nodes,     \* the device nodes root\umdisk that can be made
  Sessions,  \* the dialogs of the setup that may be open at a time
  None       \* no node

ASSUME InstallerAssumption == None \notin Nodes

VARIABLES
  product,    \* "absent" or "installed", as Windows Installer has it
  nodes,      \* [Nodes -> {"none", "bare", "driven"}]
  package,    \* [key, inf, image : BOOLEAN]
  msi,        \* the installation or removal under way, see Idle
  setup,      \* [Sessions -> {"closed", "checked", "unsure"}], the dialogs
  unsure      \* history: an installation ran of which nobody knew whether
              \* there was a node

vars == <<product, nodes, package, msi, setup, unsure>>
uiVars == <<setup, unsure>>

InstallPlaces == {"create", "update", "services"}
RemovalSteps == {"lookup", "node", "key", "inf", "image"}

(* InfPath after GetDriverInfPath: written, or left as it was because the  *)
(* list of drivers is empty, or could not be enumerated. *)
InfPaths == {"unset", "written", "noDriver", "enumFailed"}

(* at: the step to come; for: what the custom action Uninstall runs for;   *)
(* left: the nodes it has yet to visit, node: the one it removes; path:    *)
(* InfPath; result: bResult of UninstallDriver. *)
Idle == [at |-> "idle", for |-> "none", left |-> {}, node |-> None,
         path |-> "unset", result |-> FALSE]

(* Enumeration by hardware id. *)
Present == {n \in Nodes : nodes[n] # "none"}
WithHardwareId(id) == IF id = "" THEN {} ELSE Present

Init ==
  /\ product = "absent"
  /\ nodes = [n \in Nodes |-> "none"]
  /\ package = [key |-> FALSE, inf |-> FALSE, image |-> FALSE]
  /\ msi = Idle
  /\ setup = [s \in Sessions |-> "closed"]
  /\ unsure = FALSE

Go(at) == msi' = [msi EXCEPT !.at = at]

(* Mutant: bResult starts as TRUE. *)
UninstallTrue(why, id) ==
  msi' = [Idle EXCEPT !.at = "scan", !.for = why, !.left = WithHardwareId(id),
                      !.result = TRUE]

(* Run the custom action Uninstall, given its CustomActionData. *)
Uninstall(why, id) ==
  msi' = [Idle EXCEPT !.at = "scan", !.for = why, !.left = WithHardwareId(id)]

-----------------------------------------------------------------------------
(* Installation.                                                           *)

(* Mutant: a node without a driver does not count. *)
CheckInstallDriven == \A n \in Nodes : nodes[n] # "driven"

(* CheckInstall and the launch condition. *)
CheckInstall == WithHardwareId("root\\umdisk") = {}

(* InstallUISequence of session s up to the launch condition: CheckInstall *)
(* finds no node, or does not find out because it cannot list them.        *)
OpenSetup(s) ==
  /\ setup[s] = "closed"
  /\ product = "absent"
  /\ \/ CheckInstall /\ setup' = [setup EXCEPT ![s] = "checked"]
     \/ setup' = [setup EXCEPT ![s] = "unsure"]
  /\ UNCHANGED <<product, nodes, package, msi, unsure>>

(* The dialogs are cancelled. *)
CancelSetup(s) ==
  /\ setup[s] # "closed"
  /\ setup' = [setup EXCEPT ![s] = "closed"]
  /\ UNCHANGED <<product, nodes, package, msi, unsure>>

(* InstallExecuteSequence, in which nobody looks again. *)
Execute ==
  /\ msi = Idle
  /\ product = "absent"
  /\ Go("create")
  /\ UNCHANGED <<product, nodes, package>>

StartInstall(s) ==
  /\ setup[s] # "closed"
  /\ Execute
  /\ setup' = [setup EXCEPT ![s] = "closed"]
  /\ unsure' = (unsure \/ setup[s] = "unsure")

(* Without dialogs nobody looks at all. *)
StartQuietInstall ==
  /\ Execute
  /\ unsure' = TRUE
  /\ UNCHANGED setup

(* InstallDriver up to DIF_REGISTERDEVICE.  What the other sessions have   *)
(* seen no longer holds.                                                   *)
RegisterDevice(n) ==
  /\ msi.at = "create"
  /\ nodes[n] = "none"
  /\ nodes' = [nodes EXCEPT ![n] = "bare"]
  /\ Go("update")
  /\ setup' = [s \in Sessions |-> IF setup[s] = "checked" THEN "unsure"
                                                          ELSE setup[s]]
  /\ UNCHANGED <<product, package, unsure>>

(* UpdateDriverForPlugAndPlayDevices: every node of the id gets the driver. *)
UpdateDriver ==
  /\ msi.at = "update"
  /\ nodes' = [n \in Nodes |-> IF n \in Present THEN "driven" ELSE "none"]
  /\ package' = [key |-> TRUE, inf |-> TRUE, image |-> TRUE]
  /\ Go("services")
  /\ UNCHANGED <<product, uiVars>>

InstallEnds ==
  /\ msi.at = "services"
  /\ product' = "installed"
  /\ msi' = Idle
  /\ UNCHANGED <<nodes, package, uiVars>>

(* InstallDriver fails, perhaps having copied the INF, or a later action   *)
(* does.  InstallDriverRollback runs Uninstall, but nothing has given it   *)
(* the property of its name: its CustomActionData is empty. *)
InstallFails ==
  /\ msi.at \in InstallPlaces
  /\ \E copied \in BOOLEAN :
       /\ copied => msi.at = "update"
       /\ package' = [package EXCEPT !.inf = @ \/ copied]
  /\ Uninstall("rollback", "")
  /\ UNCHANGED <<product, nodes, uiVars>>

-----------------------------------------------------------------------------
(* Removal.                                                                *)

StartUninstall ==
  /\ msi = Idle
  /\ product = "installed"
  /\ Uninstall("uninstall", "root\\umdisk")
  /\ UNCHANGED <<product, nodes, package, uiVars>>

(* UninstallDriver comes to the next node with the device's id. *)
NextNode(n) ==
  /\ msi.at = "scan"
  /\ n \in msi.left
  /\ msi' = [msi EXCEPT !.at = "lookup", !.node = n, !.left = @ \ {n}]
  /\ UNCHANGED <<product, nodes, package, uiVars>>

(* RemoveDevice returns to UninstallDriver, which keeps the last result. *)
Return(b) ==
  msi' = [msi EXCEPT !.at = "scan", !.node = None, !.path = "unset", !.result = b]

(* Mutant: the node that was being removed is not let go of. *)
RemoveDeviceFailsAgain ==
  /\ msi.at \in RemovalSteps
  /\ msi' = [msi EXCEPT !.at = "scan", !.path = "unset", !.result = FALSE]
  /\ UNCHANGED <<product, nodes, package, uiVars>>

(* A call of RemoveDevice fails, and with it RemoveDevice. *)
RemoveDeviceFails ==
  /\ msi.at \in RemovalSteps
  /\ Return(FALSE)
  /\ UNCHANGED <<product, nodes, package, uiVars>>

(* Mutant: the INF is removed before the key. *)
AfterInfFirst(step) == [lookup |-> "node", node |-> "inf", inf |-> "key",
                        key |-> "image", image |-> "scan"][step]

(* The order of the steps of RemoveDevice. *)
After(step) == [lookup |-> "node", node |-> "key", key |-> "inf",
                inf |-> "image", image |-> "scan"][step]

(* GetServiceName, GetDriverInfPath, GetDriverImagePath: a bare node has   *)
(* no service, and no key has no image.  GetDriverInfPath also succeeds    *)
(* without writing InfPath: if the list of drivers is empty because the    *)
(* INF is gone, and if SetupDiEnumDriverInfo fails at its first call.      *)
LookUp ==
  /\ msi.at = "lookup"
  /\ nodes[msi.node] = "driven"
  /\ package.key
  /\ \E path \in {IF package.inf THEN "written" ELSE "noDriver", "enumFailed"} :
       msi' = [msi EXCEPT !.at = After("lookup"), !.path = path]
  /\ UNCHANGED <<product, nodes, package, uiVars>>

(* DIF_REMOVE. *)
RemoveNode ==
  /\ msi.at = "node"
  /\ nodes' = [nodes EXCEPT ![msi.node] = "none"]
  /\ Go(After("node"))
  /\ UNCHANGED <<product, package, uiVars>>

(* SHDeleteKey. *)
DeleteKey ==
  /\ msi.at = "key"
  /\ package.key
  /\ package' = [package EXCEPT !.key = FALSE]
  /\ Go(After("key"))
  /\ UNCHANGED <<product, nodes, uiVars>>

(* SetupUninstallOEMInf.  An InfPath that was not written may still name   *)
(* the INF: it is where the last node's was on the stack.                  *)
UninstallInf ==
  /\ msi.at = "inf"
  /\ package.inf
  /\ package' = [package EXCEPT !.inf = FALSE]
  /\ Go(After("inf"))
  /\ UNCHANGED <<product, nodes, uiVars>>

(* Or there is no backslash in it and strrchr's NULL is used: the process  *)
(* of the custom action dies, which rolls the removal of the product back. *)
UninstallCrashes ==
  /\ msi.at = "inf"
  /\ msi.path # "written"
  /\ msi' = Idle
  /\ UNCHANGED <<product, nodes, package, uiVars>>

(* Mutant: whether the image could be deleted does not matter. *)
DeleteImageAnyway ==
  /\ msi.at = "image"
  /\ \E b \in BOOLEAN : package' = [package EXCEPT !.image = @ /\ b]
  /\ Return(TRUE)
  /\ UNCHANGED <<product, nodes, uiVars>>

(* DeleteFile, the last step. *)
DeleteImage ==
  /\ msi.at = "image"
  /\ package.image
  /\ package' = [package EXCEPT !.image = FALSE]
  /\ Return(TRUE)
  /\ UNCHANGED <<product, nodes, uiVars>>

(* SetupDiGetClassDevs or SetupDiEnumDeviceInfo fails. *)
ScanFails ==
  /\ msi.at = "scan"
  /\ msi' = [msi EXCEPT !.left = {}]
  /\ UNCHANGED <<product, nodes, package, uiVars>>

(* Uninstall returns bResult as its exit code.  To Windows Installer TRUE  *)
(* is an error and FALSE is ERROR_SUCCESS: a removal of the last node that *)
(* succeeded rolls the removal of the product back.  The exit code of a    *)
(* rollback action is ignored. *)
UninstallEnds ==
  /\ msi.at = "scan"
  /\ msi.left = {}
  /\ product' = IF msi.for = "uninstall" /\ ~ msi.result THEN "absent" ELSE product
  /\ msi' = Idle
  /\ UNCHANGED <<nodes, package, uiVars>>

-----------------------------------------------------------------------------
InstallStep ==
  \/ \E n \in Nodes : RegisterDevice(n)
  \/ UpdateDriver \/ InstallEnds \/ InstallFails

UninstallStep ==
  \/ \E n \in Nodes : NextNode(n)
  \/ LookUp \/ RemoveNode \/ DeleteKey \/ UninstallInf \/ DeleteImage
  \/ RemoveDeviceFails \/ UninstallCrashes \/ ScanFails \/ UninstallEnds

Next ==
  \/ \E s \in Sessions : OpenSetup(s) \/ CancelSetup(s) \/ StartInstall(s)
  \/ StartQuietInstall
  \/ StartUninstall
  \/ InstallStep
  \/ UninstallStep

Spec == Init /\ [][Next]_vars

(* Windows Installer goes on with what it does; the administrator asks for *)
(* the removal of the product until it is gone. *)
FairSpec ==
  /\ Spec
  /\ WF_vars(InstallStep)
  /\ WF_vars(\E n \in Nodes : NextNode(n))
  /\ WF_vars(LookUp \/ RemoveNode \/ DeleteKey \/ UninstallInf \/ DeleteImage
             \/ RemoveDeviceFails \/ UninstallCrashes \/ UninstallEnds)
  /\ WF_vars(StartUninstall)

-----------------------------------------------------------------------------
(* Properties.                                                             *)

(* Every variable has its type; a node is being removed in the steps of    *)
(* RemoveDevice and at no other time. *)
TypeOK ==
  /\ product \in {"absent", "installed"}
  /\ nodes \in [Nodes -> {"none", "bare", "driven"}]
  /\ package \in [key : BOOLEAN, inf : BOOLEAN, image : BOOLEAN]
  /\ msi \in [at : {"idle", "scan"} \cup InstallPlaces \cup RemovalSteps,
              for : {"none", "uninstall", "rollback"}, left : SUBSET Nodes,
              node : Nodes \cup {None}, path : InfPaths, result : BOOLEAN]
  /\ (msi.at \in RemovalSteps) = (msi.node # None)
  /\ setup \in [Sessions -> {"closed", "checked", "unsure"}]
  /\ unsure \in BOOLEAN

(* When RemoveDevice comes to uninstall the INF it is there, and InfPath   *)
(* was written unless SetupDiEnumDriverInfo itself failed: never is the    *)
(* path unwritten because an earlier removal that stopped half-way, of     *)
(* this node or another, has left a node whose INF is gone.  The key of    *)
(* the service going before the INF sees to that. *)
InfIsFound ==
  msi.at = "inf" => package.inf /\ msi.path \in {"written", "enumFailed"}

(* There is one node at most as long as no installation was executed for   *)
(* which nobody had looked, or after whose look another one made a node.   *)
(* The check is no more than that: two dialogs open at a time may both     *)
(* pass it, and if the first installation is rolled back the second one    *)
(* makes a second node. *)
OneNodeIfChecked ==
  ~ unsure => \A m, n \in Present : m = n

(* When nothing is under way, a product that is installed has its driver   *)
(* whole, on a node and on every node, or has nothing of the package, left *)
(* by a removal that was rolled back.  A part of it remains only where the *)
(* removal died of an InfPath that was not written: all but the key. *)
InstalledIsWhole ==
  msi = Idle /\ product = "installed" =>
    \/ /\ package = [key |-> TRUE, inf |-> TRUE, image |-> TRUE]
       /\ Present # {}
       /\ \A n \in Present : nodes[n] = "driven"
    \/ package = [key |-> FALSE, inf |-> FALSE, image |-> FALSE]
    \/ package = [key |-> FALSE, inf |-> TRUE, image |-> TRUE]

(* Although a removal that succeeds is undone and has to be asked for      *)
(* again, one that asks often enough gets rid of the product. *)
ProductCanBeRemoved == product = "installed" ~> product = "absent"
=============================================================================
