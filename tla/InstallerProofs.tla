---------------------------- MODULE InstallerProofs ----------------------------
(***************************************************************************)
(* Proofs about Installer, for any device nodes and dialogs.               *)
(***************************************************************************)
EXTENDS Installer, TLAPS

(* In an installation the product is absent; in an update there is a node, *)
(* after it the driver is whole. *)
Whole ==
  /\ package = [key |-> TRUE, inf |-> TRUE, image |-> TRUE]
  /\ Present # {}
  /\ \A n \in Present : nodes[n] = "driven"

Empty == package = [key |-> FALSE, inf |-> FALSE, image |-> FALSE]

InstallOK ==
  /\ msi.at \in InstallPlaces => product = "absent" /\ ~ msi.result
  /\ msi.at = "update" => Present # {}
  /\ msi.at = "services" => Whole
  /\ ~ unsure /\ msi.at = "create" => Present = {}

(* What a session has seen holds until a node is made. *)
SetupOK == \A s \in Sessions : setup[s] = "checked" => Present = {}

(* The key goes first: as long as it is there, so is the rest. *)
PackageOK ==
  /\ package.key => package.inf /\ package.image
  /\ msi.at \in {"node", "key"} => package.key
  /\ msi.at \in {"inf", "image"} => ~ package.key
  /\ msi.at = "image" => ~ package.inf
  /\ msi.at \in {"node", "key", "inf"} =>
       /\ package.inf /\ package.image
       /\ msi.path \in {"written", "enumFailed"}

(* A removal has succeeded for a node, and the last one, only if it has    *)
(* removed the package; what follows an installation that failed finds no  *)
(* node. *)
RemovalOK ==
  /\ msi.result => Empty /\ msi.at \in {"scan", "lookup"}
  /\ msi.for = "none" <=> msi.at \in {"idle"} \cup InstallPlaces
  /\ msi.for = "rollback" => product = "absent" /\ ~ msi.result /\ msi.left = {}
                             /\ msi.at = "scan"
  /\ msi.at = "idle" => msi = Idle

IInv ==
  /\ TypeOK /\ InstallOK /\ SetupOK /\ PackageOK /\ RemovalOK
  /\ OneNodeIfChecked /\ InstalledIsWhole

-----------------------------------------------------------------------------
Places == {"idle", "scan"} \cup InstallPlaces \cup RemovalSteps
MsiTypes ==
  [at : Places, for : {"none", "uninstall", "rollback"}, left : SUBSET Nodes,
   node : Nodes \cup {None}, path : InfPaths, result : BOOLEAN]

LEMMA IdleType == Idle \in MsiTypes
BY DEF Idle, MsiTypes, Places, InfPaths

LEMMA InitIInv == Init => IInv
<1> SUFFICES ASSUME Init PROVE IInv
  OBVIOUS
<1>1. TypeOK
  <2>1. msi \in MsiTypes
    BY IdleType DEF Init
  <2>2. (msi.at \in RemovalSteps) = (msi.node # None)
    BY DEF Init, Idle, RemovalSteps
  <2>3. package \in [key : BOOLEAN, inf : BOOLEAN, image : BOOLEAN]
    BY DEF Init
  <2> QED
    BY <2>1, <2>2, <2>3 DEF Init, TypeOK, MsiTypes, Places
<1>2. InstallOK /\ SetupOK /\ PackageOK
  BY DEF Init, InstallOK, SetupOK, PackageOK, Idle, InstallPlaces
<1>3. RemovalOK
  BY DEF Init, RemovalOK, Idle
<1>4. OneNodeIfChecked /\ InstalledIsWhole
  BY DEF Init, OneNodeIfChecked, InstalledIsWhole, Present
<1> QED
  BY <1>1, <1>2, <1>3, <1>4 DEF IInv

(* What the operators on msi do to its fields. *)
LEMMA Gone ==
  ASSUME msi \in MsiTypes, NEW at \in Places, Go(at)
  PROVE  /\ msi' \in MsiTypes
         /\ msi'.at = at /\ msi'.for = msi.for /\ msi'.left = msi.left
         /\ msi'.node = msi.node /\ msi'.path = msi.path /\ msi'.result = msi.result
BY DEF Go, MsiTypes

LEMMA Removing ==
  ASSUME NEW why \in {"uninstall", "rollback"}, NEW id, Uninstall(why, id)
  PROVE  /\ msi' \in MsiTypes
         /\ msi'.at = "scan" /\ msi'.for = why /\ msi'.left = WithHardwareId(id)
         /\ msi'.node = None /\ msi'.result = FALSE
<1>1. WithHardwareId(id) \subseteq Nodes
  BY DEF WithHardwareId, Present
<1> QED
  BY <1>1 DEF Uninstall, MsiTypes, Idle, Places, InfPaths

LEMMA Returned ==
  ASSUME msi \in MsiTypes, NEW b \in BOOLEAN, Return(b)
  PROVE  /\ msi' \in MsiTypes
         /\ msi'.at = "scan" /\ msi'.for = msi.for /\ msi'.left = msi.left
         /\ msi'.node = None /\ msi'.result = b
BY DEF Return, MsiTypes, Places, InfPaths

-----------------------------------------------------------------------------
(* The parts of IInv that a step must bring about, given the types. *)
Rest == InstallOK /\ SetupOK /\ PackageOK /\ RemovalOK /\ OneNodeIfChecked
        /\ InstalledIsWhole

SetupStates == {"closed", "checked", "unsure"}

LEMMA InstallTypes ==
  ASSUME TypeOK,
         \/ \E s \in Sessions : OpenSetup(s) \/ CancelSetup(s) \/ StartInstall(s)
         \/ StartQuietInstall
         \/ InstallStep
         \/ StartUninstall
  PROVE  TypeOK'
<1> USE DEF InstallPlaces, RemovalSteps
<1>0. msi \in MsiTypes /\ None \notin Nodes
  BY InstallerAssumption DEF TypeOK, MsiTypes, Places
<1>1. ASSUME msi' \in MsiTypes, msi'.at \notin RemovalSteps, msi'.node = None,
             product' \in {"absent", "installed"},
             nodes' \in [Nodes -> {"none", "bare", "driven"}],
             package' \in [key : BOOLEAN, inf : BOOLEAN, image : BOOLEAN],
             setup' \in [Sessions -> SetupStates], unsure' \in BOOLEAN
      PROVE  TypeOK'
  BY <1>1 DEF TypeOK, MsiTypes, Places, SetupStates
<1>2. msi.at \notin RemovalSteps => msi.node = None
  BY DEF TypeOK
<1>s. setup \in [Sessions -> SetupStates] /\ unsure \in BOOLEAN
  BY DEF TypeOK, SetupStates
<1>3. ASSUME Execute, setup' \in [Sessions -> SetupStates], unsure' \in BOOLEAN
      PROVE  TypeOK'
  <2>1. msi.at = "idle" /\ msi.node = None
    BY <1>3 DEF Execute, Idle
  <2>2. msi' \in MsiTypes /\ msi'.at = "create" /\ msi'.node = None
    BY <1>0, <1>3, <2>1, Gone DEF Execute, Places
  <2> QED
    BY <1>1, <1>3, <2>2 DEF Execute, TypeOK
<1>9. ASSUME NEW s \in Sessions, OpenSetup(s) \/ CancelSetup(s) \/ StartInstall(s)
      PROVE  TypeOK'
  <2>1. setup' \in [Sessions -> SetupStates]
    BY <1>9, <1>s DEF OpenSetup, CancelSetup, StartInstall, SetupStates
  <2>2. CASE OpenSetup(s) \/ CancelSetup(s)
    BY <1>s, <2>1, <2>2 DEF OpenSetup, CancelSetup, TypeOK, SetupStates
  <2>3. CASE StartInstall(s)
    <3>1. unsure' \in BOOLEAN
      BY <1>s, <2>3 DEF StartInstall
    <3> QED
      BY <1>3, <2>1, <2>3, <3>1 DEF StartInstall
  <2> QED
    BY <1>9, <2>2, <2>3
<1>10. CASE StartQuietInstall
  BY <1>3, <1>s, <1>10 DEF StartQuietInstall
<1>4. ASSUME NEW n \in Nodes, RegisterDevice(n) PROVE TypeOK'
  <2>1. msi' \in MsiTypes /\ msi'.at = "update" /\ msi'.node = None
    BY <1>0, <1>2, <1>4, Gone DEF RegisterDevice, Places
  <2>2. setup' \in [Sessions -> SetupStates]
    BY <1>4, <1>s DEF RegisterDevice, SetupStates
  <2> QED
    BY <1>1, <1>4, <1>s, <2>1, <2>2 DEF RegisterDevice, TypeOK
<1>5. CASE UpdateDriver
  <2>1. msi' \in MsiTypes /\ msi'.at = "services" /\ msi'.node = None
    BY <1>0, <1>2, <1>5, Gone DEF UpdateDriver, Places
  <2> QED
    BY <1>s, <1>1, <1>5, <2>1 DEF UpdateDriver, TypeOK, uiVars
<1>6. CASE InstallEnds
  <2>1. msi' \in MsiTypes /\ msi'.at = "idle" /\ msi'.node = None
    BY <1>6, IdleType DEF InstallEnds, Idle
  <2> QED
    BY <1>s, <1>1, <1>6, <2>1 DEF InstallEnds, TypeOK, uiVars
<1>7. CASE InstallFails
  <2>1. msi' \in MsiTypes /\ msi'.at = "scan" /\ msi'.node = None
    BY <1>7, Removing DEF InstallFails
  <2>2. package' \in [key : BOOLEAN, inf : BOOLEAN, image : BOOLEAN]
    BY <1>7 DEF InstallFails, TypeOK
  <2> QED
    BY <1>s, <1>1, <1>7, <2>1, <2>2 DEF InstallFails, TypeOK, uiVars
<1>8. CASE StartUninstall
  <2>1. msi' \in MsiTypes /\ msi'.at = "scan" /\ msi'.node = None
    BY <1>8, Removing DEF StartUninstall
  <2> QED
    BY <1>s, <1>1, <1>8, <2>1 DEF StartUninstall, TypeOK, uiVars
<1> QED
  BY <1>4, <1>5, <1>6, <1>7, <1>8, <1>9, <1>10 DEF InstallStep

LEMMA RemovalTypes ==
  ASSUME TypeOK, UninstallStep
  PROVE  TypeOK'
<1> USE DEF RemovalSteps
<1>0. msi \in MsiTypes /\ None \notin Nodes
  BY InstallerAssumption DEF TypeOK, MsiTypes, Places
<1>1. ASSUME msi' \in MsiTypes, (msi'.at \in RemovalSteps) = (msi'.node # None),
             product' \in {"absent", "installed"},
             nodes' \in [Nodes -> {"none", "bare", "driven"}],
             package' \in [key : BOOLEAN, inf : BOOLEAN, image : BOOLEAN],
             setup' \in [Sessions -> SetupStates], unsure' \in BOOLEAN
      PROVE  TypeOK'
  BY <1>1 DEF TypeOK, MsiTypes, Places, SetupStates
<1>2. (msi.at \in RemovalSteps) = (msi.node # None)
  BY DEF TypeOK
<1>s. setup \in [Sessions -> SetupStates] /\ unsure \in BOOLEAN
  BY DEF TypeOK, SetupStates
<1>3. ASSUME NEW n \in Nodes, NextNode(n) PROVE TypeOK'
  <2>1. msi' \in MsiTypes /\ msi'.at = "lookup" /\ msi'.node = n
    BY <1>0, <1>3 DEF NextNode, MsiTypes, Places
  <2> QED
    BY <1>0, <1>s, <1>1, <1>3, <2>1 DEF NextNode, TypeOK, uiVars
<1>4. CASE RemoveDeviceFails
  <2>1. msi' \in MsiTypes /\ msi'.at = "scan" /\ msi'.node = None
    BY <1>0, <1>4, Returned DEF RemoveDeviceFails
  <2> QED
    BY <1>s, <1>1, <1>4, <2>1 DEF RemoveDeviceFails, TypeOK, uiVars
<1>5. CASE LookUp
  <2>1. msi' \in MsiTypes /\ msi'.at = "node" /\ msi'.node = msi.node
    BY <1>0, <1>5 DEF LookUp, MsiTypes, Places, After, InfPaths
  <2> QED
    BY <1>s, <1>1, <1>2, <1>5, <2>1 DEF LookUp, TypeOK, uiVars
<1>6. CASE RemoveNode
  <2>1. msi' \in MsiTypes /\ msi'.at = "key" /\ msi'.node = msi.node
    BY <1>0, <1>6, Gone DEF RemoveNode, Places, After
  <2> QED
    BY <1>s, <1>1, <1>2, <1>6, <2>1 DEF RemoveNode, TypeOK, uiVars
<1>7. CASE DeleteKey
  <2>1. msi' \in MsiTypes /\ msi'.at = "inf" /\ msi'.node = msi.node
    BY <1>0, <1>7, Gone DEF DeleteKey, Places, After
  <2> QED
    BY <1>s, <1>1, <1>2, <1>7, <2>1 DEF DeleteKey, TypeOK, uiVars
<1>8. CASE UninstallInf
  <2>1. msi' \in MsiTypes /\ msi'.at = "image" /\ msi'.node = msi.node
    BY <1>0, <1>8, Gone DEF UninstallInf, Places, After
  <2> QED
    BY <1>s, <1>1, <1>2, <1>8, <2>1 DEF UninstallInf, TypeOK, uiVars
<1>9. CASE DeleteImage
  <2>1. msi' \in MsiTypes /\ msi'.at = "scan" /\ msi'.node = None
    BY <1>0, <1>9, Returned DEF DeleteImage
  <2>2. package' \in [key : BOOLEAN, inf : BOOLEAN, image : BOOLEAN]
    BY <1>9 DEF DeleteImage, TypeOK
  <2> QED
    BY <1>s, <1>1, <1>9, <2>1, <2>2 DEF DeleteImage, TypeOK, uiVars
<1>10. CASE ScanFails
  <2>1. msi' \in MsiTypes /\ msi'.at = msi.at /\ msi'.node = msi.node
    BY <1>0, <1>10 DEF ScanFails, MsiTypes
  <2> QED
    BY <1>s, <1>1, <1>2, <1>10, <2>1 DEF ScanFails, TypeOK, uiVars
<1>11. CASE UninstallEnds
  <2>1. msi' \in MsiTypes /\ msi'.at = "idle" /\ msi'.node = None
    BY <1>11, IdleType DEF UninstallEnds, Idle
  <2> QED
    BY <1>s, <1>1, <1>11, <2>1 DEF UninstallEnds, TypeOK, uiVars
<1>12. CASE UninstallCrashes
  <2>1. msi' \in MsiTypes /\ msi'.at = "idle" /\ msi'.node = None
    BY <1>12, IdleType DEF UninstallCrashes, Idle
  <2> QED
    BY <1>s, <1>1, <1>12, <2>1 DEF UninstallCrashes, TypeOK, uiVars
<1> QED
  BY <1>3, <1>4, <1>5, <1>6, <1>7, <1>8, <1>9, <1>10, <1>11, <1>12 DEF UninstallStep

(* Installation: the parts of IInv beside the types. *)
LEMMA InstallRest ==
  ASSUME IInv,
         \/ \E s \in Sessions : OpenSetup(s) \/ CancelSetup(s) \/ StartInstall(s)
         \/ StartQuietInstall
         \/ InstallStep
         \/ StartUninstall
  PROVE  Rest'
<1> USE DEF InstallPlaces
<1>0. msi \in MsiTypes
  BY DEF IInv, TypeOK, MsiTypes, Places
<1>1. ASSUME Execute, ~ unsure' => ~ unsure /\ Present = {},
             \A t \in Sessions : setup'[t] = "checked" => setup[t] = "checked"
      PROVE  Rest'
  <2>0. msi.at = "idle" /\ msi.for = "none" /\ msi.result = FALSE /\ msi = Idle
    BY <1>1 DEF Execute, Idle
  <2>1. /\ msi'.at = "create" /\ msi'.for = "none" /\ msi'.result = FALSE
    BY <1>0, <1>1, <2>0, Gone DEF Execute, Places
  <2>2. UNCHANGED <<product, nodes, package, Present>> /\ product = "absent"
    BY <1>1 DEF Execute, Present
  <2>4. InstallOK' /\ SetupOK'
    BY <1>1, <2>1, <2>2 DEF InstallOK, SetupOK, IInv
  <2>5. PackageOK' /\ RemovalOK'
    BY <2>1, <2>2 DEF IInv, PackageOK, RemovalOK
  <2>6. OneNodeIfChecked' /\ InstalledIsWhole'
    BY <1>1, <2>1, <2>2 DEF OneNodeIfChecked, InstalledIsWhole, Idle
  <2> QED
    BY <2>4, <2>5, <2>6 DEF Rest
<1>7. setup \in [Sessions -> SetupStates]
  BY DEF IInv, TypeOK, SetupStates
<1>8. ASSUME NEW s \in Sessions, StartInstall(s) PROVE Rest'
  <2>1. \A t \in Sessions : setup'[t] = "checked" => setup[t] = "checked"
    BY <1>7, <1>8 DEF StartInstall
  <2>2. ~ unsure' => ~ unsure /\ Present = {}
    BY <1>7, <1>8 DEF StartInstall, IInv, SetupOK, SetupStates
  <2> QED
    BY <1>1, <1>8, <2>1, <2>2 DEF StartInstall
<1>9. CASE StartQuietInstall
  BY <1>1, <1>9 DEF StartQuietInstall
<1>10. ASSUME NEW s \in Sessions, OpenSetup(s) \/ CancelSetup(s) PROVE Rest'
  <2>1. UNCHANGED <<product, nodes, package, msi, unsure, Present>>
    BY <1>10 DEF OpenSetup, CancelSetup, Present
  <2>2. SetupOK'
    <3>1. \A t \in Sessions : setup'[t] = "checked" =>
                                setup[t] = "checked" \/ Present = {}
      BY <1>7, <1>10 DEF OpenSetup, CancelSetup, CheckInstall, WithHardwareId
    <3> QED
      BY <2>1, <3>1 DEF SetupOK, IInv
  <2> QED
    BY <2>1, <2>2 DEF Rest, IInv, InstallOK, PackageOK, RemovalOK, OneNodeIfChecked,
       InstalledIsWhole, Whole, Empty
<1>2. ASSUME NEW n \in Nodes, RegisterDevice(n) PROVE Rest'
  <2>0. msi.at = "create" /\ msi.for = "none" /\ ~ msi.result /\ product = "absent"
    BY <1>2 DEF RegisterDevice, IInv, InstallOK, RemovalOK
  <2>1. /\ msi'.at = "update" /\ msi'.for = "none" /\ ~ msi'.result
        /\ msi' # Idle
    BY <1>0, <1>2, <2>0, Gone DEF RegisterDevice, Places, Idle
  <2>2. UNCHANGED <<product, package, unsure>>
    BY <1>2 DEF RegisterDevice
  <2>7. SetupOK'
    BY <1>2, <1>7 DEF RegisterDevice, SetupOK
  <2>3. Present' = Present \cup {n}
    BY <1>2 DEF RegisterDevice, Present, IInv, TypeOK
  <2>4. InstallOK'
    BY <2>0, <2>1, <2>2, <2>3 DEF InstallOK
  <2>5. PackageOK' /\ RemovalOK'
    BY <2>0, <2>1, <2>2 DEF IInv, PackageOK, RemovalOK
  <2>6. OneNodeIfChecked' /\ InstalledIsWhole'
    BY <1>2, <2>1, <2>2, <2>3
       DEF OneNodeIfChecked, InstalledIsWhole, RegisterDevice, IInv, InstallOK
  <2> QED
    BY <2>4, <2>5, <2>6, <2>7 DEF Rest
<1>3. CASE UpdateDriver
  <2>0. /\ msi.at = "update" /\ msi.for = "none" /\ ~ msi.result
        /\ product = "absent" /\ Present # {}
    BY <1>3 DEF UpdateDriver, IInv, InstallOK, RemovalOK
  <2>1. /\ msi'.at = "services" /\ msi'.for = "none" /\ ~ msi'.result
        /\ msi' # Idle
    BY <1>0, <1>3, <2>0, Gone DEF UpdateDriver, Places, Idle
  <2>2. UNCHANGED <<product, setup, unsure>>
    BY <1>3 DEF UpdateDriver, uiVars
  <2>3. Present' = Present /\ \A n \in Present : nodes'[n] = "driven"
    BY <1>3 DEF UpdateDriver, Present
  <2>4. Whole'
    BY <1>3, <2>0, <2>3 DEF Whole, UpdateDriver
  <2>5. InstallOK' /\ SetupOK'
    BY <2>0, <2>1, <2>2, <2>3, <2>4 DEF InstallOK, SetupOK, IInv
  <2>6. PackageOK' /\ RemovalOK'
    BY <2>0, <2>1, <2>2, <2>4 DEF Whole, PackageOK, RemovalOK
  <2>7. OneNodeIfChecked' /\ InstalledIsWhole'
    BY <2>1, <2>2, <2>3 DEF OneNodeIfChecked, InstalledIsWhole, IInv
  <2> QED
    BY <2>5, <2>6, <2>7 DEF Rest

<1>4. CASE InstallEnds
  <2>0. Whole /\ ~ msi.result
    BY <1>4 DEF InstallEnds, IInv, InstallOK
  <2>1. /\ msi'.at = "idle" /\ msi'.for = "none" /\ ~ msi'.result /\ msi' = Idle
        /\ UNCHANGED <<nodes, package, setup, unsure, Present>>
    BY <1>4 DEF InstallEnds, uiVars, Idle, Present
  <2>2. InstallOK' /\ SetupOK' /\ OneNodeIfChecked'
    BY <2>1 DEF InstallOK, SetupOK, OneNodeIfChecked, IInv
  <2>3. PackageOK' /\ RemovalOK'
    BY <2>0, <2>1 DEF Whole, PackageOK, RemovalOK
  <2>4. InstalledIsWhole'
    BY <2>0, <2>1 DEF Whole, InstalledIsWhole
  <2> QED
    BY <2>2, <2>3, <2>4 DEF Rest
<1>5. CASE InstallFails
  <2>1. product = "absent" /\ msi.at \in InstallPlaces
    BY <1>5 DEF InstallFails, IInv, InstallOK
  <2>2. /\ msi'.at = "scan" /\ msi'.for = "rollback" /\ ~ msi'.result
        /\ msi'.left = {}
    BY <1>5, Removing DEF InstallFails, WithHardwareId
  <2>3. msi' # Idle
    BY <2>2 DEF Idle
  <2>4. UNCHANGED <<product, nodes, setup, unsure, Present>>
    BY <1>5 DEF InstallFails, uiVars, Present
  <2>5. /\ package'.key = package.key /\ package'.image = package.image
        /\ package.inf => package'.inf
    BY <1>5 DEF InstallFails, IInv, TypeOK
  <2>6. InstallOK' /\ SetupOK' /\ OneNodeIfChecked' /\ InstalledIsWhole'
    BY <2>2, <2>3, <2>4 DEF InstallOK, SetupOK, OneNodeIfChecked, InstalledIsWhole, IInv
  <2>7. PackageOK'
    BY <2>2, <2>5 DEF PackageOK, IInv
  <2>8. RemovalOK'
    BY <2>1, <2>2, <2>4 DEF RemovalOK
  <2> QED
    BY <2>6, <2>7, <2>8 DEF Rest
<1>6. CASE StartUninstall
  <2>1. msi'.at = "scan" /\ msi'.for = "uninstall" /\ ~ msi'.result
    BY <1>6, Removing DEF StartUninstall
  <2>2. UNCHANGED <<product, nodes, package, setup, unsure, Present>> /\ msi' # Idle
    BY <1>6, <2>1 DEF StartUninstall, uiVars, Idle, Present
  <2>3. InstallOK' /\ SetupOK' /\ OneNodeIfChecked' /\ InstalledIsWhole'
    BY <2>1, <2>2 DEF InstallOK, SetupOK, OneNodeIfChecked, InstalledIsWhole, IInv
  <2>4. PackageOK' /\ RemovalOK'
    BY <2>1, <2>2 DEF PackageOK, RemovalOK, IInv
  <2> QED
    BY <2>3, <2>4 DEF Rest
<1> QED
  BY <1>2, <1>3, <1>4, <1>5, <1>6, <1>8, <1>9, <1>10 DEF InstallStep

(* Removal: a step of RemoveDevice leaves the product alone. *)
LEMMA RemovalRest ==
  ASSUME IInv, UninstallStep
  PROVE  Rest'
<1> USE DEF InstallPlaces, RemovalSteps
<1>0. msi \in MsiTypes /\ msi.at \notin InstallPlaces
  BY DEF IInv, TypeOK, MsiTypes, Places, UninstallStep, NextNode, LookUp, RemoveNode,
     DeleteKey, UninstallInf, UninstallCrashes, DeleteImage, RemoveDeviceFails, ScanFails,
     UninstallEnds
<1>1. ASSUME msi'.at \in {"scan"} \cup RemovalSteps, UNCHANGED <<setup, unsure>>,
             msi'.for = msi.for, Present' \subseteq Present, product' = product,
             msi'.left \subseteq msi.left, PackageOK',
             msi'.result => Empty' /\ msi'.at \in {"scan", "lookup"},
             msi.for = "rollback" => msi'.at = "scan" /\ ~ msi'.result
      PROVE  Rest'
  <2>1. msi.at \in {"scan"} \cup RemovalSteps
    BY DEF UninstallStep, NextNode, LookUp, RemoveNode, DeleteKey, UninstallInf,
       UninstallCrashes, DeleteImage, RemoveDeviceFails, ScanFails, UninstallEnds
  <2>2. InstallOK' /\ SetupOK' /\ OneNodeIfChecked'
    BY <1>1 DEF InstallOK, SetupOK, OneNodeIfChecked, IInv
  <2>3. InstalledIsWhole'
    BY <1>1 DEF InstalledIsWhole, Idle
  <2>4. RemovalOK'
    BY <1>1, <2>1 DEF RemovalOK, IInv
  <2> QED
    BY <1>1, <2>2, <2>3, <2>4 DEF Rest
<1>2. ASSUME NEW n \in Nodes, NextNode(n) PROVE Rest'
  <2>0. msi.at = "scan" /\ msi.for # "rollback"
    BY <1>2 DEF NextNode, IInv, RemovalOK
  <2>1. /\ msi'.at = "lookup" /\ msi'.for = msi.for /\ msi'.result = msi.result
        /\ msi'.left \subseteq msi.left
    BY <1>0, <1>2 DEF NextNode, MsiTypes
  <2>2. UNCHANGED <<product, Present, package, setup, unsure>>
    BY <1>2 DEF NextNode, uiVars, Present
  <2>3. PackageOK'
    BY <2>1, <2>2 DEF PackageOK, IInv
  <2> QED
    BY <1>1, <2>0, <2>1, <2>2, <2>3 DEF IInv, RemovalOK, Empty
<1>3. CASE RemoveDeviceFails
  <2>1. msi'.at = "scan" /\ msi'.for = msi.for /\ ~ msi'.result /\ msi'.left = msi.left
    BY <1>0, <1>3, Returned DEF RemoveDeviceFails
  <2>2. UNCHANGED <<product, Present, package, setup, unsure>>
    BY <1>3 DEF RemoveDeviceFails, uiVars, Present
  <2>3. PackageOK'
    BY <2>1, <2>2 DEF PackageOK, IInv
  <2> QED
    BY <1>1, <2>1, <2>2, <2>3
<1>4. ASSUME msi.at \in RemovalSteps PROVE msi.for # "rollback"
  BY <1>4 DEF IInv, RemovalOK
<1>5. CASE LookUp
  <2>0. msi.at = "lookup" /\ package.key /\ package.inf /\ ~ Empty
    BY <1>5 DEF LookUp, IInv, PackageOK, Empty
  <2>1. /\ msi'.at = "node" /\ msi'.for = msi.for /\ msi'.result = msi.result
        /\ msi'.left = msi.left /\ msi'.path \in {"written", "enumFailed"}
    BY <1>0, <1>5, <2>0 DEF LookUp, MsiTypes, After
  <2>2. UNCHANGED <<product, Present, package, setup, unsure>>
    BY <1>5 DEF LookUp, uiVars, Present
  <2>3. PackageOK'
    BY <2>0, <2>1, <2>2 DEF PackageOK, IInv
  <2>4. ~ msi'.result
    BY <2>0, <2>1 DEF IInv, RemovalOK
  <2> QED
    BY <1>1, <1>4, <2>0, <2>1, <2>2, <2>3, <2>4
<1>6. ASSUME msi.at \in {"node", "key", "inf", "image"} PROVE ~ msi.result
  BY <1>6 DEF IInv, RemovalOK
<1>7. CASE RemoveNode
  <2>1. /\ msi'.at = "key" /\ msi'.for = msi.for /\ msi'.result = msi.result
        /\ msi'.left = msi.left /\ msi'.path = msi.path
    BY <1>0, <1>7, Gone DEF RemoveNode, Places, After
  <2>2. UNCHANGED <<product, package, setup, unsure>> /\ Present' \subseteq Present
    BY <1>7 DEF RemoveNode, uiVars, Present, IInv, TypeOK
  <2>3. PackageOK'
    BY <1>7, <2>1, <2>2 DEF PackageOK, IInv, RemoveNode
  <2> QED
    BY <1>1, <1>4, <1>6, <1>7, <2>1, <2>2, <2>3 DEF RemoveNode
<1>8. CASE DeleteKey
  <2>1. /\ msi'.at = "inf" /\ msi'.for = msi.for /\ msi'.result = msi.result
        /\ msi'.left = msi.left /\ msi'.path = msi.path
    BY <1>0, <1>8, Gone DEF DeleteKey, Places, After
  <2>2. UNCHANGED <<product, Present, setup, unsure>> /\ ~ package'.key
    BY <1>8 DEF DeleteKey, uiVars, Present, IInv, TypeOK
  <2>3. PackageOK'
    BY <1>8, <2>1, <2>2 DEF PackageOK, IInv, DeleteKey
  <2> QED
    BY <1>1, <1>4, <1>6, <1>8, <2>1, <2>2, <2>3 DEF DeleteKey
<1>9. CASE UninstallInf
  <2>1. /\ msi'.at = "image" /\ msi'.for = msi.for /\ msi'.result = msi.result
        /\ msi'.left = msi.left
    BY <1>0, <1>9, Gone DEF UninstallInf, Places, After
  <2>2. /\ UNCHANGED <<product, Present, setup, unsure>>
        /\ ~ package'.inf /\ package'.key = package.key
    BY <1>9 DEF UninstallInf, uiVars, Present, IInv, TypeOK
  <2>3. PackageOK'
    BY <1>9, <2>1, <2>2 DEF PackageOK, IInv, UninstallInf
  <2> QED
    BY <1>1, <1>4, <1>6, <1>9, <2>1, <2>2, <2>3 DEF UninstallInf
<1>10. CASE DeleteImage
  <2>0. msi.at = "image" /\ ~ package.key /\ ~ package.inf
    BY <1>10 DEF DeleteImage, IInv, PackageOK
  <2>1. msi'.at = "scan" /\ msi'.for = msi.for /\ msi'.left = msi.left
    BY <1>0, <1>10, Returned DEF DeleteImage
  <2>2. UNCHANGED <<product, Present, setup, unsure>>
    BY <1>10 DEF DeleteImage, uiVars, Present
  <2>3. Empty'
    BY <1>10, <2>0 DEF DeleteImage, Empty, IInv, TypeOK
  <2>4. PackageOK'
    BY <2>1, <2>3 DEF PackageOK, Empty
  <2> QED
    BY <1>1, <1>4, <2>0, <2>1, <2>2, <2>3, <2>4
<1>11. CASE ScanFails
  <2>1. /\ msi'.at = "scan" /\ msi'.for = msi.for /\ msi'.result = msi.result
        /\ msi'.left = {}
    BY <1>0, <1>11 DEF ScanFails, MsiTypes
  <2>2. UNCHANGED <<product, Present, package, setup, unsure>>
    BY <1>11 DEF ScanFails, uiVars, Present
  <2>3. PackageOK'
    BY <2>1, <2>2 DEF PackageOK, IInv
  <2> QED
    BY <1>1, <2>1, <2>2, <2>3 DEF IInv, RemovalOK, Empty
<1>12. CASE UninstallEnds
  <2>1. /\ msi' = Idle /\ msi'.at = "idle" /\ msi'.for = "none" /\ ~ msi'.result
        /\ UNCHANGED <<nodes, package, setup, unsure, Present>>
    BY <1>12 DEF UninstallEnds, uiVars, Idle, Present
  <2>2. InstallOK' /\ SetupOK' /\ OneNodeIfChecked'
    BY <2>1 DEF InstallOK, SetupOK, OneNodeIfChecked, IInv
  <2>3. PackageOK' /\ RemovalOK'
    BY <2>1 DEF PackageOK, RemovalOK, IInv
  <2>4. ASSUME product' = "installed" PROVE Empty'
    <3>1. product = "installed" /\ (msi.for # "uninstall" \/ msi.result)
      BY <1>12, <2>4 DEF UninstallEnds
    <3>2. msi.for = "uninstall"
      BY <1>0, <1>12, <3>1 DEF UninstallEnds, IInv, RemovalOK, MsiTypes
    <3> QED
      BY <2>1, <3>1, <3>2 DEF IInv, RemovalOK, Empty
  <2>5. InstalledIsWhole'
    BY <2>4 DEF InstalledIsWhole, Empty
  <2> QED
    BY <2>2, <2>3, <2>5 DEF Rest
<1>13. CASE UninstallCrashes
  <2>0. msi.at = "inf" /\ ~ package.key /\ package.inf
    BY <1>13 DEF UninstallCrashes, IInv, PackageOK
  <2>1. /\ msi' = Idle /\ msi'.at = "idle" /\ msi'.for = "none" /\ ~ msi'.result
        /\ UNCHANGED <<product, nodes, package, setup, unsure, Present>>
    BY <1>13 DEF UninstallCrashes, Idle, Present, uiVars
  <2>2. InstallOK' /\ SetupOK' /\ OneNodeIfChecked'
    BY <2>1 DEF InstallOK, SetupOK, OneNodeIfChecked, IInv
  <2>3. PackageOK' /\ RemovalOK'
    BY <2>1 DEF PackageOK, RemovalOK, IInv
  <2>4. package.image
    BY <2>0 DEF IInv, PackageOK
  <2>5. InstalledIsWhole'
    BY <2>0, <2>1, <2>4 DEF InstalledIsWhole, IInv, TypeOK
  <2> QED
    BY <2>2, <2>3, <2>5 DEF Rest
<1> QED
  BY <1>2, <1>3, <1>5, <1>7, <1>8, <1>9, <1>10, <1>11, <1>12, <1>13 DEF UninstallStep

LEMMA Invariant == Spec => []IInv
<1>1. IInv /\ [Next]_vars => IInv'
  <2> SUFFICES ASSUME IInv, [Next]_vars PROVE IInv'
    OBVIOUS
  <2>1. CASE UNCHANGED vars
    BY <2>1 DEF vars, IInv, TypeOK, InstallOK, SetupOK, PackageOK, RemovalOK, OneNodeIfChecked,
       InstalledIsWhole, Whole, Empty, Present
  <2>2. ASSUME TypeOK', Rest' PROVE IInv'
    BY <2>2 DEF Rest, IInv
  <2>3. TypeOK
    BY DEF IInv
  <2> QED
    BY <2>1, <2>2, <2>3, InstallTypes, RemovalTypes, InstallRest, RemovalRest DEF Next
<1> QED
  BY <1>1, InitIInv, PTL DEF Spec

-----------------------------------------------------------------------------
(* Every variable has its type; a node is being removed exactly in the     *)
(* steps of RemoveDevice. *)
THEOREM TypeCorrect == Spec => []TypeOK
BY Invariant, PTL DEF IInv

(* When RemoveDevice comes to uninstall the INF it is there, and InfPath   *)
(* was written or SetupDiEnumDriverInfo failed, whatever earlier           *)
(* installations and removals have left behind. *)
THEOREM InfCorrect == Spec => []InfIsFound
<1>1. IInv => InfIsFound
  BY DEF IInv, PackageOK, InfIsFound
<1> QED
  BY <1>1, Invariant, PTL

(* A second node is made only by an installation for which nobody looked,  *)
(* or after whose look another one made a node, however many dialogs are   *)
(* open and whichever installations and removals fail in between. *)
THEOREM OneNode == Spec => []OneNodeIfChecked
BY Invariant, PTL DEF IInv

(* A product that is installed has its driver whole, or nothing of its     *)
(* package, or all but the key where a removal died of an InfPath nobody   *)
(* wrote: no order of failures leaves it any other part. *)
THEOREM WholeOrNothing == Spec => []InstalledIsWhole
BY Invariant, PTL DEF IInv
=============================================================================
