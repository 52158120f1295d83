------------------------------ MODULE TlsFiles ------------------------------
(***************************************************************************)
(* The certificate and its key: GetCert() and CreateTLSFile() of tls.go,   *)
(* which main() runs before anything listens, in a process that may be     *)
(* killed at any step and is started again over the files it left.  Every  *)
(* error of a file operation is dropped: the next step is made regardless. *)
(***************************************************************************)
EXTENDS Integers

CONSTANT MaxBoot    \* bound: starts of the process

ASSUME TlsAssumption == MaxBoot \in Nat \ {0}

Absent == 0
Torn == -1          \* created, and not written to its end

VARIABLES
  boot,     \* what main() does, "served" once GetCert() has returned
  after,    \* where CreateTLSFile() returns to
  nboot,    \* starts so far
  made,     \* key pairs made so far, one of them before the first start
  cert,     \* Config.Tls.Cert: absent, torn, or of which pair
  key,      \* Config.Tls.Key, likewise
  faults    \* what went wrong in CreateTLSFile() so far, a history variable

files == <<cert, key>>
tvars == <<boot, after, nboot, made, files, faults>>

BootPc == {"down", "statCert", "statKey", "removeCert", "removeKey", "generate",
           "createCert", "writeCert", "createKey", "writeKey", "served"}

TlsTypeOK ==
  /\ boot \in BootPc /\ after \in {"statKey", "served"}
  /\ nboot \in 1 .. MaxBoot /\ made \in Nat
  /\ cert \in {Absent, Torn} \cup 1 .. made /\ key \in {Absent, Torn} \cup 1 .. made
  /\ faults \subseteq {"remove", "create", "write", "kill"}

(* The first start finds no certificate.  A key may be there: an operator  *)
(* who takes the certificate away gets a new one.                          *)
TlsInit ==
  /\ boot = "statCert" /\ after = "statKey" /\ nboot = 1 /\ made = 1
  /\ cert = Absent /\ key \in {Absent, made} /\ faults = {}

BootGoto(at, next) == boot = at /\ boot' = next /\ UNCHANGED nboot

(* GetCert(): os.Stat only says whether there is a file.                   *)
StatCert ==
  /\ BootGoto("statCert", IF cert = Absent THEN "removeCert" ELSE "statKey")
  /\ after' = "statKey"
  /\ UNCHANGED <<made, files, faults>>

StatKey_Trusts ==                         \* mutant: where there is a certificate there is a key
  /\ BootGoto("statKey", "served")
  /\ after' = "served"
  /\ UNCHANGED <<made, files, faults>>

StatKey ==
  /\ BootGoto("statKey", IF key = Absent THEN "removeCert" ELSE "served")
  /\ after' = "served"
  /\ UNCHANGED <<made, files, faults>>

(* A file operation f goes on from `at' to `next', whatever it returned.   *)
Fault(f) == faults' = faults \cup {f}
NoFault == UNCHANGED faults
FileStep(at, next) == BootGoto(at, next) /\ UNCHANGED <<after, made>>

RemoveCert ==
  /\ FileStep("removeCert", "removeKey") /\ UNCHANGED key
  /\ (cert' = Absent /\ NoFault) \/ (cert # Absent /\ cert' = cert /\ Fault("remove"))

RemoveKey_Keeps == FileStep("removeKey", "generate") /\ UNCHANGED files /\ NoFault        \* mutant

RemoveKey ==
  /\ FileStep("removeKey", "generate") /\ UNCHANGED cert
  /\ (key' = Absent /\ NoFault) \/ (key # Absent /\ key' = key /\ Fault("remove"))

(* It asks another site for its address first, and waits for the answer.   *)
Generate == BootGoto("generate", "createCert") /\ made' = made + 1 /\ UNCHANGED <<after, files, faults>>

(* os.Create truncates; when it fails, Encode has no file to write to and  *)
(* what was there stays.  An Encode that fails leaves a part.              *)
CreateCert ==
  /\ UNCHANGED key
  /\ \/ FileStep("createCert", "writeCert") /\ cert' = Torn /\ NoFault
     \/ FileStep("createCert", "createKey") /\ cert' = cert /\ Fault("create")
WriteCert ==
  /\ FileStep("writeCert", "createKey") /\ UNCHANGED key
  /\ (cert' = made /\ NoFault) \/ (cert' = Torn /\ Fault("write"))
CreateKey ==
  /\ UNCHANGED cert
  /\ \/ FileStep("createKey", "writeKey") /\ key' = Torn /\ NoFault
     \/ FileStep("createKey", after) /\ key' = key /\ Fault("create")
WriteKey ==
  /\ FileStep("writeKey", after) /\ UNCHANGED cert
  /\ (key' = made /\ NoFault) \/ (key' = Torn /\ Fault("write"))

GetCert == \/ StatCert \/ StatKey \/ RemoveCert \/ RemoveKey \/ Generate
           \/ CreateCert \/ WriteCert \/ CreateKey \/ WriteKey

(* A kill between Create and Encode leaves what was created.               *)
Kill ==
  /\ boot # "down" /\ nboot < MaxBoot
  /\ boot' = "down"
  /\ IF boot \in {"writeCert", "writeKey"} THEN Fault("kill") ELSE NoFault
  /\ UNCHANGED <<after, nboot, made, files>>

Restart ==
  /\ boot = "down" /\ nboot < MaxBoot
  /\ boot' = "statCert" /\ nboot' = nboot + 1
  /\ UNCHANGED <<after, made, files, faults>>

TlsNext == GetCert \/ Kill \/ Restart

TlsSpec == TlsInit /\ [][TlsNext]_tvars

-----------------------------------------------------------------------------
(* Properties *)

Whole(f) == f \notin {Absent, Torn}

(* A certificate and a key that can both be read belong together, whatever *)
(* kills came between and whatever creation or write failed: either file   *)
(* missing renews both, and both are gone before the first is written.     *)
(* The exception is an os.Remove that failed: the old file may then stand  *)
(* beside a new one for good (tls.go:20-32, 70-71, 103-109).               *)
PairMatches == Whole(cert) /\ Whole(key) /\ "remove" \notin faults => cert = key

(* What both files are when they cannot be loaded has one of four causes:  *)
(* a torn one comes from a write that failed or from a kill between Create *)
(* and Encode, a missing one from a creation that failed, and two that do  *)
(* not match from a removal that failed.  A kill at any other step, and    *)
(* any number of restarts, do no harm.                                     *)
Loadable == Whole(cert) /\ Whole(key) /\ cert = key
Explained ==
  /\ Torn \in {cert, key} => faults \cap {"write", "kill"} # {}
  /\ Absent \in {cert, key} => "create" \in faults
  /\ PairMatches

=============================================================================
