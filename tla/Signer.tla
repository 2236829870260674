-------------------------------- MODULE Signer --------------------------------
(***************************************************************************)
(* internal/crypto/signer.go and the processes that use the key file: the  *)
(* server, which loads the key in NewWorker and rotates it in handlers of  *)
(* the admin API, and the logyctl commands verify, backup-key and          *)
(* restore-key.  A key stands for a key pair.  os.WriteFile truncates the  *)
(* file and then writes it, two steps between which a reader finds a file  *)
(* that does not decode and after which a crash leaves one.                *)
(***************************************************************************)
EXTENDS Integers, FiniteSets

CONSTANTS
  Key,       \* the key pairs that ed25519.GenerateKey may return
  Rekeyer,   \* handlers of the admin API that may rotate at the same time
  Command,   \* the logyctl commands that are run: "verify", "backup-key",
             \* "restore-key"
  NoKey,     \* no signer in memory, or no key file
  Torn       \* a key file that does not decode

ASSUME SignerAssumption ==
  /\ NoKey \notin Key /\ Torn \notin Key /\ NoKey # Torn
  /\ Command \subseteq {"verify", "backup-key", "restore-key"}

VARIABLES
  keyFile,               \* .logryph_key
  backups,               \* the contents of the .logryph_key.backup files
  privateKey, publicKey, \* the Signer of the server
  server,                \* "down", "new" or "write" (in NewSigner), or "up"
  serverKey,             \* the key NewSigner is about to write
  rot, rotKey,           \* each rotation: where in RotateKey, and its new key
  cli, cliKey,           \* the logyctl command: where it is, and its key
  generated,             \* history: every key generated so far
  overlapped,            \* history: two rotations of this server overlapped
  disturbed              \* history: a command wrote the key file, or the write
                         \* of a rotation failed, since the server read it

serverVars  == <<server, serverKey, privateKey, publicKey>>
rotVars     == <<rot, rotKey>>
cliVars     == <<cli, cliKey, backups>>
history     == <<overlapped, disturbed>>
signerVars  == <<keyFile, serverVars, rotVars, cliVars, generated, history>>

SignerInit ==
  /\ keyFile = NoKey /\ backups = {}
  /\ privateKey = NoKey /\ publicKey = NoKey
  /\ server = "down" /\ serverKey = NoKey
  /\ rot = [r \in Rekeyer |-> "idle"] /\ rotKey = [r \in Rekeyer |-> NoKey]
  /\ cli = "idle" /\ cliKey = NoKey
  /\ generated = {} /\ overlapped = FALSE /\ disturbed = FALSE

-----------------------------------------------------------------------------
\* NewSigner, in the server and in `logyctl verify'.

\* The key file decodes, or a new key is generated.
LoadKey ==
  /\ server = "down"
  /\ \/ /\ keyFile \in Key
        /\ privateKey' = keyFile /\ publicKey' = keyFile
        /\ server' = "up"
        /\ UNCHANGED <<serverKey, generated>>
     \/ /\ keyFile \notin Key
        /\ \E k \in Key \ generated :
             serverKey' = k /\ generated' = generated \cup {k}
        /\ server' = "new"
        /\ UNCHANGED <<privateKey, publicKey>>
  /\ overlapped' = FALSE /\ disturbed' = FALSE
  /\ UNCHANGED <<keyFile, rotVars, cliVars>>

TruncateKey ==
  /\ server = "new"
  /\ keyFile' = Torn
  /\ server' = "write"
  /\ UNCHANGED <<serverKey, privateKey, publicKey, rotVars, cliVars, generated, history>>

WriteNewKeyForgotten ==
  /\ server = "write"
  /\ server' = "up" /\ serverKey' = NoKey
  /\ privateKey' = serverKey /\ publicKey' = serverKey
  /\ UNCHANGED <<keyFile, rotVars, cliVars, generated, history>>

WriteNewKey ==
  /\ server = "write"
  /\ keyFile' = serverKey
  /\ privateKey' = serverKey /\ publicKey' = serverKey
  /\ server' = "up" /\ serverKey' = NoKey
  /\ UNCHANGED <<rotVars, cliVars, generated, history>>

\* VerifyCommand opens a signer of its own.
VerifyLoad ==
  /\ "verify" \in Command
  /\ cli = "idle"
  /\ \/ /\ keyFile \in Key
        /\ cliKey' = keyFile
        /\ cli' = "verify"
        /\ UNCHANGED generated
     \/ /\ keyFile \notin Key
        /\ \E k \in Key \ generated :
             cliKey' = k /\ generated' = generated \cup {k}
        /\ cli' = "verifyNew"
  /\ UNCHANGED <<keyFile, serverVars, rotVars, backups, history>>

\* A command writes content to the key file and goes on at pc.
CommandWrites(content, pc) ==
  /\ keyFile' = content
  /\ cli' = pc
  /\ disturbed' = (disturbed \/ server # "down")
  /\ UNCHANGED <<serverVars, rotVars, backups, generated, overlapped>>

VerifyTruncate ==
  cli = "verifyNew" /\ CommandWrites(Torn, "verifyWrite") /\ UNCHANGED cliKey

VerifyWrite ==
  cli = "verifyWrite" /\ CommandWrites(cliKey, "verify") /\ UNCHANGED cliKey

-----------------------------------------------------------------------------
\* RotateKey, called by HandleRekey: save the new key, then swap the signer's
\* two halves one after the other.

RotateTruncate(r) ==
  /\ server = "up" /\ rot[r] = "idle"
  /\ \E k \in Key \ generated :
       rotKey' = [rotKey EXCEPT ![r] = k] /\ generated' = generated \cup {k}
  /\ keyFile' = Torn
  /\ rot' = [rot EXCEPT ![r] = "write"]
  /\ overlapped' = (overlapped \/ \E q \in Rekeyer \ {r} : rot[q] # "idle")
  /\ UNCHANGED <<serverVars, cliVars, disturbed>>

\* The new key is saved.
RotateWrite(r) ==
  /\ rot[r] = "write"
  /\ keyFile' = rotKey[r]
  /\ rot' = [rot EXCEPT ![r] = "private"]
  /\ UNCHANGED <<serverVars, rotKey, cliVars, generated, history>>

\* The write fails: RotateKey returns an error, with the file truncated.
RotateFails(r) ==
  /\ rot[r] = "write"
  /\ rot' = [rot EXCEPT ![r] = "idle"]
  /\ rotKey' = [rotKey EXCEPT ![r] = NoKey]
  /\ disturbed' = TRUE
  /\ UNCHANGED <<keyFile, serverVars, cliVars, generated, overlapped>>

RotatePrivateSkipped(r) ==
  /\ rot[r] = "private"
  /\ rot' = [rot EXCEPT ![r] = "public"]
  /\ UNCHANGED <<keyFile, serverVars, rotKey, cliVars, generated, history>>

RotatePrivate(r) ==
  /\ rot[r] = "private"
  /\ privateKey' = rotKey[r]
  /\ rot' = [rot EXCEPT ![r] = "public"]
  /\ UNCHANGED <<keyFile, server, serverKey, publicKey, rotKey, cliVars, generated,
                 history>>

RotatePublic(r) ==
  /\ rot[r] = "public"
  /\ publicKey' = rotKey[r]
  /\ rot' = [rot EXCEPT ![r] = "idle"]
  /\ rotKey' = [rotKey EXCEPT ![r] = NoKey]
  /\ UNCHANGED <<keyFile, server, serverKey, privateKey, cliVars, generated, history>>

-----------------------------------------------------------------------------
\* BackupKeyCommand and RestoreKeyCommand copy what the files hold, unchecked.

BackupKey ==
  /\ "backup-key" \in Command
  /\ cli = "idle"
  /\ keyFile # NoKey
  /\ backups' = backups \cup {keyFile}
  /\ UNCHANGED <<keyFile, serverVars, rotVars, cli, cliKey, generated, history>>

\* The backup is read; the current key, if any, is moved out of the way.
RestoreRename ==
  /\ "restore-key" \in Command
  /\ cli = "idle"
  /\ \E b \in backups : cliKey' = b
  /\ CommandWrites(NoKey, "restore")

RestoreTruncate ==
  cli = "restore" /\ CommandWrites(Torn, "restoreWrite") /\ UNCHANGED cliKey

RestoreWrite ==
  cli = "restoreWrite" /\ CommandWrites(cliKey, "idle") /\ cliKey' = NoKey

-----------------------------------------------------------------------------

\* The server ends, at any point, and its rotations with it.
ServerEnds ==
  /\ server # "down"
  /\ server' = "down" /\ serverKey' = NoKey
  /\ privateKey' = NoKey /\ publicKey' = NoKey
  /\ rot' = [r \in Rekeyer |-> "idle"]
  /\ rotKey' = [r \in Rekeyer |-> NoKey]
  /\ UNCHANGED <<keyFile, cliVars, generated, history>>

\* A command ends, or is interrupted before it does.
CommandEnds ==
  /\ cli # "idle"
  /\ cli' = "idle" /\ cliKey' = NoKey
  /\ UNCHANGED <<keyFile, serverVars, rotVars, backups, generated, history>>

RotateStep(r) ==
  RotateWrite(r) \/ RotateFails(r) \/ RotatePrivate(r) \/ RotatePublic(r)

CliStep ==
  \/ VerifyLoad \/ VerifyTruncate \/ VerifyWrite \/ CommandEnds
  \/ BackupKey \/ RestoreRename \/ RestoreTruncate \/ RestoreWrite

SignerNext ==
  \/ LoadKey \/ TruncateKey \/ WriteNewKey \/ ServerEnds
  \/ \E r \in Rekeyer : RotateTruncate(r) \/ RotateStep(r)
  \/ CliStep

SignerSpec == SignerInit /\ [][SignerNext]_signerVars

-----------------------------------------------------------------------------

SignerTypeOK ==
  /\ keyFile \in Key \cup {NoKey, Torn}
  /\ backups \subseteq Key \cup {Torn}
  /\ privateKey \in Key \cup {NoKey} /\ publicKey \in Key \cup {NoKey}
  /\ server \in {"down", "new", "write", "up"} /\ serverKey \in Key \cup {NoKey}
  /\ rot \in [Rekeyer -> {"idle", "write", "private", "public"}]
  /\ rotKey \in [Rekeyer -> Key \cup {NoKey}]
  /\ cli \in {"idle", "verify", "verifyNew", "verifyWrite", "restore", "restoreWrite"}
  /\ cliKey \in Key \cup {NoKey, Torn}
  /\ generated \subseteq Key
  /\ overlapped \in BOOLEAN /\ disturbed \in BOOLEAN

\* The server is up and no rotation is under way.
Quiet == server = "up" /\ \A r \in Rekeyer : rot[r] = "idle"

(* As long as rotations do not overlap, the server publishes the key it    *)
(* signs with whenever no rotation is under way, also after one that       *)
(* failed (signer.go:69-86).                                               *)
HalvesAgree == Quiet /\ ~overlapped => publicKey = privateKey /\ privateKey \in Key

(* Unless a command wrote the key file meanwhile or a write failed, the    *)
(* key such a server signs with is the one the next start loads, also      *)
(* after crashes in the middle of saving a key (signer.go:22-50, 69-86).   *)
KeyIsSaved == Quiet /\ ~overlapped /\ ~disturbed => keyFile = privateKey

(* The inductive invariant behind the two: where a rotation stands says    *)
(* which of the file, the private and the public half already have its key *)
(* (signer.go:69-86).                                                      *)
Rotating(r) == rot[r] # "idle"

RotationPhase ==
  \A r \in Rekeyer : Rotating(r) =>
    /\ server = "up"
    /\ rotKey[r] \in Key
    /\ ~overlapped =>
         /\ \A q \in Rekeyer : Rotating(q) => q = r
         /\ rot[r] = "public" => privateKey = rotKey[r]
         /\ rot[r] \in {"private", "public"} /\ ~disturbed => keyFile = rotKey[r]

SignerPhase ==
  /\ server \in {"new", "write"} => serverKey \in Key
  /\ server = "up" =>
       /\ privateKey \in Key
       /\ ~overlapped /\ (\A r \in Rekeyer : rot[r] # "public") => publicKey = privateKey

SignerInv == SignerTypeOK /\ RotationPhase /\ SignerPhase /\ KeyIsSaved

=============================================================================
