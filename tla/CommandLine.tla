---------------------------- MODULE CommandLine ----------------------------
(***************************************************************************)
(* The vr-verify binary (bin/vr_verify.rs): it parses its arguments, reads *)
(* the files they name, calls one verifier, prints the result and tells    *)
(* the caller by its exit code: 0 VALID, 1 INVALID, 2 usage error.  The    *)
(* verifiers of receipts, execution bundles and external receipts are run  *)
(* step by step; of the others the outcome is a fact of the world.         *)
(***************************************************************************)
EXTENDS Naturals, Sequences

CONSTANTS
    Argument,     \* the strings an argument may be
    Value(_),     \* the integer an argument stands for, 0 when it is none
    DefaultBytes, \* the fields of VerifierLimits::default
    DefaultChainLength,
    Omitted       \* a flag that was not given

\* See Receipt, ExecutionBundle and ExternalReceipt.
CONSTANTS WireForm, Digest, Undeclared, Unhashable, Absent, EmptyText, NotText,
          Text, EventType, OtherType, DecodeStep1, DecodeStep2

ASSUME ValueAssumption == \A raw \in Argument : Value(raw) \in Nat

ASSUME OmittedAssumption == Omitted \notin Nat \union Argument

ASSUME DefaultsAssumption == DefaultBytes \in Nat \ {0} /\ DefaultChainLength \in Nat \ {0}

ASSUME DigestAssumption == {EmptyText, Undeclared, Unhashable, Absent} \intersect Digest = {}

ASSUME TextAssumption ==
    /\ {EventType, OtherType, DecodeStep2, DecodeStep1} \subseteq Text
    /\ {EmptyText, NotText, Absent} \intersect Text = {}
    /\ EventType # OtherType /\ DecodeStep1 # DecodeStep2
    /\ EmptyText # NotText /\ EmptyText # Absent /\ NotText # Absent

VARIABLES
    args,    \* what follows the name of the program
    world,   \* what the files hold and what the verifiers say of them
    phase,
    cursor,  \* arguments already parsed
    limits,  \* LimitArgs
    trust,   \* the argument of --trust
    result,  \* what the verifier returned
    output,  \* what stdout received
    exit

\* The state of verify_receipt, of verify_bundle, and of the calls of rbh.rs.
VARIABLES receipt, receipt_phase, receipt_errors, all_hashes_match, receipt_status
VARIABLES bundle, bundle_phase, position, sidecar_checks, errors, bundle_status
VARIABLES request, external_phase, field, error, external_status

\* A limit that is not given has its default, also when none is.
Given(value, default) == IF value = Omitted THEN default ELSE value

R == INSTANCE Receipt WITH max_bytes <- Given(limits.max_bytes, DefaultBytes)

B == INSTANCE ExecutionBundle WITH phase <- bundle_phase, status <- bundle_status

E == INSTANCE ExternalReceipt WITH phase <- external_phase, status <- external_status

receiptVars == <<receipt, receipt_phase, receipt_errors, all_hashes_match, receipt_status>>

bundleVars == <<bundle, bundle_phase, position, sidecar_checks, errors, bundle_status>>

externalVars == <<request, external_phase, field, error, external_status>>

verifierVars == <<receiptVars, bundleVars, externalVars>>

vars == <<args, world, phase, cursor, limits, trust, result, output, exit, verifierVars>>

inputVars == <<args, world>>

----------------------------------------------------------------------------
(* Data *)

PackCommands == {"bundle", "layered", "decision", "closure"}

Commands == {"receipt", "chain", "signed", "external"} \union PackCommands

LimitArgs == [max_bytes : Nat \union {Omitted}, max_chain_length : Nat \union {Omitted}]

\* valid: the verdict without limits and trust.  The input has so many bytes and,
\* if it is a chain, elements.  trusted: the verdict of the trust evaluation.
\* short: the result fits in the line buffer of stdout.
IsWorld(w) ==
    /\ w.readable \in BOOLEAN /\ w.signature_readable \in BOOLEAN
    /\ w.valid \in BOOLEAN /\ w.trusted \in BOOLEAN
    /\ w.bytes \in Nat /\ w.elements \in Nat
    /\ w.trust_config \in {"full", "no_trust_policy", "no_authority_set", "unreadable"}
    /\ w.canonicalizes \in BOOLEAN /\ w.stdout_open \in BOOLEAN /\ w.short \in BOOLEAN

----------------------------------------------------------------------------
(* The program *)

Init ==
    /\ args \in Seq(Argument)
    /\ IsWorld(world)
    /\ phase = "arguments"
    /\ cursor = 0
    /\ limits = [max_bytes |-> Omitted, max_chain_length |-> Omitted]
    /\ trust = Omitted
    /\ result = "none"
    /\ output = "none"
    /\ exit = "running"
    /\ R!ReceiptInit
    /\ B!Init
    /\ E!Init

Exit(code) ==
    /\ exit' = code
    /\ phase' = "exited"

\* The operands that come before the flags.
Operands(command) == IF command = "signed" THEN 2 ELSE 1

\* The number of arguments is checked first, then the command.
Callable(a) ==
    /\ Len(a) >= 2
    /\ a[1] \in Commands
    /\ Len(a) >= 1 + Operands(a[1])
    /\ a[1] \in PackCommands \union {"external"} => Len(a) = 2

Dispatch ==
    /\ phase = "arguments"
    /\ \/ ~Callable(args) /\ Exit("2") /\ UNCHANGED cursor
       \/ /\ Callable(args)
          /\ cursor' = 1 + Operands(args[1])
          /\ phase' = "flags"
          /\ UNCHANGED exit
    /\ UNCHANGED <<inputVars, limits, trust, result, output, verifierVars>>

AllowedFlags(command) ==
    CASE command = "receipt" -> {"--max-bytes"}
      [] command = "chain" -> {"--max-bytes", "--max-chain-length"}
      [] command = "signed" -> {"--trust"}
      [] OTHER -> {}

\* A flag takes the argument that follows it, whatever that is.
ParseFlag ==
    /\ phase = "flags"
    /\ cursor < Len(args)
    /\ LET flag == args[cursor + 1]
           raw == args[cursor + 2]
           taken == /\ flag \in AllowedFlags(args[1])
                    /\ cursor + 2 <= Len(args)
                    /\ flag # "--trust" => Value(raw) > 0
       IN
       \/ /\ ~taken
          /\ Exit("2")
          /\ UNCHANGED <<cursor, limits, trust>>
       \/ /\ taken /\ flag = "--trust"
          /\ trust' = raw
          /\ cursor' = cursor + 2
          /\ UNCHANGED <<phase, limits, exit>>
       \/ /\ taken /\ flag # "--trust"
          /\ limits' = IF flag = "--max-bytes"
                       THEN [limits EXCEPT !.max_bytes = Value(raw)]
                       ELSE [limits EXCEPT !.max_chain_length = Value(raw)]
          /\ cursor' = cursor + 2
          /\ UNCHANGED <<phase, trust, exit>>
    /\ UNCHANGED <<inputVars, result, output, verifierVars>>

\* The receipt, the signature and the trust configuration are read in this order.
ReadFiles ==
    /\ phase = "flags"
    /\ cursor = Len(args)
    /\ LET loaded ==
             /\ world.readable
             /\ args[1] = "signed" => world.signature_readable
             /\ trust # Omitted => world.trust_config \in {"full", "no_trust_policy"}
       IN \/ ~loaded /\ Exit("2")
          \/ loaded /\ phase' = "verify" /\ UNCHANGED exit
    /\ UNCHANGED <<inputVars, cursor, limits, trust, result, output, verifierVars>>

\* The packs and external receipts are read whole.
WithinLimits ==
    /\ args[1] \in {"chain", "signed"} =>
          world.bytes <= Given(limits.max_bytes, DefaultBytes)
    /\ args[1] = "chain" =>
          world.elements <= Given(limits.max_chain_length, DefaultChainLength)

Return(verdict) ==
    /\ result' = verdict
    /\ phase' = "emit"

\* A mutant: the trust configuration is loaded and not used.
VerifyUntrusted ==
    /\ phase = "verify"
    /\ args[1] \notin {"receipt", "bundle", "external", "projection"}
    /\ Return(IF world.valid /\ WithinLimits THEN "Valid" ELSE "Invalid")
    /\ UNCHANGED <<inputVars, cursor, limits, trust, output, exit, verifierVars>>

Verify ==
    /\ phase = "verify"
    /\ args[1] \notin {"receipt", "bundle", "external", "projection"}
    /\ Return(IF world.valid /\ WithinLimits /\ (trust # Omitted => world.trusted)
              THEN "Valid" ELSE "Invalid")
    /\ UNCHANGED <<inputVars, cursor, limits, trust, output, exit, verifierVars>>

VerifyReceipt ==
    /\ phase = "verify"
    /\ args[1] = "receipt"
    /\ UNCHANGED <<inputVars, cursor, limits, trust, output, exit, bundleVars, externalVars>>
    /\ \/ R!ReceiptNext /\ UNCHANGED <<phase, result>>
       \/ receipt_status # "pending" /\ Return(receipt_status) /\ UNCHANGED receiptVars

VerifyBundle ==
    /\ phase = "verify"
    /\ args[1] = "bundle"
    /\ \/ B!Next /\ UNCHANGED <<phase, result>>
       \/ bundle_status # "pending" /\ Return(bundle_status) /\ UNCHANGED bundleVars
    /\ UNCHANGED <<inputVars, cursor, limits, trust, output, exit, receiptVars, externalVars>>

VerifyExternal ==
    /\ phase = "verify"
    /\ args[1] \in {"external", "projection"}
    /\ \/ E!Next /\ UNCHANGED <<phase, result>>
       \/ external_status # "pending" /\ Return(external_status) /\ UNCHANGED externalVars
    /\ UNCHANGED <<inputVars, cursor, limits, trust, output, exit, receiptVars, bundleVars>>

\* stdout is line-buffered: a short result without its newline is only copied
\* to the buffer, so that write_all succeeds whatever stdout is.
Written == world.canonicalizes /\ (world.stdout_open \/ world.short)

\* A mutant: a result that cannot be written does not change the exit code.
EmitResultUnwritten ==
    /\ phase = "emit"
    /\ output' = IF Written /\ world.stdout_open /\ (args[1] # "external" \/ result = "Valid")
                 THEN result ELSE output
    /\ Exit(IF result = "Valid" THEN "0" ELSE "1")
    /\ UNCHANGED <<inputVars, cursor, limits, trust, result, verifierVars>>

\* The newline flushes the buffer, and the outcome of writing it is ignored.  An
\* external receipt that is refused prints nothing on stdout.
EmitResult ==
    /\ phase = "emit"
    /\ \/ /\ args[1] = "external" /\ result = "Invalid"
          /\ Exit("1")
          /\ UNCHANGED output
       \/ /\ args[1] # "external" \/ result = "Valid"
          /\ \/ ~Written /\ Exit("2") /\ UNCHANGED output
             \/ /\ Written
                /\ output' = IF world.stdout_open THEN result ELSE output
                /\ Exit(IF result = "Valid" THEN "0" ELSE "1")
    /\ UNCHANGED <<inputVars, cursor, limits, trust, result, verifierVars>>

RunVerifier == Verify \/ VerifyReceipt \/ VerifyBundle \/ VerifyExternal

Next ==
    \/ Dispatch
    \/ ParseFlag
    \/ ReadFiles
    \/ RunVerifier
    \/ EmitResult

----------------------------------------------------------------------------
(* What the program tells its caller *)

\* The places for flags among the first k arguments of a.
FlagPlaces(a, k) == {n \in (2 + Operands(a[1]))..k : (n - Operands(a[1])) % 2 = 0}

\* Where among them a flag stands.
FlagAt(a, flag, k) == {n \in FlagPlaces(a, k) : a[n] = flag}

\* The last occurrence of a flag is the one that counts.
LastAmong(a, flag, k) ==
    LET last == CHOOSE n \in FlagAt(a, flag, k) : \A m \in FlagAt(a, flag, k) : m <= n
    IN IF FlagAt(a, flag, k) = {} THEN Omitted ELSE a[last + 1]

LastGiven(a, flag) == LastAmong(a, flag, Len(a))

FlagsWellFormed(a, k) ==
    \A n \in FlagPlaces(a, k) :
        /\ a[n] \in AllowedFlags(a[1])
        /\ a[n] # "--trust" => Value(a[n + 1]) > 0

WellFormed(a) ==
    /\ Len(a) >= 2 /\ a[1] \in Commands
    /\ Len(a) >= 1 + Operands(a[1])
    /\ (Len(a) - Operands(a[1])) % 2 = 1
    /\ FlagsWellFormed(a, Len(a))

\* The bound on an input.
Bound(a, flag, default) ==
    IF LastGiven(a, flag) = Omitted THEN default ELSE Value(LastGiven(a, flag))

FilesLoad(c) ==
    /\ c.world.readable
    /\ c.args[1] = "signed" => c.world.signature_readable
    /\ LastGiven(c.args, "--trust") # Omitted =>
          c.world.trust_config \in {"full", "no_trust_policy"}

\* bound is the limit on the bytes.
InputAcceptable(c, bound) ==
    CASE c.args[1] = "receipt" -> R!ReceiptAcceptable(c.receipt, bound)
      [] c.args[1] = "bundle" -> B!BundleAcceptable(c.bundle)
      [] c.args[1] \in {"external", "projection"} -> E!RequestAcceptable(c.request)
      [] OTHER -> c.world.valid

\* No flag is silently dropped: the input is within the last bound given for each
\* limit and within the default where none is, and its key is trusted if --trust
\* was given.
FlagsObeyed(c) ==
    /\ LastGiven(c.args, "--trust") # Omitted => c.world.trusted
    /\ c.args[1] \in {"chain", "signed"} =>
          c.world.bytes <= Bound(c.args, "--max-bytes", DefaultBytes)
    /\ c.args[1] = "chain" =>
          c.world.elements <= Bound(c.args, "--max-chain-length", DefaultChainLength)

ProgramAcceptable(c) ==
    /\ WellFormed(c.args)
    /\ FilesLoad(c)
    /\ InputAcceptable(c, Bound(c.args, "--max-bytes", DefaultBytes))
    /\ FlagsObeyed(c)
    /\ c.world.canonicalizes /\ (c.world.stdout_open \/ c.world.short)

----------------------------------------------------------------------------
(* Properties *)

\* Every variable keeps its type.
TypeOK ==
    /\ IsWorld(world)
    /\ phase \in {"arguments", "flags", "verify", "emit", "exited"}
    /\ cursor \in 0..Len(args)
    /\ limits \in LimitArgs
    /\ trust # Omitted => \E n \in 1..Len(args) : trust = args[n]
    /\ result \in {"none", "Valid", "Invalid"}
    /\ exit \in {"running", "0", "1", "2", "returned"}
    /\ R!TypeOK
    /\ B!TypeOK
    /\ E!TypeOK

\* The exit code and stdout agree: what is printed is what the exit code says,
\* and a VALID result that is not printed is a usage error, unless it was lost
\* with the newline.
ExitTellsOutput ==
    exit # "returned" =>
        /\ output = "Valid" => exit = "0"
        /\ output = "Invalid" => exit = "1"
        /\ exit = "0" => result = "Valid" /\ (output = "Valid" \/ world.short)
        /\ exit = "1" => result = "Invalid"

----------------------------------------------------------------------------
(* Claims of the documentation the code does not keep *)

\* vr_verify.rs, load_trust_config: "either may be omitted to fall back to its
\* default", so that leaving one out is no usage error.
TrustMembersOptional ==
    exit = "2" /\ phase = "exited" =>
        ~(/\ WellFormed(args) /\ args[1] = "signed"
          /\ world.readable /\ world.signature_readable
          /\ world.trust_config = "no_authority_set"
          /\ world.canonicalizes /\ world.stdout_open)

\* README.md: "Output: JCS-canonical verification result to stdout", so that a
\* program that succeeds has printed its result.
SuccessMeansPrinted == exit = "0" => output = "Valid"

----------------------------------------------------------------------------
(* The inductive invariant of the parsed arguments *)

\* The number an argument stands for, if it was given.
NumberOf(raw) == IF raw = Omitted THEN Omitted ELSE Value(raw)

\* The limits and the trust are those the first k arguments give.
FlagsTaken(k) ==
    /\ trust = LastAmong(args, "--trust", k)
    /\ limits = [max_bytes |-> NumberOf(LastAmong(args, "--max-bytes", k)),
                 max_chain_length |-> NumberOf(LastAmong(args, "--max-chain-length", k))]

ArgumentsInv ==
    /\ args \in Seq(Argument)
    /\ phase = "arguments" =>
          trust = Omitted /\ limits = [max_bytes |-> Omitted, max_chain_length |-> Omitted]
    /\ phase = "flags" =>
          /\ Callable(args)
          /\ cursor \in (1 + Operands(args[1]))..Len(args)
          /\ (cursor - Operands(args[1])) % 2 = 1
          /\ FlagsWellFormed(args, cursor)
          /\ FlagsTaken(cursor)

=============================================================================
