-------------------------------- MODULE Boot --------------------------------
(***************************************************************************)
(* The boot sequence (src/boot/) with the TPM it measures itself into and  *)
(* the attestations it produces (src/tpm/).                                *)
(*                                                                         *)
(* A wire image is a record: is it long enough, is it signed by the boot   *)
(* credentials' key, is its CBOR well formed, and the edges and quotas the *)
(* payload lists.  Of the PCR bank only register 0 is used.  The TPM       *)
(* outlives the boot states: only a power cycle resets its register.       *)
(***************************************************************************)
EXTENDS Integers, Sequences, FiniteSets, SequencesExt, Functions

CONSTANTS
    Wires,            \* the raw manifests callers may boot from
    OtherData,        \* what other software extends the register with
    Challenges,       \* the nonces verifiers send
    MaxNodes,         \* MAX_NODES
    MaxEdges,         \* MAX_EDGES
    ZeroPcr,          \* the all-zero register
    NullQuote,        \* the all-zero quote of NullTpm
    ZeroNonce,        \* the all-zero nonce boot quotes with
    Hash(_),          \* SHA-256 of the concatenation of a tuple
    MaxExtends,       \* bound: extensions in one power cycle
    MaxAttestations   \* bound: attestations verifiers hold

ASSUME BootConstants == MaxNodes \in Nat /\ MaxEdges \in Nat

VARIABLES
    pcr,              \* register 0 of the TPM
    states,           \* the boot states that callers hold
    attestations,     \* the attestations that verifiers hold
    measured,         \* history: what the register was extended with, in order
    result            \* what the last call returned

vars == <<pcr, states, attestations, measured, result>>

\* SoftwareTpm, NullTpm, the stub TssTpmProvider, and a provider of the
\* caller's own that extends as SoftwareTpm does and then cannot quote: none
\* under src/ is like that, but the contract of TpmProvider::quote allows it.
\* A quote that fails now and then is a use of "Software" or of "Quoteless".
Providers == {"Software", "Null", "Tss", "Quoteless"}

-----------------------------------------------------------------------------
(* The TPM providers *)

\* Mutant: the register is overwritten instead of extended.
ExtendPcrOverwriting(register, data) == Hash(<<data>>)

ExtendPcr(register, data) == Hash(<<register, data>>)

\* quote of the software TPM whose register is given, and of NullTpm.
SoftwareQuote(register, nonce) == <<register, Hash(<<register, nonce>>)>>

Quote(provider, nonce) ==
    IF provider = "Null" THEN NullQuote ELSE SoftwareQuote(pcr, nonce)

\* extend_pcr succeeds: every method of the stub TssTpmProvider returns an
\* error.
CanExtend(provider) == provider # "Tss"

\* quote succeeds.
CanQuote(provider) == provider \notin {"Tss", "Quoteless"}

\* Those whose extend_pcr changes the register; NullTpm's does nothing.
HasRegister(provider) == provider \in {"Software", "Quoteless"}

\* verify_quote of the software TPM recomputes the quote; NullTpm accepts the
\* null quote, for any nonce.
SoftwareVerifies(register, nonce, quote) ==
    quote = SoftwareQuote(register, nonce)

NullVerifies(quote) == quote = NullQuote

\* BootAttestation::verify against a TPM of the given provider and register.
Verify(provider, register, a) ==
    /\ provider # "Tss"
    /\ IF provider = "Null" THEN NullVerifies(a.quote)
       ELSE SoftwareVerifies(register, a.nonce, a.quote)

-----------------------------------------------------------------------------
(* Decoding and seeding *)

\* parse_edges and parse_quotas: at most the capacity, no node zero.
ParsesEdges(edges) ==
    /\ Len(edges) <= MaxEdges
    /\ \A i \in DOMAIN edges : 0 \notin {edges[i][1], edges[i][2]}

ParsesQuotas(quotas) ==
    /\ Len(quotas) <= MaxNodes
    /\ \A i \in DOMAIN quotas : quotas[i][1] # 0

\* Mutant: the payload is parsed whoever signed it.
DecodesUnsigned(w) ==
    w.long /\ w.formed /\ ParsesEdges(w.edges) /\ ParsesQuotas(w.quotas)

\* ManifestDecoder::decode: length, signature, then parse_cbor.
Decodes(w) ==
    /\ w.long /\ w.signed
    /\ w.formed /\ ParsesEdges(w.edges) /\ ParsesQuotas(w.quotas)

\* Mutant: off by one at the last node.
InRangeOffByOne(id) == id <= MaxNodes + 1

\* node_idx succeeds (the identifier is not zero).
InRange(id) == id <= MaxNodes

Endpoints(w) == UNION {{e[1], e[2]} : e \in Range(w.edges)}

\* Every activate and, with it, every permit_edge succeeds.
GraphSeeds(w) == \A id \in Endpoints(w) : InRange(id)

\* Every seed succeeds: no node has two quotas.
LedgerSeeds(w) ==
    \A i, j \in DOMAIN w.quotas : w.quotas[i][1] = w.quotas[j][1] => i = j

\* The boot state of a manifest that passed, with the quote taken at boot.
Sealed(w, quote) ==
    [manifest_hash |-> Hash(<<w>>),
     active_nodes  |-> Endpoints(w),
     edge_matrix   |-> Range(w.edges),
     balances      |-> [n \in {q[1] : q \in Range(w.quotas)} |->
                           (CHOOSE q \in Range(w.quotas) : q[1] = n)[2]],
     attestation   |-> quote]

\* The steps before the TPM is first called all succeed.
Seeds(w) == Decodes(w) /\ GraphSeeds(w) /\ LedgerSeeds(w)

\* What initialise_with_tpm returns, its steps in order.
BootResult(w, provider) ==
    IF ~Decodes(w)               THEN "ManifestInvalid"
    ELSE IF ~GraphSeeds(w)       THEN "TopologyViolation"
    ELSE IF ~LedgerSeeds(w)      THEN "ManifestInvalid"
    ELSE IF ~CanExtend(provider) THEN "ManifestInvalid"
    ELSE IF ~CanQuote(provider)  THEN "ManifestInvalid"
    ELSE "Ok"

-----------------------------------------------------------------------------

Init ==
    /\ pcr = ZeroPcr
    /\ states = {}
    /\ attestations = {}
    /\ measured = << >>
    /\ result = "Ok"

\* SoftwareTpm::extend_pcr on register 0.
Extend(data) ==
    /\ pcr' = ExtendPcr(pcr, data)
    /\ measured' = Append(measured, data)

\* The caller of a boot answered Ok holds the sealed state with the quote of
\* the given register.
HoldSealed(w, provider, register) ==
    states' = IF result' = "Ok"
              THEN states \cup {Sealed(w, IF provider = "Null" THEN NullQuote
                                         ELSE SoftwareQuote(register, ZeroNonce))}
              ELSE states

\* Mutant: the image is measured before it is decoded.
InitialiseMeasuringFirst(w, provider) ==
    /\ HasRegister(provider) => Len(measured) < MaxExtends
    /\ result' = BootResult(w, provider)
    /\ IF HasRegister(provider) THEN Extend(w) ELSE UNCHANGED <<pcr, measured>>
    /\ HoldSealed(w, provider, pcr')
    /\ UNCHANGED attestations

\* Mutant: the register is quoted before it is extended.
InitialiseQuotingFirst(w, provider) ==
    /\ HasRegister(provider) => Len(measured) < MaxExtends
    /\ result' = BootResult(w, provider)
    /\ IF Seeds(w) /\ HasRegister(provider)
       THEN Extend(w) ELSE UNCHANGED <<pcr, measured>>
    /\ HoldSealed(w, provider, pcr)
    /\ UNCHANGED attestations

\* BootState::initialise_with_tpm, and initialise with provider "Null".  The
\* register is extended with the raw image once nothing but the TPM itself can
\* fail, and stays extended when the quote that follows fails.
Initialise(w, provider) ==
    /\ HasRegister(provider) => Len(measured) < MaxExtends
    /\ result' = BootResult(w, provider)
    /\ IF Seeds(w) /\ HasRegister(provider)
       THEN Extend(w) ELSE UNCHANGED <<pcr, measured>>
    /\ HoldSealed(w, provider, pcr')
    /\ UNCHANGED attestations

\* BootState::produce_attestation.  seen is history: what the quoted register
\* had been extended with.
ProduceAttestation(s, provider, nonce) ==
    LET a == [manifest_hash |-> s.manifest_hash, nonce |-> nonce,
              quote |-> Quote(provider, nonce), provider |-> provider,
              seen |-> IF provider = "Null" THEN << >> ELSE measured]
    IN  /\ Cardinality(attestations) < MaxAttestations
        /\ result' = IF CanQuote(provider) THEN "Ok" ELSE "ManifestInvalid"
        /\ attestations' = IF CanQuote(provider) THEN attestations \cup {a}
                                                 ELSE attestations
        /\ UNCHANGED <<pcr, states, measured>>

\* A caller or other software extends register 0 itself.
ExtendDirectly(data) ==
    /\ Len(measured) < MaxExtends
    /\ Extend(data)
    /\ result' = "Ok"
    /\ UNCHANGED <<states, attestations>>

\* A power cycle: the register is zero again and every boot state is gone,
\* while verifiers keep the attestations they were sent.
PowerCycle ==
    /\ pcr' = ZeroPcr
    /\ measured' = << >>
    /\ states' = {}
    /\ result' = "Ok"
    /\ UNCHANGED attestations

Next ==
    \/ \E w \in Wires, provider \in Providers : Initialise(w, provider)
    \/ \E s \in states, provider \in Providers, nonce \in Challenges :
          ProduceAttestation(s, provider, nonce)
    \/ \E data \in OtherData : ExtendDirectly(data)
    \/ PowerCycle

Spec == Init /\ [][Next]_vars

-----------------------------------------------------------------------------
(* Properties *)

Denials == {"ManifestInvalid", "TopologyViolation"}

\* Type invariant.  Sealed graphs stay within MaxNodes and MaxEdges, ledgers
\* within MaxNodes, and balances are those of non-zero nodes.
BootTypeOK ==
    /\ Len(measured) <= MaxExtends
    /\ Cardinality(attestations) <= MaxAttestations
    /\ result \in Denials \cup {"Ok"}
    /\ \A s \in states :
          /\ s.active_nodes \subseteq 1 .. MaxNodes
          /\ s.edge_matrix \subseteq s.active_nodes \X s.active_nodes
          /\ Cardinality(s.edge_matrix) <= MaxEdges
          /\ Cardinality(DOMAIN s.balances) <= MaxNodes
          /\ \A n \in DOMAIN s.balances : n > 0 /\ s.balances[n] \in Nat

\* Whatever is running came from one signed image and from nothing else: its
\* graph has exactly the declared edges and its ledger exactly the declared
\* quotas, none of them overwritten by a later row (boot/mod.rs lines
\* 275-290, ledger.rs lines 36-37).
SealedFromOneManifest ==
    \A s \in states : \E w \in Wires :
        /\ s.manifest_hash = Hash(<<w>>)
        /\ w.signed
        /\ s.edge_matrix = Range(w.edges)
        /\ {<<n, s.balances[n]>> : n \in DOMAIN s.balances} = Range(w.quotas)

\* What a refused boot may leave behind.  No boot state and no attestation,
\* ever; and the register as it was, except that a TPM which extends and then
\* cannot quote keeps one measurement, of an image that is signed, whole and
\* seedable (boot/mod.rs lines 277-296).  "Steps (all-or-nothing)" (line 251)
\* has no such exception; all else about a refusal is all-or-nothing.
RefusedBootTrace ==
    [][result' \in Denials =>
          /\ UNCHANGED <<states, attestations>>
          /\ pcr' # pcr => \E w \in Wires :
                /\ w.long /\ w.signed /\ w.formed
                /\ BootResult(w, "Software") = "Ok"
                /\ pcr' = ExtendPcr(pcr, w)
                /\ measured' = Append(measured, w)]_vars

\* The register after the first i extensions of this power cycle.
RegisterAfter(i) == FoldLeft(ExtendPcr, ZeroPcr, SubSeq(measured, 1, i))

\* The quote a running kernel holds from its boot is of the register right
\* after its own image went in, with everything measured before it: refused
\* boots that kept their measurement, other boots and other software
\* included, and nothing measured since (boot/mod.rs lines 295-296).
BootQuoteCoversImage ==
    \A s \in states :
        \/ s.attestation = NullQuote
        \/ \E i \in DOMAIN measured :
              /\ s.manifest_hash = Hash(<<measured[i]>>)
              /\ s.attestation = SoftwareQuote(RegisterAfter(i), ZeroNonce)

\* A quote is bound to the whole history of its register.  A verifier, whose
\* TPM was extended with the expected image alone (attestation.rs lines
\* 11-13) or is the quoted TPM itself, accepts an attestation exactly when
\* the register had been extended with that and nothing else: a second boot
\* on the same TPM, or other software's extension, invalidates it
\* (tpm/mod.rs lines 23-25), and so does the retry of a boot whose quote had
\* failed; a power cycle and the same boot restores it.
\* The null quotes of NullTpm are accepted by NullTpm alone.
QuoteBindsHistory ==
    \A a \in attestations :
        LET real == a.provider = "Software"
        IN  /\ Verify("Software", pcr, a) <=> real /\ a.seen = measured
            /\ \A w \in Wires : Verify("Software", ExtendPcr(ZeroPcr, w), a)
                                   <=> real /\ a.seen = <<w>>
            /\ Verify("Null", pcr, a) <=> ~real
=============================================================================
