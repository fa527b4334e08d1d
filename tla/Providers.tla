------------------------------ MODULE Providers ------------------------------
(***************************************************************************)
(* The providers that a hasher of digestpp can be given: operators only.   *)
(* Each chooses among the families by the name of the algorithm.           *)
(***************************************************************************)
EXTENDS Blake, Keccak, Skein

IsSponge(alg) == alg.name \in {"sha3", "shake", "kmac"}

ProviderInit(alg, p) ==
    CASE IsSponge(alg)        -> SpongeInit(alg, p)
      [] alg.name = "blake"   -> BlakeInit(alg, p)
      [] alg.name = "blake2"  -> Blake2Init(alg, p)
      [] alg.name = "skein"   -> SkeinInit(alg, p)
      [] OTHER                -> MdInit(alg, p)

ProviderUpdate(alg, p, data) ==
    CASE IsSponge(alg)        -> SpongeUpdate(alg, p, data)
      [] alg.name = "blake"   -> BlakeUpdate(alg, p, data)
      [] alg.name = "blake2"  -> Blake2Update(alg, p, data)
      [] alg.name = "skein"   -> SkeinUpdate(alg, p, data)
      [] OTHER                -> MdUpdate(alg, p, data)

ProviderFinal(alg, p) ==
    CASE IsSponge(alg)        -> SpongeFinal(alg, p)
      [] alg.name = "blake"   -> BlakeFinal(alg, p)
      [] alg.name = "blake2"  -> Blake2Final(alg, p)
      [] alg.name = "skein"   -> SkeinFinal(alg, p)
      [] OTHER                -> MdFinal(alg, p)

ProviderSqueeze(alg, p, n) ==
    CASE IsSponge(alg)        -> SpongeSqueeze(alg, p, n)
      [] alg.name = "blake2"  -> Blake2Squeeze(alg, p, n)
      [] alg.name = "skein"   -> SkeinSqueeze(alg, p, n)

=============================================================================
