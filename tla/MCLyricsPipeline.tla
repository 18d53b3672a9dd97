--------------------------- MODULE MCLyricsPipeline ---------------------------
(* One song, two catalog generations, one candidate of each provider.      *)
EXTENDS LyricsPipeline, TLC

CONSTANTS a, b, Moegirl

MCProviderOf == (a :> Fandom) @@ (b :> Moegirl)
MCProviderOrder == <<Moegirl, Fandom>>
Sym == Permutations(Fingerprints) \cup Permutations(DiscoverConsumers) \cup Permutations(Keys)
MCGates == {"identity", "parse"}
=============================================================================
