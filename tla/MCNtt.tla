--------------------------------- MODULE MCNtt ---------------------------------
(***************************************************************************)
(* The three schedules, for both primes, at the largest rank.  The         *)
(* instructions they and the CRT step are written in give what was         *)
(* recorded on silicon (src/tests/intrinsics_vectors.jsonl, lines 15434,   *)
(* 16515, 21920, 23001, 34180, 33076, 33129 and 10029, and lines 16105,    *)
(* 18081 and 9433 of neon_intrinsics_vectors.jsonl).                       *)
(***************************************************************************)
EXTENDS NttValues

MCPlans ==
  {[backend |-> b, prime |-> q, passes |-> Program(b, q, Rank)] :
     b \in {"portable", "avx2", "neon"}, q \in Primes}

\* Coefficients spread over their range, and ones at its ends.
Spread ==
  [public |-> [n \in 1..Rank |-> [i \in Block |-> (i * i * 37 + 1001 * n * i + 4097 * n) % 8192]],
   secret |-> [n \in 1..Rank |-> [i \in Block |-> ((i * i * n + 7 * i) % 11) - 5]]]
Extreme ==
  [public |-> [n \in 1..Rank |-> [i \in Block |-> 8191]],
   secret |-> [n \in 1..Rank |-> [i \in Block |-> IF i % 3 = 0 THEN -5 ELSE 5]]]

MCInputs == {Spread, Extreme}
-----------------------------------------------------------------------------
\* A vector read as 16-bit lanes, and the same lanes read two by two.
Words(s) == [i \in 0..(Len(s) - 1) |-> s[i + 1]]
Doubles(s) == [k \in 0..(Len(s) \div 2 - 1) |-> Join(s[2 * k + 1], s[2 * k + 2])]

ASSUME Recorded ==
  /\ unpacklo_epi16(Words(<<-19768, -24222, 26411, -23368, -11829, -5141,
     -7569, 15445, -10657, 6918, 26295, 4995, -17858, -3722, 7366, 14164>>),
     Words(<<19985, -32088, -6835, -24550, 13683, -1955, 4490, 19538, -657,
     14717, 13423, 4551, -3342, -15292, 696, -29047>>)) = Doubles(<<-19768,
     19985, -24222, -32088, 26411, -6835, -23368, -24550, -10657, -657, 6918,
     14717, 26295, 13423, 4995, 4551>>)
  /\ unpackhi_epi16(Words(<<6187, -21335, 5861, -4098, 22974, -1247, -674,
     -10370, -7471, 17214, -20570, -3555, 14854, -25912, 8012, 2203>>),
     Words(<<13452, -25433, 26258, 21924, 18853, -17690, -19625, 17397,
     -21870, -24407, -27914, -7380, 10624, 23484, 32466, 32373>>)) =
     Doubles(<<22974, 18853, -1247, -17690, -674, -19625, -10370, 17397,
     14854, 10624, -25912, 23484, 8012, 32466, 2203, 32373>>)
  /\ packs_epi32(Doubles(<<-30457, 9444, 6913, -4030, 27262, 5505, -4037,
     22971, 11457, 10360, -11062, 31394, 16753, -31353, 14171, -30312>>),
     Doubles(<<1, 0, -2, 32767, -32768, -1, -1, 32767, -1, 0, -32768, 0, 2,
     -1, 32767, -1>>)) = Words(<<32767, -32768, 32767, 32767, 1, 32767,
     -32768, 32767, 32767, 32767, -32768, -32768, 32767, 32767, -32768,
     -32768>>)
  /\ packus_epi32(Doubles(<<14485, -19511, 25160, -17987, 4739, -16608, 5643,
     -13769, -1199, -2548, -5125, 20003, -12127, -21766, 26637, 5252>>),
     Doubles(<<8176, 17033, -11250, 27636, -28610, -27115, -11252, 20078,
     3917, 13047, 29807, 31321, 20449, -25945, -30000, -9199>>)) = Words(<<0,
     0, 0, 0, 65535, 65535, 0, 65535, 0, 65535, 0, 65535, 65535, 65535, 0,
     0>>)
  /\ permute4x64_D8(Words(<<-23055, -21692, 29796, -14880, 8128, 25830, 31898,
     -5572, 10850, -26685, -5661, 1365, -28400, 12897, -3347, 29970>>)) =
     Words(<<-23055, -21692, 29796, -14880, 10850, -26685, -5661, 1365, 8128,
     25830, 31898, -5572, -28400, 12897, -3347, 29970>>)
  /\ LowHalvesOf(Doubles(<<-29956, -8660, 8482, 1792, 8047, -18095, -4801,
     29580, 8238, 27447, -27493, -10607, 12093, -31062, -2125, 18163>>),
     Doubles(<<-32274, 28000, -8592, -29790, 20953, -20755, 177, -1555,
     -29453, -20193, -16063, 26523, 8488, 10004, 2503, 26343>>)) =
     Doubles(<<-29956, -8660, 8482, 1792, 8047, -18095, -4801, 29580, -32274,
     28000, -8592, -29790, 20953, -20755, 177, -1555>>)
  /\ HighHalvesOf(Doubles(<<6206, 8832, -10047, 3206, -1920, 6203, -23367,
     1821, 14161, 20734, 10977, 11083, 27956, 11789, -20094, -14581>>),
     Doubles(<<-22163, -18882, -10028, -17617, 29764, 7471, -22126, -32536,
     -2528, 30269, -10762, -11038, 16448, 8474, 24465, -28590>>)) =
     Doubles(<<14161, 20734, 10977, 11083, 27956, 11789, -20094, -14581,
     -2528, 30269, -10762, -11038, 16448, 8474, 24465, -28590>>)
  /\ xtn_pair_32(Doubles(<<21770, -15092, 29157, 11336, 26680, -8445, -14289,
     4172>>), Doubles(<<12422, -24979, 26036, 23969, -17343, 32450, -28736,
     10024>>)) = Words(<<21770, 29157, 26680, -14289, 12422, 26036, -17343,
     -28736>>)
  /\ shrn16_pair_s32(Doubles(<<29630, -1563, 25672, 14456, 20495, -27131,
     -31876, 3122>>), Doubles(<<18417, -337, 8018, 17961, -19240, 24109,
     -28479, 26447>>)) = Words(<<-1563, 14456, -27131, 3122, -337, 17961,
     24109, 26447>>)
  /\ [i \in 0..7 |-> Sqdmulh(Words(<<32765, 0, -1, 32767, -32767, -1, 0,
     1>>)[i], Words(<<-2, 0, 32767, 0, 32767, 0, 0, -32768>>)[i])] =
     Words(<<-2, 0, -1, 0, -32767, 0, 0, -1>>)
  /\ [i \in 0..15 |-> MulHi(Words(<<-18297, -5920, -27734, -8355, 20365,
     -23569, 4585, 4744, 11095, 12213, 20257, -8431, 1910, -30691, 1549,
     -31934>>)[i], Words(<<1, 1, -32768, 0, -2, 0, 1, 1, 32766, -1, -32767, 0,
     3, -1, 3, 0>>)[i])] = Words(<<-1, -1, 13867, 0, -1, 0, 0, 0, 5547, -1,
     -10129, 0, 0, 0, 0, 0>>)
===============================================================================
