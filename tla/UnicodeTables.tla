---------------------------- MODULE UnicodeTables ----------------------------
(***************************************************************************)
(* The tables of src/wchar/unicode_props.c, every entry of the three.      *)
(* Entries that follow one another with one step and one shift are written *)
(* as one run; Expanded and Listed give the C arrays back, one             *)
(* element per entry and in the order of the source.                       *)
(***************************************************************************)
EXTENDS Integers, Sequences, SequencesExt

(* A run <<first, last, step, shift>> of a case table.                     *)
Entries(run) ==
    [i \in 1 .. (run[2] - run[1]) \div run[3] + 1 |->
        LET from == run[1] + (i - 1) * run[3]
        IN  [from |-> from, to |-> from + run[4]]]

Expanded(runs) == FlattenSeq([i \in 1 .. Len(runs) |-> Entries(runs[i])])

(* A run <<first, last, mask, 0>> is one range; with a second mask it is   *)
(* one range per code point, and the two masks alternate.                  *)
RangesOf(run) ==
    IF run[4] = 0
      THEN <<[first |-> run[1], last |-> run[2], properties |-> run[3]]>>
      ELSE [i \in 1 .. run[2] - run[1] + 1 |->
               [first |-> run[1] + i - 1, last |-> run[1] + i - 1,
                properties |-> IF i % 2 = 1 THEN run[3] ELSE run[4]]]

Listed(runs) == FlattenSeq([i \in 1 .. Len(runs) |-> RangesOf(runs[i])])

Range1 == <<
    <<0,8,64,0>>, <<9,9,112,0>>, <<10,13,80,0>>, <<14,31,64,0>>, <<32,32,304,0>>,
    <<33,35,896,0>>, <<36,36,768,0>>, <<37,42,896,0>>, <<43,43,768,0>>, <<44,47,896,0>>,
    <<48,57,770,0>>, <<58,59,896,0>>, <<60,62,768,0>>, <<63,64,896,0>>, <<65,90,777,0>>,
    <<91,93,896,0>>, <<94,96,768,896>>, <<97,122,773,0>>, <<123,126,896,768>>,
    <<127,132,64,0>>, <<133,133,80,0>>, <<134,159,64,0>>, <<160,161,304,896>>,
    <<162,166,768,0>>, <<167,167,896,0>>, <<168,169,768,0>>, <<170,171,769,896>>,
    <<172,172,768,0>>, <<174,180,768,0>>, <<181,181,773,0>>, <<182,183,896,0>>,
    <<184,185,768,0>>, <<186,187,769,896>>, <<188,190,768,0>>, <<191,191,896,0>>,
    <<192,214,777,0>>, <<215,215,768,0>>, <<216,222,777,0>>, <<223,246,773,0>>,
    <<247,247,768,0>>, <<248,255,773,0>>, <<256,310,777,773>>, <<311,312,773,0>>,
    <<313,327,777,773>>, <<328,329,773,0>>, <<330,358,777,773>>>>

Range2 == <<
    <<359,375,773,777>>, <<376,377,777,0>>, <<378,381,773,777>>, <<382,384,773,0>>,
    <<385,386,777,0>>, <<387,389,773,777>>, <<390,391,777,0>>, <<392,392,773,0>>,
    <<393,395,777,0>>, <<396,397,773,0>>, <<398,401,777,0>>, <<402,402,773,0>>,
    <<403,404,777,0>>, <<405,405,773,0>>, <<406,408,777,0>>, <<409,411,773,0>>,
    <<412,413,777,0>>, <<414,414,773,0>>, <<415,416,777,0>>, <<417,421,773,777>>,
    <<422,423,777,0>>, <<424,425,773,777>>, <<426,427,773,0>>, <<428,429,777,773>>,
    <<430,431,777,0>>, <<432,432,773,0>>, <<433,435,777,0>>, <<436,438,773,777>>,
    <<439,440,777,0>>, <<441,442,773,0>>, <<443,444,769,777>>, <<445,447,773,0>>,
    <<448,451,769,0>>, <<452,453,777,769>>, <<454,455,773,777>>, <<456,457,769,773>>,
    <<458,459,777,769>>, <<460,475,773,777>>, <<476,477,773,0>>, <<478,494,777,773>>,
    <<495,496,773,0>>, <<497,498,777,769>>, <<499,501,773,777>>, <<502,504,777,0>>,
    <<505,542,773,777>>>>

Range3 == <<
    <<543,562,773,777>>, <<563,569,773,0>>, <<570,571,777,0>>, <<572,572,773,0>>,
    <<573,574,777,0>>, <<575,576,773,0>>, <<577,578,777,773>>, <<579,582,777,0>>,
    <<583,590,773,777>>, <<591,659,773,0>>, <<660,660,769,0>>, <<661,687,773,0>>,
    <<688,705,769,0>>, <<706,709,768,0>>, <<710,721,769,0>>, <<722,735,768,0>>,
    <<736,740,769,0>>, <<741,747,768,0>>, <<748,750,769,768>>, <<751,879,768,0>>,
    <<880,883,777,773>>, <<884,885,769,768>>, <<886,887,777,773>>, <<890,890,769,0>>,
    <<891,893,773,0>>, <<894,895,896,777>>, <<900,901,768,0>>, <<902,903,777,896>>,
    <<904,906,777,0>>, <<908,908,777,0>>, <<910,911,777,0>>, <<912,912,773,0>>,
    <<913,929,777,0>>, <<931,939,777,0>>, <<940,974,773,0>>, <<975,975,777,0>>,
    <<976,977,773,0>>, <<978,980,777,0>>, <<981,983,773,0>>, <<984,1006,777,773>>,
    <<1007,1011,773,0>>, <<1012,1013,777,773>>, <<1014,1015,768,777>>,
    <<1016,1016,773,0>>, <<1017,1018,777,0>>, <<1019,1020,773,0>>, <<1021,1071,777,0>>,
    <<1072,1119,773,0>>, <<1120,1153,777,773>>, <<1154,1161,768,0>>,
    <<1162,1168,777,773>>>>

Range4 == <<
    <<1169,1215,773,777>>, <<1216,1217,777,0>>, <<1218,1229,773,777>>,
    <<1230,1231,773,0>>, <<1232,1320,777,773>>>>

Range5 == <<
    <<1321,1327,773,777>>, <<1329,1366,777,0>>, <<1369,1369,769,0>>,
    <<1370,1375,896,0>>, <<1376,1416,773,0>>, <<1417,1418,896,0>>, <<1421,1423,768,0>>,
    <<1425,1469,768,0>>, <<1470,1472,896,768>>, <<1473,1474,768,0>>,
    <<1475,1475,896,0>>, <<1476,1477,768,0>>, <<1478,1479,896,768>>,
    <<1488,1514,769,0>>, <<1519,1522,769,0>>, <<1523,1524,896,0>>, <<1542,1544,768,0>>,
    <<1545,1546,896,0>>, <<1547,1547,768,0>>, <<1548,1549,896,0>>, <<1550,1562,768,0>>,
    <<1563,1563,896,0>>, <<1565,1567,896,0>>, <<1568,1610,769,0>>, <<1611,1631,768,0>>,
    <<1632,1641,770,0>>, <<1642,1645,896,0>>, <<1646,1647,769,0>>, <<1648,1648,768,0>>,
    <<1649,1747,769,0>>, <<1748,1749,896,769>>, <<1750,1756,768,0>>,
    <<1758,1764,768,0>>, <<1765,1766,769,0>>, <<1767,1773,768,0>>, <<1774,1775,769,0>>,
    <<1776,1785,770,0>>, <<1786,1788,769,0>>, <<1789,1790,768,0>>, <<1791,1791,769,0>>,
    <<1792,1805,896,0>>, <<1808,1809,769,768>>, <<1810,1839,769,0>>,
    <<1840,1866,768,0>>, <<1869,1957,769,0>>, <<1958,1968,768,0>>, <<1969,1969,769,0>>,
    <<1984,1993,770,0>>, <<1994,2026,769,0>>, <<2027,2035,768,0>>, <<2036,2037,769,0>>,
    <<2038,2038,768,0>>, <<2039,2041,896,0>>, <<2042,2042,769,0>>, <<2045,2047,768,0>>,
    <<2048,2069,769,0>>, <<2070,2073,768,0>>, <<2074,2074,769,0>>, <<2075,2083,768,0>>,
    <<2084,2084,769,0>>, <<2085,2087,768,0>>, <<2088,2088,769,0>>, <<2089,2093,768,0>>,
    <<2096,2110,896,0>>, <<2112,2136,769,0>>, <<2137,2139,768,0>>, <<2142,2142,896,0>>,
    <<2144,2154,769,0>>, <<2160,2183,769,0>>, <<2184,2184,768,0>>, <<2185,2190,769,0>>,
    <<2200,2207,768,0>>, <<2208,2249,769,0>>, <<2250,2273,768,0>>, <<2275,2307,768,0>>,
    <<2308,2361,769,0>>, <<2362,2364,768,0>>, <<2365,2365,769,0>>, <<2366,2383,768,0>>,
    <<2384,2384,769,0>>, <<2385,2391,768,0>>, <<2392,2401,769,0>>, <<2402,2403,768,0>>,
    <<2404,2405,896,0>>, <<2406,2415,770,0>>, <<2416,2416,896,0>>, <<2417,2432,769,0>>,
    <<2433,2435,768,0>>, <<2437,2444,769,0>>, <<2447,2448,769,0>>, <<2451,2472,769,0>>,
    <<2474,2480,769,0>>, <<2482,2482,769,0>>, <<2486,2489,769,0>>,
    <<2492,2493,768,769>>, <<2494,2500,768,0>>, <<2503,2504,768,0>>,
    <<2507,2509,768,0>>, <<2510,2510,769,0>>, <<2519,2519,768,0>>, <<2524,2525,769,0>>,
    <<2527,2529,769,0>>, <<2530,2531,768,0>>, <<2534,2543,770,0>>, <<2544,2545,769,0>>,
    <<2546,2555,768,0>>, <<2556,2557,769,896>>, <<2558,2558,768,0>>,
    <<2561,2563,768,0>>, <<2565,2570,769,0>>, <<2575,2576,769,0>>, <<2579,2600,769,0>>,
    <<2602,2608,769,0>>, <<2610,2611,769,0>>, <<2613,2614,769,0>>, <<2616,2617,769,0>>,
    <<2620,2620,768,0>>, <<2622,2626,768,0>>, <<2631,2632,768,0>>, <<2635,2637,768,0>>,
    <<2641,2641,768,0>>, <<2649,2652,769,0>>, <<2654,2654,769,0>>, <<2662,2671,770,0>>,
    <<2672,2673,768,0>>, <<2674,2676,769,0>>, <<2677,2678,768,896>>,
    <<2689,2691,768,0>>, <<2693,2701,769,0>>, <<2703,2705,769,0>>, <<2707,2728,769,0>>,
    <<2730,2736,769,0>>, <<2738,2739,769,0>>, <<2741,2745,769,0>>,
    <<2748,2749,768,769>>>>

Range6 == <<
    <<2750,2757,768,0>>, <<2759,2761,768,0>>, <<2763,2765,768,0>>, <<2768,2768,769,0>>,
    <<2784,2785,769,0>>, <<2786,2787,768,0>>, <<2790,2799,770,0>>,
    <<2800,2801,896,768>>, <<2809,2809,769,0>>, <<2810,2815,768,0>>,
    <<2817,2819,768,0>>, <<2821,2828,769,0>>, <<2831,2832,769,0>>, <<2835,2856,769,0>>,
    <<2858,2864,769,0>>, <<2866,2867,769,0>>, <<2869,2873,769,0>>,
    <<2876,2877,768,769>>, <<2878,2884,768,0>>, <<2887,2888,768,0>>,
    <<2891,2893,768,0>>, <<2901,2903,768,0>>, <<2908,2909,769,0>>, <<2911,2913,769,0>>,
    <<2914,2915,768,0>>, <<2918,2927,770,0>>, <<2928,2929,768,769>>,
    <<2930,2935,768,0>>, <<2946,2947,768,769>>, <<2949,2954,769,0>>,
    <<2958,2960,769,0>>, <<2962,2965,769,0>>, <<2969,2970,769,0>>, <<2972,2972,769,0>>,
    <<2974,2975,769,0>>, <<2979,2980,769,0>>, <<2984,2986,769,0>>, <<2990,3001,769,0>>,
    <<3006,3010,768,0>>, <<3014,3016,768,0>>, <<3018,3021,768,0>>, <<3024,3024,769,0>>,
    <<3031,3031,768,0>>, <<3046,3055,770,0>>, <<3056,3066,768,0>>, <<3072,3076,768,0>>,
    <<3077,3084,769,0>>, <<3086,3088,769,0>>, <<3090,3112,769,0>>, <<3114,3129,769,0>>,
    <<3132,3133,768,769>>, <<3134,3140,768,0>>, <<3142,3144,768,0>>,
    <<3146,3149,768,0>>, <<3157,3158,768,0>>, <<3160,3162,769,0>>, <<3165,3165,769,0>>,
    <<3168,3169,769,0>>, <<3170,3171,768,0>>, <<3174,3183,770,0>>, <<3191,3191,896,0>>,
    <<3192,3199,768,0>>, <<3200,3200,769,0>>, <<3201,3203,768,0>>, <<3204,3204,896,0>>,
    <<3205,3212,769,0>>, <<3214,3216,769,0>>, <<3218,3240,769,0>>, <<3242,3251,769,0>>,
    <<3253,3257,769,0>>, <<3260,3261,768,769>>, <<3262,3268,768,0>>,
    <<3270,3272,768,0>>, <<3274,3277,768,0>>, <<3285,3286,768,0>>, <<3293,3294,769,0>>,
    <<3296,3297,769,0>>, <<3298,3299,768,0>>, <<3302,3311,770,0>>, <<3313,3314,769,0>>,
    <<3315,3315,768,0>>, <<3328,3331,768,0>>, <<3332,3340,769,0>>, <<3342,3344,769,0>>,
    <<3346,3386,769,0>>, <<3387,3388,768,0>>, <<3389,3389,769,0>>, <<3390,3396,768,0>>,
    <<3398,3400,768,0>>, <<3402,3405,768,0>>, <<3406,3407,769,768>>,
    <<3412,3414,769,0>>, <<3415,3422,768,0>>, <<3423,3425,769,0>>, <<3426,3427,768,0>>,
    <<3430,3439,770,0>>, <<3440,3449,768,0>>, <<3450,3455,769,0>>, <<3457,3459,768,0>>,
    <<3461,3478,769,0>>, <<3482,3505,769,0>>, <<3507,3515,769,0>>, <<3517,3517,769,0>>,
    <<3520,3526,769,0>>, <<3530,3530,768,0>>, <<3535,3540,768,0>>, <<3542,3542,768,0>>,
    <<3544,3551,768,0>>, <<3558,3567,770,0>>, <<3570,3571,768,0>>, <<3572,3572,896,0>>,
    <<3585,3632,769,0>>, <<3633,3633,768,0>>, <<3634,3635,769,0>>, <<3636,3642,768,0>>,
    <<3647,3647,768,0>>, <<3648,3654,769,0>>, <<3655,3662,768,0>>, <<3663,3663,896,0>>,
    <<3664,3673,770,0>>, <<3674,3675,896,0>>, <<3713,3714,769,0>>, <<3716,3716,769,0>>,
    <<3718,3722,769,0>>, <<3724,3747,769,0>>, <<3749,3749,769,0>>, <<3751,3760,769,0>>,
    <<3761,3761,768,0>>, <<3762,3763,769,0>>, <<3764,3772,768,0>>, <<3773,3773,769,0>>,
    <<3776,3780,769,0>>, <<3782,3782,769,0>>, <<3784,3790,768,0>>, <<3792,3801,770,0>>,
    <<3804,3807,769,0>>, <<3840,3840,769,0>>, <<3841,3843,768,0>>, <<3844,3858,896,0>>,
    <<3859,3860,768,896>>, <<3861,3871,768,0>>, <<3872,3881,770,0>>>>

Range7 == <<
    <<3882,3897,768,0>>, <<3898,3901,896,0>>, <<3902,3903,768,0>>, <<3904,3911,769,0>>,
    <<3913,3948,769,0>>, <<3953,3972,768,0>>, <<3973,3973,896,0>>, <<3974,3975,768,0>>,
    <<3976,3980,769,0>>, <<3981,3991,768,0>>, <<3993,4028,768,0>>, <<4030,4044,768,0>>,
    <<4046,4047,768,0>>, <<4048,4052,896,0>>, <<4053,4056,768,0>>, <<4057,4058,896,0>>,
    <<4096,4138,769,0>>, <<4139,4158,768,0>>, <<4159,4159,769,0>>, <<4160,4169,770,0>>,
    <<4170,4175,896,0>>, <<4176,4181,769,0>>, <<4182,4185,768,0>>, <<4186,4189,769,0>>,
    <<4190,4192,768,0>>, <<4193,4193,769,0>>, <<4194,4196,768,0>>, <<4197,4198,769,0>>,
    <<4199,4205,768,0>>, <<4206,4208,769,0>>, <<4209,4212,768,0>>, <<4213,4225,769,0>>,
    <<4226,4237,768,0>>, <<4238,4239,769,768>>, <<4240,4249,770,0>>,
    <<4250,4255,768,0>>, <<4256,4293,777,0>>, <<4295,4295,777,0>>, <<4301,4301,777,0>>,
    <<4304,4346,773,0>>, <<4347,4348,896,769>>, <<4349,4351,773,0>>,
    <<4352,4680,769,0>>, <<4682,4685,769,0>>, <<4688,4694,769,0>>, <<4696,4696,769,0>>,
    <<4698,4701,769,0>>, <<4704,4744,769,0>>, <<4746,4749,769,0>>, <<4752,4784,769,0>>,
    <<4786,4789,769,0>>, <<4792,4798,769,0>>, <<4800,4800,769,0>>, <<4802,4805,769,0>>,
    <<4808,4822,769,0>>, <<4824,4880,769,0>>, <<4882,4885,769,0>>, <<4888,4954,769,0>>,
    <<4957,4959,768,0>>, <<4960,4968,896,0>>, <<4969,4988,768,0>>, <<4992,5007,769,0>>,
    <<5008,5017,768,0>>, <<5024,5109,777,0>>, <<5112,5117,773,0>>, <<5120,5120,896,0>>,
    <<5121,5740,769,0>>, <<5741,5742,768,896>>, <<5743,5759,769,0>>,
    <<5760,5760,304,0>>, <<5761,5786,769,0>>, <<5787,5788,896,0>>, <<5792,5866,769,0>>,
    <<5867,5869,896,0>>, <<5870,5880,769,0>>, <<5888,5905,769,0>>, <<5906,5909,768,0>>,
    <<5919,5937,769,0>>, <<5938,5940,768,0>>, <<5941,5942,896,0>>, <<5952,5969,769,0>>,
    <<5970,5971,768,0>>, <<5984,5996,769,0>>, <<5998,6000,769,0>>, <<6002,6003,768,0>>,
    <<6016,6067,769,0>>, <<6068,6099,768,0>>, <<6100,6102,896,0>>, <<6103,6103,769,0>>,
    <<6104,6106,896,0>>, <<6107,6109,768,769>>, <<6112,6121,770,0>>,
    <<6128,6137,768,0>>, <<6144,6154,896,0>>, <<6155,6157,768,0>>, <<6159,6159,768,0>>,
    <<6160,6169,770,0>>, <<6176,6264,769,0>>, <<6272,6276,769,0>>, <<6277,6278,768,0>>,
    <<6279,6312,769,0>>, <<6313,6314,768,769>>, <<6320,6389,769,0>>,
    <<6400,6430,769,0>>, <<6432,6443,768,0>>, <<6448,6459,768,0>>, <<6464,6464,768,0>>,
    <<6468,6469,896,0>>, <<6470,6479,770,0>>, <<6480,6509,769,0>>, <<6512,6516,769,0>>,
    <<6528,6571,769,0>>, <<6576,6601,769,0>>, <<6608,6617,770,0>>, <<6618,6618,768,0>>,
    <<6622,6655,768,0>>, <<6656,6678,769,0>>, <<6679,6683,768,0>>, <<6686,6687,896,0>>,
    <<6688,6740,769,0>>, <<6741,6750,768,0>>, <<6752,6780,768,0>>, <<6783,6783,768,0>>,
    <<6784,6793,770,0>>, <<6800,6809,770,0>>, <<6816,6822,896,0>>, <<6823,6823,769,0>>,
    <<6824,6829,896,0>>, <<6832,6862,768,0>>, <<6912,6916,768,0>>, <<6917,6963,769,0>>,
    <<6964,6980,768,0>>, <<6981,6988,769,0>>, <<6992,7001,770,0>>, <<7002,7008,896,0>>,
    <<7009,7036,768,0>>, <<7037,7038,896,0>>, <<7040,7042,768,0>>, <<7043,7072,769,0>>,
    <<7073,7085,768,0>>, <<7086,7087,769,0>>, <<7088,7097,770,0>>, <<7098,7141,769,0>>,
    <<7142,7155,768,0>>>>

Range8 == <<
    <<7164,7167,896,0>>, <<7168,7203,769,0>>, <<7204,7223,768,0>>, <<7227,7231,896,0>>,
    <<7232,7241,770,0>>, <<7245,7247,769,0>>, <<7248,7257,770,0>>, <<7258,7293,769,0>>,
    <<7294,7295,896,0>>, <<7296,7304,773,0>>, <<7312,7354,777,0>>, <<7357,7359,777,0>>,
    <<7360,7367,896,0>>, <<7376,7378,768,0>>, <<7379,7379,896,0>>, <<7380,7400,768,0>>,
    <<7401,7404,769,0>>, <<7405,7405,768,0>>, <<7406,7411,769,0>>, <<7412,7412,768,0>>,
    <<7413,7414,769,0>>, <<7415,7417,768,0>>, <<7418,7418,769,0>>, <<7424,7467,773,0>>,
    <<7468,7530,769,0>>, <<7531,7543,773,0>>, <<7544,7544,769,0>>, <<7545,7578,773,0>>,
    <<7579,7615,769,0>>, <<7616,7679,768,0>>, <<7680,7799,777,773>>>>

Range9 == <<
    <<7800,7828,777,773>>, <<7829,7837,773,0>>, <<7838,7934,777,773>>,
    <<7935,7943,773,0>>, <<7944,7951,777,0>>, <<7952,7957,773,0>>, <<7960,7965,777,0>>,
    <<7968,7975,773,0>>, <<7976,7983,777,0>>, <<7984,7991,773,0>>, <<7992,7999,777,0>>,
    <<8000,8005,773,0>>, <<8008,8013,777,0>>, <<8016,8023,773,0>>, <<8025,8025,777,0>>,
    <<8027,8027,777,0>>, <<8029,8029,777,0>>, <<8031,8031,777,0>>, <<8032,8039,773,0>>,
    <<8040,8047,777,0>>, <<8048,8061,773,0>>, <<8064,8071,773,0>>, <<8072,8079,769,0>>,
    <<8080,8087,773,0>>, <<8088,8095,769,0>>, <<8096,8103,773,0>>>>

Range10 == <<
    <<8104,8111,769,0>>, <<8112,8116,773,0>>, <<8118,8119,773,0>>, <<8120,8123,777,0>>,
    <<8124,8125,769,768>>, <<8126,8126,773,0>>, <<8127,8129,768,0>>,
    <<8130,8132,773,0>>, <<8134,8135,773,0>>, <<8136,8139,777,0>>, <<8140,8140,769,0>>,
    <<8141,8143,768,0>>, <<8144,8147,773,0>>, <<8150,8151,773,0>>, <<8152,8155,777,0>>,
    <<8157,8159,768,0>>, <<8160,8167,773,0>>, <<8168,8172,777,0>>, <<8173,8175,768,0>>,
    <<8178,8180,773,0>>, <<8182,8183,773,0>>, <<8184,8187,777,0>>, <<8188,8188,769,0>>,
    <<8189,8190,768,0>>, <<8192,8202,304,0>>, <<8208,8231,896,0>>, <<8232,8233,16,0>>,
    <<8239,8239,304,0>>, <<8240,8259,896,0>>, <<8260,8260,768,0>>, <<8261,8273,896,0>>,
    <<8274,8274,768,0>>, <<8275,8286,896,0>>, <<8287,8287,304,0>>,
    <<8304,8305,768,769>>, <<8308,8316,768,0>>, <<8317,8318,896,0>>,
    <<8319,8319,769,0>>, <<8320,8332,768,0>>, <<8333,8334,896,0>>, <<8336,8348,769,0>>,
    <<8352,8384,768,0>>, <<8400,8432,768,0>>, <<8448,8449,768,0>>, <<8450,8450,777,0>>,
    <<8451,8454,768,0>>, <<8455,8455,777,0>>, <<8456,8457,768,0>>, <<8458,8458,773,0>>,
    <<8459,8461,777,0>>, <<8462,8463,773,0>>, <<8464,8466,777,0>>,
    <<8467,8468,773,768>>, <<8469,8469,777,0>>, <<8470,8472,768,0>>,
    <<8473,8477,777,0>>, <<8478,8483,768,0>>, <<8484,8489,777,768>>,
    <<8490,8493,777,0>>, <<8494,8495,768,773>>, <<8496,8499,777,0>>,
    <<8500,8500,773,0>>, <<8501,8504,769,0>>, <<8505,8505,773,0>>, <<8506,8507,768,0>>,
    <<8508,8509,773,0>>, <<8510,8511,777,0>>, <<8512,8516,768,0>>, <<8517,8517,777,0>>,
    <<8518,8521,773,0>>, <<8522,8525,768,0>>, <<8526,8526,773,0>>, <<8527,8543,768,0>>,
    <<8544,8578,769,0>>, <<8579,8580,777,773>>, <<8581,8584,769,0>>,
    <<8585,8587,768,0>>, <<8592,8967,768,0>>, <<8968,8971,896,0>>, <<8972,9000,768,0>>,
    <<9001,9002,896,0>>, <<9003,9254,768,0>>, <<9280,9290,768,0>>, <<9312,10087,768,0>>,
    <<10088,10101,896,0>>, <<10102,10180,768,0>>, <<10181,10182,896,0>>,
    <<10183,10213,768,0>>, <<10214,10223,896,0>>, <<10224,10626,768,0>>,
    <<10627,10648,896,0>>, <<10649,10711,768,0>>, <<10712,10715,896,0>>,
    <<10716,10747,768,0>>, <<10748,10749,896,0>>, <<10750,11123,768,0>>,
    <<11126,11157,768,0>>, <<11159,11263,768,0>>, <<11264,11311,777,0>>,
    <<11312,11359,773,0>>, <<11360,11361,777,773>>, <<11362,11364,777,0>>,
    <<11365,11366,773,0>>, <<11367,11372,777,773>>, <<11373,11376,777,0>>,
    <<11377,11378,773,777>>, <<11379,11380,773,0>>, <<11381,11381,777,0>>,
    <<11382,11387,773,0>>, <<11388,11389,769,0>>, <<11390,11392,777,0>>,
    <<11393,11414,773,777>>>>

Range11 == <<
    <<11415,11490,773,777>>, <<11491,11492,773,0>>, <<11493,11498,768,0>>,
    <<11499,11502,777,773>>, <<11503,11505,768,0>>, <<11506,11507,777,773>>,
    <<11513,11516,896,0>>, <<11517,11517,768,0>>, <<11518,11519,896,0>>,
    <<11520,11557,773,0>>, <<11559,11559,773,0>>, <<11565,11565,773,0>>,
    <<11568,11623,769,0>>, <<11631,11632,769,896>>, <<11647,11647,768,0>>,
    <<11648,11670,769,0>>, <<11680,11686,769,0>>, <<11688,11694,769,0>>,
    <<11696,11702,769,0>>, <<11704,11710,769,0>>, <<11712,11718,769,0>>,
    <<11720,11726,769,0>>, <<11728,11734,769,0>>, <<11736,11742,769,0>>,
    <<11744,11775,768,0>>, <<11776,11822,896,0>>, <<11823,11823,769,0>>,
    <<11824,11855,896,0>>, <<11856,11857,768,0>>, <<11858,11869,896,0>>,
    <<11904,11929,768,0>>, <<11931,12019,768,0>>, <<12032,12245,768,0>>,
    <<12272,12287,768,0>>, <<12288,12288,304,0>>, <<12289,12291,896,0>>,
    <<12292,12292,768,0>>, <<12293,12295,769,0>>, <<12296,12305,896,0>>,
    <<12306,12307,768,0>>, <<12308,12319,896,0>>, <<12320,12320,768,0>>,
    <<12321,12329,769,0>>, <<12330,12335,768,0>>, <<12336,12336,896,0>>,
    <<12337,12341,769,0>>, <<12342,12343,768,0>>, <<12344,12348,769,0>>,
    <<12349,12349,896,0>>, <<12350,12351,768,0>>, <<12353,12438,769,0>>,
    <<12441,12444,768,0>>, <<12445,12447,769,0>>, <<12448,12448,896,0>>,
    <<12449,12538,769,0>>, <<12539,12539,896,0>>, <<12540,12543,769,0>>,
    <<12549,12591,769,0>>, <<12593,12686,769,0>>, <<12688,12703,768,0>>,
    <<12704,12735,769,0>>, <<12736,12771,768,0>>, <<12783,12783,768,0>>,
    <<12784,12799,769,0>>, <<12800,12830,768,0>>, <<12832,13311,768,0>>,
    <<13312,19903,769,0>>, <<19904,19967,768,0>>, <<19968,42124,769,0>>,
    <<42128,42182,768,0>>>>

Range12 == <<
    <<42192,42237,769,0>>, <<42238,42239,896,0>>, <<42240,42508,769,0>>,
    <<42509,42511,896,0>>, <<42512,42527,769,0>>, <<42528,42537,770,0>>,
    <<42538,42539,769,0>>, <<42560,42605,777,773>>, <<42606,42606,769,0>>,
    <<42607,42610,768,0>>, <<42611,42611,896,0>>, <<42612,42621,768,0>>,
    <<42622,42623,896,769>>, <<42624,42651,777,773>>, <<42652,42653,769,0>>,
    <<42654,42655,768,0>>, <<42656,42735,769,0>>, <<42736,42737,768,0>>,
    <<42738,42743,896,0>>, <<42752,42774,768,0>>, <<42775,42783,769,0>>,
    <<42784,42785,768,0>>, <<42786,42798,777,773>>, <<42799,42801,773,0>>,
    <<42802,42842,777,773>>>>

Range13 == <<
    <<42843,42863,773,777>>, <<42864,42864,769,0>>, <<42865,42872,773,0>>,
    <<42873,42876,777,773>>, <<42877,42878,777,0>>, <<42879,42887,773,777>>,
    <<42888,42888,769,0>>, <<42889,42890,768,0>>, <<42891,42894,777,773>>,
    <<42895,42896,769,777>>, <<42897,42898,773,777>>, <<42899,42901,773,0>>,
    <<42902,42921,777,773>>, <<42922,42926,777,0>>, <<42927,42927,773,0>>,
    <<42928,42932,777,0>>, <<42933,42947,773,777>>, <<42948,42951,777,0>>,
    <<42952,42954,773,777>>, <<42960,42961,777,773>>, <<42963,42963,773,0>>,
    <<42965,42969,773,777>>, <<42994,42996,769,0>>, <<42997,42998,777,773>>,
    <<42999,43001,769,0>>, <<43002,43002,773,0>>, <<43003,43009,769,0>>,
    <<43010,43010,768,0>>, <<43011,43013,769,0>>, <<43014,43014,768,0>>,
    <<43015,43018,769,0>>, <<43019,43019,768,0>>, <<43020,43042,769,0>>,
    <<43043,43052,768,0>>, <<43056,43065,768,0>>, <<43072,43123,769,0>>,
    <<43124,43127,896,0>>, <<43136,43137,768,0>>, <<43138,43187,769,0>>,
    <<43188,43205,768,0>>, <<43214,43215,896,0>>, <<43216,43225,770,0>>,
    <<43232,43249,768,0>>, <<43250,43255,769,0>>, <<43256,43258,896,0>>,
    <<43259,43260,769,896>>, <<43261,43262,769,0>>, <<43263,43263,768,0>>,
    <<43264,43273,770,0>>, <<43274,43301,769,0>>, <<43302,43309,768,0>>,
    <<43310,43311,896,0>>, <<43312,43334,769,0>>, <<43335,43347,768,0>>,
    <<43359,43359,896,0>>, <<43360,43388,769,0>>, <<43392,43395,768,0>>,
    <<43396,43442,769,0>>, <<43443,43456,768,0>>, <<43457,43469,896,0>>,
    <<43471,43471,769,0>>, <<43472,43481,770,0>>, <<43486,43487,896,0>>,
    <<43488,43492,769,0>>, <<43493,43493,768,0>>, <<43494,43503,769,0>>,
    <<43504,43513,770,0>>, <<43514,43518,769,0>>, <<43520,43560,769,0>>,
    <<43561,43574,768,0>>, <<43584,43586,769,0>>, <<43587,43587,768,0>>>>

Range14 == <<
    <<43588,43595,769,0>>, <<43596,43597,768,0>>, <<43600,43609,770,0>>,
    <<43612,43615,896,0>>, <<43616,43638,769,0>>, <<43639,43641,768,0>>,
    <<43642,43642,769,0>>, <<43643,43645,768,0>>, <<43646,43695,769,0>>,
    <<43696,43697,768,769>>, <<43698,43700,768,0>>, <<43701,43702,769,0>>,
    <<43703,43704,768,0>>, <<43705,43709,769,0>>, <<43710,43711,768,0>>,
    <<43712,43714,769,768>>, <<43739,43741,769,0>>, <<43742,43743,896,0>>,
    <<43744,43754,769,0>>, <<43755,43759,768,0>>, <<43760,43761,896,0>>,
    <<43762,43764,769,0>>, <<43765,43766,768,0>>, <<43777,43782,769,0>>,
    <<43785,43790,769,0>>, <<43793,43798,769,0>>, <<43808,43814,769,0>>,
    <<43816,43822,769,0>>, <<43824,43866,773,0>>, <<43867,43867,768,0>>,
    <<43868,43871,769,0>>, <<43872,43880,773,0>>, <<43881,43881,769,0>>,
    <<43882,43883,768,0>>, <<43888,43967,773,0>>, <<43968,44002,769,0>>,
    <<44003,44010,768,0>>, <<44011,44011,896,0>>, <<44012,44013,768,0>>,
    <<44016,44025,770,0>>, <<44032,55203,769,0>>, <<55216,55238,769,0>>,
    <<55243,55291,769,0>>, <<63744,64109,769,0>>, <<64112,64217,769,0>>,
    <<64256,64262,773,0>>, <<64275,64279,773,0>>, <<64285,64286,769,768>>,
    <<64287,64296,769,0>>, <<64297,64297,768,0>>, <<64298,64310,769,0>>,
    <<64312,64316,769,0>>, <<64318,64318,769,0>>, <<64320,64321,769,0>>,
    <<64323,64324,769,0>>, <<64326,64433,769,0>>, <<64434,64450,768,0>>,
    <<64467,64829,769,0>>, <<64830,64831,896,0>>, <<64832,64847,768,0>>,
    <<64848,64911,769,0>>, <<64914,64967,769,0>>, <<64975,64975,768,0>>,
    <<65008,65019,769,0>>, <<65020,65039,768,0>>, <<65040,65049,896,0>>,
    <<65056,65071,768,0>>, <<65072,65106,896,0>>, <<65108,65121,896,0>>,
    <<65122,65123,768,896>>, <<65124,65126,768,0>>, <<65128,65129,896,768>>,
    <<65130,65131,896,0>>, <<65136,65140,769,0>>, <<65142,65276,769,0>>,
    <<65281,65283,896,0>>, <<65284,65284,768,0>>, <<65285,65290,896,0>>,
    <<65291,65291,768,0>>, <<65292,65295,896,0>>, <<65296,65305,770,0>>,
    <<65306,65307,896,0>>, <<65308,65310,768,0>>, <<65311,65312,896,0>>,
    <<65313,65338,777,0>>, <<65339,65341,896,0>>, <<65342,65344,768,896>>,
    <<65345,65370,773,0>>, <<65371,65374,896,768>>, <<65375,65381,896,0>>,
    <<65382,65470,769,0>>, <<65474,65479,769,0>>, <<65482,65487,769,0>>,
    <<65490,65495,769,0>>, <<65498,65500,769,0>>, <<65504,65510,768,0>>,
    <<65512,65518,768,0>>, <<65532,65533,768,0>>, <<65536,65547,769,0>>,
    <<65549,65574,769,0>>, <<65576,65594,769,0>>, <<65596,65597,769,0>>,
    <<65599,65613,769,0>>, <<65616,65629,769,0>>, <<65664,65786,769,0>>,
    <<65792,65794,896,0>>, <<65799,65843,768,0>>, <<65847,65855,768,0>>,
    <<65856,65908,769,0>>, <<65909,65934,768,0>>, <<65936,65948,768,0>>,
    <<65952,65952,768,0>>, <<66000,66045,768,0>>, <<66176,66204,769,0>>,
    <<66208,66256,769,0>>, <<66272,66299,768,0>>, <<66304,66335,769,0>>,
    <<66336,66339,768,0>>, <<66349,66378,769,0>>, <<66384,66421,769,0>>,
    <<66422,66426,768,0>>, <<66432,66461,769,0>>, <<66463,66463,896,0>>,
    <<66464,66499,769,0>>, <<66504,66511,769,0>>, <<66512,66512,896,0>>,
    <<66513,66517,769,0>>, <<66560,66599,777,0>>, <<66600,66639,773,0>>,
    <<66640,66717,769,0>>, <<66720,66729,770,0>>, <<66736,66771,777,0>>,
    <<66776,66811,773,0>>, <<66816,66855,769,0>>, <<66864,66915,769,0>>,
    <<66927,66927,896,0>>, <<66928,66938,777,0>>, <<66940,66954,777,0>>,
    <<66956,66962,777,0>>>>

Range15 == <<
    <<66964,66965,777,0>>, <<66967,66977,773,0>>, <<66979,66993,773,0>>,
    <<66995,67001,773,0>>, <<67003,67004,773,0>>, <<67072,67382,769,0>>,
    <<67392,67413,769,0>>, <<67424,67431,769,0>>, <<67456,67461,769,0>>,
    <<67463,67504,769,0>>, <<67506,67514,769,0>>, <<67584,67589,769,0>>,
    <<67592,67592,769,0>>, <<67594,67637,769,0>>, <<67639,67640,769,0>>,
    <<67644,67644,769,0>>, <<67647,67669,769,0>>, <<67671,67671,896,0>>,
    <<67672,67679,768,0>>, <<67680,67702,769,0>>, <<67703,67711,768,0>>,
    <<67712,67742,769,0>>, <<67751,67759,768,0>>, <<67808,67826,769,0>>,
    <<67828,67829,769,0>>, <<67835,67839,768,0>>, <<67840,67861,769,0>>,
    <<67862,67867,768,0>>, <<67871,67871,896,0>>, <<67872,67897,769,0>>,
    <<67903,67903,896,0>>, <<67968,68023,769,0>>, <<68028,68029,768,0>>,
    <<68030,68031,769,0>>, <<68032,68047,768,0>>, <<68050,68095,768,0>>,
    <<68096,68096,769,0>>, <<68097,68099,768,0>>, <<68101,68102,768,0>>,
    <<68108,68111,768,0>>, <<68112,68115,769,0>>, <<68117,68119,769,0>>,
    <<68121,68149,769,0>>, <<68152,68154,768,0>>, <<68159,68168,768,0>>,
    <<68176,68184,896,0>>, <<68192,68220,769,0>>, <<68221,68222,768,0>>,
    <<68223,68223,896,0>>, <<68224,68252,769,0>>, <<68253,68255,768,0>>,
    <<68288,68295,769,0>>, <<68296,68296,768,0>>, <<68297,68324,769,0>>,
    <<68325,68326,768,0>>, <<68331,68335,768,0>>, <<68336,68342,896,0>>,
    <<68352,68405,769,0>>, <<68409,68415,896,0>>, <<68416,68437,769,0>>,
    <<68440,68447,768,0>>, <<68448,68466,769,0>>, <<68472,68479,768,0>>,
    <<68480,68497,769,0>>, <<68505,68508,896,0>>, <<68521,68527,768,0>>,
    <<68608,68680,769,0>>, <<68736,68786,777,0>>, <<68800,68850,773,0>>,
    <<68858,68863,768,0>>, <<68864,68899,769,0>>, <<68900,68903,768,0>>,
    <<68912,68921,770,0>>, <<69216,69246,768,0>>, <<69248,69289,769,0>>,
    <<69291,69292,768,0>>, <<69293,69293,896,0>>, <<69296,69297,769,0>>,
    <<69373,69375,768,0>>, <<69376,69404,769,0>>, <<69405,69414,768,0>>,
    <<69415,69415,769,0>>, <<69424,69445,769,0>>, <<69446,69460,768,0>>,
    <<69461,69465,896,0>>, <<69488,69505,769,0>>, <<69506,69509,768,0>>,
    <<69510,69513,896,0>>, <<69552,69572,769,0>>, <<69573,69579,768,0>>,
    <<69600,69622,769,0>>, <<69632,69634,768,0>>, <<69635,69687,769,0>>,
    <<69688,69702,768,0>>, <<69703,69709,896,0>>, <<69714,69733,768,0>>,
    <<69734,69743,770,0>>, <<69744,69744,768,0>>, <<69745,69746,769,0>>,
    <<69747,69748,768,0>>, <<69749,69749,769,0>>, <<69759,69762,768,0>>,
    <<69763,69807,769,0>>, <<69808,69818,768,0>>, <<69819,69820,896,0>>,
    <<69822,69825,896,0>>, <<69826,69826,768,0>>, <<69840,69864,769,0>>,
    <<69872,69881,770,0>>, <<69888,69890,768,0>>, <<69891,69926,769,0>>,
    <<69927,69940,768,0>>, <<69942,69951,770,0>>, <<69952,69955,896,0>>,
    <<69956,69956,769,0>>, <<69957,69958,768,0>>, <<69959,69959,769,0>>,
    <<69968,70002,769,0>>, <<70003,70003,768,0>>, <<70004,70005,896,0>>,
    <<70006,70006,769,0>>, <<70016,70018,768,0>>, <<70019,70066,769,0>>,
    <<70067,70080,768,0>>, <<70081,70084,769,0>>, <<70085,70088,896,0>>,
    <<70089,70092,768,0>>, <<70093,70093,896,0>>, <<70094,70095,768,0>>,
    <<70096,70105,770,0>>, <<70106,70108,769,896>>, <<70109,70111,896,0>>,
    <<70113,70132,768,0>>, <<70144,70161,769,0>>, <<70163,70187,769,0>>,
    <<70188,70199,768,0>>, <<70200,70205,896,0>>, <<70206,70206,768,0>>,
    <<70207,70208,769,0>>, <<70209,70209,768,0>>, <<70272,70278,769,0>>,
    <<70280,70280,769,0>>, <<70282,70285,769,0>>, <<70287,70301,769,0>>,
    <<70303,70312,769,0>>, <<70313,70313,896,0>>, <<70320,70366,769,0>>,
    <<70367,70378,768,0>>>>

Range16 == <<
    <<70384,70393,770,0>>, <<70400,70403,768,0>>, <<70405,70412,769,0>>,
    <<70415,70416,769,0>>, <<70419,70440,769,0>>, <<70442,70448,769,0>>,
    <<70450,70451,769,0>>, <<70453,70457,769,0>>, <<70459,70460,768,0>>,
    <<70461,70461,769,0>>, <<70462,70468,768,0>>, <<70471,70472,768,0>>,
    <<70475,70477,768,0>>, <<70480,70480,769,0>>, <<70487,70487,768,0>>,
    <<70493,70497,769,0>>, <<70498,70499,768,0>>, <<70502,70508,768,0>>,
    <<70512,70516,768,0>>, <<70656,70708,769,0>>, <<70709,70726,768,0>>,
    <<70727,70730,769,0>>, <<70731,70735,896,0>>, <<70736,70745,770,0>>,
    <<70746,70747,896,0>>, <<70749,70750,896,768>>, <<70751,70753,769,0>>,
    <<70784,70831,769,0>>, <<70832,70851,768,0>>, <<70852,70853,769,0>>,
    <<70854,70855,896,769>>, <<70864,70873,770,0>>, <<71040,71086,769,0>>,
    <<71087,71093,768,0>>, <<71096,71104,768,0>>, <<71105,71127,896,0>>,
    <<71128,71131,769,0>>, <<71132,71133,768,0>>, <<71168,71215,769,0>>,
    <<71216,71232,768,0>>, <<71233,71235,896,0>>, <<71236,71236,769,0>>,
    <<71248,71257,770,0>>, <<71264,71276,896,0>>, <<71296,71338,769,0>>,
    <<71339,71351,768,0>>, <<71352,71353,769,896>>, <<71360,71369,770,0>>,
    <<71424,71450,769,0>>, <<71453,71467,768,0>>, <<71472,71481,770,0>>,
    <<71482,71483,768,0>>, <<71484,71486,896,0>>, <<71487,71487,768,0>>,
    <<71488,71494,769,0>>, <<71680,71723,769,0>>, <<71724,71738,768,0>>,
    <<71739,71739,896,0>>, <<71840,71871,777,0>>, <<71872,71903,773,0>>,
    <<71904,71913,770,0>>, <<71914,71922,768,0>>, <<71935,71942,769,0>>,
    <<71945,71945,769,0>>, <<71948,71955,769,0>>, <<71957,71958,769,0>>,
    <<71960,71983,769,0>>, <<71984,71989,768,0>>, <<71991,71992,768,0>>,
    <<71995,71998,768,0>>, <<71999,72001,769,768>>, <<72002,72003,768,0>>,
    <<72004,72006,896,0>>, <<72016,72025,770,0>>, <<72096,72103,769,0>>,
    <<72106,72144,769,0>>, <<72145,72151,768,0>>, <<72154,72160,768,0>>,
    <<72161,72163,769,896>>, <<72164,72164,768,0>>, <<72192,72192,769,0>>,
    <<72193,72202,768,0>>, <<72203,72242,769,0>>, <<72243,72249,768,0>>,
    <<72250,72250,769,0>>, <<72251,72254,768,0>>, <<72255,72262,896,0>>,
    <<72263,72263,768,0>>, <<72272,72272,769,0>>, <<72273,72283,768,0>>,
    <<72284,72329,769,0>>, <<72330,72345,768,0>>, <<72346,72348,896,0>>,
    <<72349,72349,769,0>>, <<72350,72354,896,0>>, <<72368,72440,769,0>>,
    <<72448,72457,896,0>>, <<72704,72712,769,0>>, <<72714,72750,769,0>>,
    <<72751,72758,768,0>>, <<72760,72767,768,0>>, <<72768,72768,769,0>>,
    <<72769,72773,896,0>>, <<72784,72793,770,0>>, <<72794,72812,768,0>>,
    <<72816,72817,896,0>>, <<72818,72847,769,0>>, <<72850,72871,768,0>>,
    <<72873,72886,768,0>>, <<72960,72966,769,0>>, <<72968,72969,769,0>>,
    <<72971,73008,769,0>>, <<73009,73014,768,0>>, <<73018,73018,768,0>>,
    <<73020,73021,768,0>>, <<73023,73029,768,0>>, <<73030,73031,769,768>>,
    <<73040,73049,770,0>>, <<73056,73061,769,0>>, <<73063,73064,769,0>>,
    <<73066,73097,769,0>>, <<73098,73102,768,0>>, <<73104,73105,768,0>>,
    <<73107,73111,768,0>>, <<73112,73112,769,0>>, <<73120,73129,770,0>>,
    <<73440,73458,769,0>>, <<73459,73462,768,0>>, <<73463,73464,896,0>>,
    <<73472,73473,768,0>>, <<73474,73475,769,768>>, <<73476,73488,769,0>>,
    <<73490,73523,769,0>>, <<73524,73530,768,0>>, <<73534,73538,768,0>>,
    <<73539,73551,896,0>>, <<73552,73561,770,0>>, <<73648,73648,769,0>>,
    <<73664,73713,768,0>>, <<73727,73727,896,0>>, <<73728,74649,769,0>>>>

Range17 == <<
    <<74752,74862,769,0>>, <<74864,74868,896,0>>, <<74880,75075,769,0>>,
    <<77712,77808,769,0>>, <<77809,77810,896,0>>, <<77824,78895,769,0>>,
    <<78912,78912,768,0>>, <<78913,78918,769,0>>, <<78919,78933,768,0>>,
    <<82944,83526,769,0>>, <<92160,92728,769,0>>, <<92736,92766,769,0>>,
    <<92768,92777,770,0>>, <<92782,92783,896,0>>, <<92784,92862,769,0>>,
    <<92864,92873,770,0>>, <<92880,92909,769,0>>, <<92912,92916,768,0>>,
    <<92917,92917,896,0>>, <<92928,92975,769,0>>, <<92976,92982,768,0>>,
    <<92983,92987,896,0>>, <<92988,92991,768,0>>, <<92992,92995,769,0>>,
    <<92996,92997,896,768>>, <<93008,93017,770,0>>, <<93019,93025,768,0>>,
    <<93027,93047,769,0>>, <<93053,93071,769,0>>, <<93760,93791,777,0>>,
    <<93792,93823,773,0>>, <<93824,93846,768,0>>, <<93847,93850,896,0>>,
    <<93952,94026,769,0>>, <<94031,94032,768,769>>, <<94033,94087,768,0>>,
    <<94095,94098,768,0>>, <<94099,94111,769,0>>, <<94176,94177,769,0>>,
    <<94178,94179,896,769>>, <<94180,94180,768,0>>, <<94192,94193,768,0>>,
    <<94208,100343,769,0>>, <<100352,101589,769,0>>, <<101632,101640,769,0>>,
    <<110576,110579,769,0>>, <<110581,110587,769,0>>, <<110589,110590,769,0>>,
    <<110592,110882,769,0>>, <<110898,110898,769,0>>, <<110928,110930,769,0>>,
    <<110933,110933,769,0>>, <<110948,110951,769,0>>, <<110960,111355,769,0>>,
    <<113664,113770,769,0>>, <<113776,113788,769,0>>, <<113792,113800,769,0>>,
    <<113808,113817,769,0>>, <<113820,113822,768,0>>, <<113823,113823,896,0>>,
    <<118528,118573,768,0>>, <<118576,118598,768,0>>, <<118608,118723,768,0>>,
    <<118784,119029,768,0>>, <<119040,119078,768,0>>, <<119081,119154,768,0>>,
    <<119163,119274,768,0>>, <<119296,119365,768,0>>, <<119488,119507,768,0>>,
    <<119520,119539,768,0>>, <<119552,119638,768,0>>, <<119648,119672,768,0>>,
    <<119808,119833,777,0>>, <<119834,119859,773,0>>, <<119860,119885,777,0>>,
    <<119886,119892,773,0>>, <<119894,119911,773,0>>, <<119912,119937,777,0>>,
    <<119938,119963,773,0>>, <<119964,119964,777,0>>, <<119966,119967,777,0>>,
    <<119970,119970,777,0>>, <<119973,119974,777,0>>, <<119977,119980,777,0>>,
    <<119982,119989,777,0>>, <<119990,119993,773,0>>, <<119995,119995,773,0>>,
    <<119997,120003,773,0>>, <<120005,120015,773,0>>, <<120016,120041,777,0>>,
    <<120042,120067,773,0>>, <<120068,120069,777,0>>, <<120071,120074,777,0>>,
    <<120077,120084,777,0>>, <<120086,120092,777,0>>, <<120094,120119,773,0>>,
    <<120120,120121,777,0>>, <<120123,120126,777,0>>, <<120128,120132,777,0>>,
    <<120134,120134,777,0>>, <<120138,120144,777,0>>, <<120146,120171,773,0>>,
    <<120172,120197,777,0>>, <<120198,120223,773,0>>, <<120224,120249,777,0>>,
    <<120250,120275,773,0>>, <<120276,120301,777,0>>, <<120302,120327,773,0>>,
    <<120328,120353,777,0>>, <<120354,120379,773,0>>, <<120380,120405,777,0>>,
    <<120406,120431,773,0>>, <<120432,120457,777,0>>, <<120458,120485,773,0>>,
    <<120488,120512,777,0>>, <<120513,120513,768,0>>, <<120514,120538,773,0>>,
    <<120539,120539,768,0>>, <<120540,120545,773,0>>, <<120546,120570,777,0>>,
    <<120571,120571,768,0>>, <<120572,120596,773,0>>, <<120597,120597,768,0>>,
    <<120598,120603,773,0>>, <<120604,120628,777,0>>, <<120629,120629,768,0>>,
    <<120630,120654,773,0>>, <<120655,120655,768,0>>, <<120656,120661,773,0>>,
    <<120662,120686,777,0>>, <<120687,120687,768,0>>, <<120688,120712,773,0>>,
    <<120713,120713,768,0>>, <<120714,120719,773,0>>, <<120720,120744,777,0>>,
    <<120745,120745,768,0>>, <<120746,120770,773,0>>, <<120771,120771,768,0>>,
    <<120772,120777,773,0>>, <<120778,120779,777,773>>, <<120782,120831,770,0>>,
    <<120832,121478,768,0>>, <<121479,121483,896,0>>, <<121499,121503,768,0>>,
    <<121505,121519,768,0>>, <<122624,122633,773,0>>>>

Range18 == <<
    <<122634,122634,769,0>>, <<122635,122654,773,0>>, <<122661,122666,773,0>>,
    <<122880,122886,768,0>>, <<122888,122904,768,0>>, <<122907,122913,768,0>>,
    <<122915,122916,768,0>>, <<122918,122922,768,0>>, <<122928,122989,769,0>>,
    <<123023,123023,768,0>>, <<123136,123180,769,0>>, <<123184,123190,768,0>>,
    <<123191,123197,769,0>>, <<123200,123209,770,0>>, <<123214,123215,769,768>>,
    <<123536,123565,769,0>>, <<123566,123566,768,0>>, <<123584,123627,769,0>>,
    <<123628,123631,768,0>>, <<123632,123641,770,0>>, <<123647,123647,768,0>>,
    <<124112,124139,769,0>>, <<124140,124143,768,0>>, <<124144,124153,770,0>>,
    <<124896,124902,769,0>>, <<124904,124907,769,0>>, <<124909,124910,769,0>>,
    <<124912,124926,769,0>>, <<124928,125124,769,0>>, <<125127,125142,768,0>>,
    <<125184,125217,777,0>>, <<125218,125251,773,0>>, <<125252,125258,768,0>>,
    <<125259,125259,769,0>>, <<125264,125273,770,0>>, <<125278,125279,896,0>>,
    <<126065,126132,768,0>>, <<126209,126269,768,0>>, <<126464,126467,769,0>>,
    <<126469,126495,769,0>>, <<126497,126498,769,0>>, <<126500,126500,769,0>>,
    <<126503,126503,769,0>>, <<126505,126514,769,0>>, <<126516,126519,769,0>>,
    <<126521,126521,769,0>>, <<126523,126523,769,0>>, <<126530,126530,769,0>>,
    <<126535,126535,769,0>>, <<126537,126537,769,0>>, <<126539,126539,769,0>>,
    <<126541,126543,769,0>>, <<126545,126546,769,0>>, <<126548,126548,769,0>>,
    <<126551,126551,769,0>>, <<126553,126553,769,0>>, <<126555,126555,769,0>>,
    <<126557,126557,769,0>>, <<126559,126559,769,0>>, <<126561,126562,769,0>>,
    <<126564,126564,769,0>>, <<126567,126570,769,0>>, <<126572,126578,769,0>>,
    <<126580,126583,769,0>>, <<126585,126588,769,0>>, <<126590,126590,769,0>>,
    <<126592,126601,769,0>>, <<126603,126619,769,0>>, <<126625,126627,769,0>>,
    <<126629,126633,769,0>>, <<126635,126651,769,0>>, <<126704,126705,768,0>>,
    <<126976,127019,768,0>>, <<127024,127123,768,0>>, <<127136,127150,768,0>>,
    <<127153,127167,768,0>>, <<127169,127183,768,0>>, <<127185,127221,768,0>>,
    <<127232,127405,768,0>>, <<127462,127490,768,0>>, <<127504,127547,768,0>>,
    <<127552,127560,768,0>>, <<127568,127569,768,0>>, <<127584,127589,768,0>>,
    <<127744,128727,768,0>>, <<128732,128748,768,0>>, <<128752,128764,768,0>>,
    <<128768,128886,768,0>>, <<128891,128985,768,0>>, <<128992,129003,768,0>>,
    <<129008,129008,768,0>>, <<129024,129035,768,0>>, <<129040,129095,768,0>>,
    <<129104,129113,768,0>>, <<129120,129159,768,0>>, <<129168,129197,768,0>>,
    <<129200,129201,768,0>>, <<129280,129619,768,0>>, <<129632,129645,768,0>>,
    <<129648,129660,768,0>>, <<129664,129672,768,0>>, <<129680,129725,768,0>>,
    <<129727,129733,768,0>>, <<129742,129755,768,0>>, <<129760,129768,768,0>>,
    <<129776,129784,768,0>>, <<129792,129938,768,0>>, <<129940,129994,768,0>>,
    <<130032,130041,770,0>>, <<131072,173791,769,0>>, <<173824,177977,769,0>>,
    <<177984,178205,769,0>>, <<178208,183969,769,0>>, <<183984,191456,769,0>>,
    <<191472,192093,769,0>>, <<194560,195101,769,0>>, <<196608,201546,769,0>>,
    <<201552,205743,769,0>>, <<917760,917999,768,0>>>>

Lower1 == <<
    <<65,90,1,32>>, <<192,214,1,32>>, <<216,222,1,32>>, <<256,302,2,1>>,
    <<304,304,1,-199>>, <<306,310,2,1>>, <<313,327,2,1>>, <<330,374,2,1>>,
    <<376,376,1,-121>>, <<377,381,2,1>>, <<385,385,1,210>>, <<386,388,2,1>>,
    <<390,390,1,206>>, <<391,391,1,1>>, <<393,394,1,205>>, <<395,395,1,1>>,
    <<398,398,1,79>>, <<399,399,1,202>>, <<400,400,1,203>>, <<401,401,1,1>>,
    <<403,403,1,205>>, <<404,404,1,207>>, <<406,406,1,211>>, <<407,407,1,209>>,
    <<408,408,1,1>>, <<412,412,1,211>>, <<413,413,1,213>>, <<415,415,1,214>>,
    <<416,420,2,1>>, <<422,422,1,218>>, <<423,423,1,1>>, <<425,425,1,218>>,
    <<428,428,1,1>>, <<430,430,1,218>>, <<431,431,1,1>>, <<433,434,1,217>>>>

Lower2 == <<
    <<435,437,2,1>>, <<439,439,1,219>>, <<440,440,1,1>>, <<444,444,1,1>>,
    <<452,452,1,2>>, <<453,453,1,1>>, <<455,455,1,2>>, <<456,456,1,1>>,
    <<458,458,1,2>>, <<459,475,2,1>>, <<478,494,2,1>>, <<497,497,1,2>>,
    <<498,500,2,1>>, <<502,502,1,-97>>, <<503,503,1,-56>>, <<504,542,2,1>>,
    <<544,544,1,-130>>, <<546,562,2,1>>, <<570,570,1,10795>>, <<571,571,1,1>>,
    <<573,573,1,-163>>, <<574,574,1,10792>>, <<577,577,1,1>>,
    <<579,579,1,-195>>, <<580,580,1,69>>, <<581,581,1,71>>, <<582,590,2,1>>,
    <<880,882,2,1>>, <<886,886,1,1>>, <<895,895,1,116>>, <<902,902,1,38>>,
    <<904,906,1,37>>, <<908,908,1,64>>, <<910,911,1,63>>, <<913,929,1,32>>,
    <<931,939,1,32>>, <<975,975,1,8>>, <<984,1006,2,1>>, <<1012,1012,1,-60>>,
    <<1015,1015,1,1>>, <<1017,1017,1,-7>>, <<1018,1018,1,1>>,
    <<1021,1023,1,-130>>, <<1024,1039,1,80>>, <<1040,1040,1,32>>>>

Lower3 == <<
    <<1041,1071,1,32>>, <<1120,1152,2,1>>, <<1162,1214,2,1>>,
    <<1216,1216,1,15>>, <<1217,1229,2,1>>, <<1232,1326,2,1>>,
    <<1329,1347,1,48>>>>

Lower4 == <<
    <<1348,1366,1,48>>, <<4256,4293,1,7264>>, <<4295,4295,1,7264>>,
    <<4301,4301,1,7264>>, <<5024,5103,1,38864>>, <<5104,5109,1,8>>,
    <<7312,7316,1,-3008>>>>

Lower5 == <<
    <<7317,7354,1,-3008>>, <<7357,7359,1,-3008>>, <<7680,7828,2,1>>,
    <<7838,7838,1,-7615>>, <<7840,7904,2,1>>>>

Lower6 == <<
    <<7906,7934,2,1>>, <<7944,7951,1,-8>>, <<7960,7965,1,-8>>,
    <<7976,7983,1,-8>>, <<7992,7999,1,-8>>, <<8008,8013,1,-8>>,
    <<8025,8031,2,-8>>, <<8040,8047,1,-8>>, <<8072,8079,1,-8>>,
    <<8088,8095,1,-8>>, <<8104,8111,1,-8>>, <<8120,8121,1,-8>>,
    <<8122,8123,1,-74>>, <<8124,8124,1,-9>>, <<8136,8139,1,-86>>,
    <<8140,8140,1,-9>>, <<8152,8153,1,-8>>, <<8154,8155,1,-100>>,
    <<8168,8169,1,-8>>, <<8170,8171,1,-112>>, <<8172,8172,1,-7>>,
    <<8184,8185,1,-128>>, <<8186,8187,1,-126>>, <<8188,8188,1,-9>>,
    <<8486,8486,1,-7517>>, <<8490,8490,1,-8383>>, <<8491,8491,1,-8262>>,
    <<8498,8498,1,28>>, <<8544,8559,1,16>>, <<8579,8579,1,1>>,
    <<9398,9415,1,26>>>>

Lower7 == <<
    <<9416,9423,1,26>>, <<11264,11311,1,48>>, <<11360,11360,1,1>>,
    <<11362,11362,1,-10743>>, <<11363,11363,1,-3814>>,
    <<11364,11364,1,-10727>>, <<11367,11371,2,1>>, <<11373,11373,1,-10780>>,
    <<11374,11374,1,-10749>>, <<11375,11375,1,-10783>>,
    <<11376,11376,1,-10782>>, <<11378,11378,1,1>>, <<11381,11381,1,1>>,
    <<11390,11391,1,-10815>>, <<11392,11490,2,1>>, <<11499,11501,2,1>>,
    <<11506,11506,1,1>>, <<42560,42604,2,1>>, <<42624,42628,2,1>>>>

Lower8 == <<
    <<42630,42650,2,1>>, <<42786,42798,2,1>>, <<42802,42862,2,1>>,
    <<42873,42875,2,1>>, <<42877,42877,1,-35332>>, <<42878,42886,2,1>>,
    <<42891,42891,1,1>>, <<42893,42893,1,-42280>>, <<42896,42898,2,1>>,
    <<42902,42920,2,1>>, <<42922,42922,1,-42308>>, <<42923,42923,1,-42319>>,
    <<42924,42924,1,-42315>>, <<42925,42925,1,-42305>>,
    <<42926,42926,1,-42308>>, <<42928,42928,1,-42258>>,
    <<42929,42929,1,-42282>>, <<42930,42930,1,-42261>>, <<42931,42931,1,928>>,
    <<42932,42946,2,1>>, <<42948,42948,1,-48>>, <<42949,42949,1,-42307>>,
    <<42950,42950,1,-35384>>, <<42951,42953,2,1>>, <<42960,42960,1,1>>,
    <<42966,42968,2,1>>, <<42997,42997,1,1>>, <<65313,65338,1,32>>,
    <<66560,66586,1,40>>>>

Lower9 == <<
    <<66587,66599,1,40>>, <<66736,66771,1,40>>, <<66928,66938,1,39>>,
    <<66940,66954,1,39>>, <<66956,66962,1,39>>, <<66964,66965,1,39>>,
    <<68736,68786,1,64>>, <<71840,71854,1,32>>>>

Lower10 == <<
    <<71855,71871,1,32>>, <<93760,93791,1,32>>, <<125184,125217,1,34>>>>

Upper1 == <<
    <<97,122,1,-32>>, <<181,181,1,743>>, <<224,246,1,-32>>, <<248,254,1,-32>>,
    <<255,255,1,121>>, <<257,303,2,-1>>, <<305,305,1,-232>>, <<307,311,2,-1>>,
    <<314,328,2,-1>>, <<331,375,2,-1>>, <<378,382,2,-1>>, <<383,383,1,-300>>,
    <<384,384,1,195>>, <<387,389,2,-1>>, <<392,392,1,-1>>, <<396,396,1,-1>>,
    <<402,402,1,-1>>, <<405,405,1,97>>, <<409,409,1,-1>>, <<410,410,1,163>>,
    <<414,414,1,130>>, <<417,421,2,-1>>, <<424,424,1,-1>>, <<429,429,1,-1>>,
    <<432,432,1,-1>>, <<436,438,2,-1>>, <<441,441,1,-1>>, <<445,445,1,-1>>,
    <<447,447,1,56>>, <<453,453,1,-1>>, <<454,454,1,-2>>, <<456,456,1,-1>>,
    <<457,457,1,-2>>, <<459,459,1,-1>>, <<460,460,1,-2>>, <<462,464,2,-1>>>>

Upper2 == <<
    <<466,476,2,-1>>, <<477,477,1,-79>>, <<479,495,2,-1>>, <<498,498,1,-1>>,
    <<499,499,1,-2>>, <<501,501,1,-1>>, <<505,543,2,-1>>, <<547,563,2,-1>>,
    <<572,572,1,-1>>, <<575,576,1,10815>>, <<578,578,1,-1>>, <<583,591,2,-1>>,
    <<592,592,1,10783>>, <<593,593,1,10780>>, <<594,594,1,10782>>,
    <<595,595,1,-210>>, <<596,596,1,-206>>, <<598,599,1,-205>>,
    <<601,601,1,-202>>, <<603,603,1,-203>>, <<604,604,1,42319>>,
    <<608,608,1,-205>>, <<609,609,1,42315>>, <<611,611,1,-207>>,
    <<613,613,1,42280>>, <<614,614,1,42308>>, <<616,616,1,-209>>,
    <<617,617,1,-211>>, <<618,618,1,42308>>, <<619,619,1,10743>>,
    <<620,620,1,42305>>, <<623,623,1,-211>>, <<625,625,1,10749>>,
    <<626,626,1,-213>>, <<629,629,1,-214>>, <<637,637,1,10727>>,
    <<640,640,1,-218>>, <<642,642,1,42307>>, <<643,643,1,-218>>,
    <<647,647,1,42282>>, <<648,648,1,-218>>, <<649,649,1,-69>>,
    <<650,651,1,-217>>, <<652,652,1,-71>>, <<658,658,1,-219>>,
    <<669,669,1,42261>>, <<670,670,1,42258>>, <<837,837,1,84>>,
    <<881,883,2,-1>>, <<887,887,1,-1>>, <<891,893,1,130>>, <<940,940,1,-38>>,
    <<941,943,1,-37>>, <<945,961,1,-32>>, <<962,962,1,-31>>, <<963,971,1,-32>>,
    <<972,972,1,-64>>, <<973,974,1,-63>>, <<976,976,1,-62>>, <<977,977,1,-57>>,
    <<981,981,1,-47>>, <<982,982,1,-54>>, <<983,983,1,-8>>, <<985,1003,2,-1>>>>

Upper3 == <<
    <<1005,1007,2,-1>>, <<1008,1008,1,-86>>, <<1009,1009,1,-80>>,
    <<1010,1010,1,7>>, <<1011,1011,1,-116>>, <<1013,1013,1,-96>>,
    <<1016,1016,1,-1>>, <<1019,1019,1,-1>>, <<1072,1103,1,-32>>,
    <<1104,1119,1,-80>>, <<1121,1153,2,-1>>, <<1163,1215,2,-1>>,
    <<1218,1230,2,-1>>, <<1231,1231,1,-15>>, <<1233,1313,2,-1>>>>

Upper4 == <<
    <<1315,1327,2,-1>>, <<1377,1414,1,-48>>, <<4304,4346,1,3008>>,
    <<4349,4351,1,3008>>, <<5112,5117,1,-8>>, <<7296,7296,1,-6254>>,
    <<7297,7297,1,-6253>>, <<7298,7298,1,-6244>>, <<7299,7300,1,-6242>>,
    <<7301,7301,1,-6243>>, <<7302,7302,1,-6236>>, <<7303,7303,1,-6181>>,
    <<7304,7304,1,35266>>, <<7545,7545,1,35332>>, <<7549,7549,1,3814>>,
    <<7566,7566,1,35384>>, <<7681,7761,2,-1>>>>

Upper5 == <<
    <<7763,7829,2,-1>>, <<7835,7835,1,-59>>, <<7841,7935,2,-1>>,
    <<7936,7943,1,8>>, <<7952,7957,1,8>>, <<7968,7975,1,8>>, <<7984,7991,1,8>>,
    <<8000,8005,1,8>>, <<8017,8023,2,8>>, <<8032,8039,1,8>>,
    <<8048,8049,1,74>>, <<8050,8053,1,86>>, <<8054,8055,1,100>>,
    <<8056,8057,1,128>>, <<8058,8059,1,112>>, <<8060,8061,1,126>>,
    <<8064,8068,1,8>>>>

Upper6 == <<
    <<8069,8071,1,8>>, <<8080,8087,1,8>>, <<8096,8103,1,8>>, <<8112,8113,1,8>>,
    <<8115,8115,1,9>>, <<8126,8126,1,-7205>>, <<8131,8131,1,9>>,
    <<8144,8145,1,8>>, <<8160,8161,1,8>>, <<8165,8165,1,7>>, <<8179,8179,1,9>>,
    <<8526,8526,1,-28>>, <<8560,8575,1,-16>>, <<8580,8580,1,-1>>,
    <<9424,9449,1,-26>>, <<11312,11359,1,-48>>, <<11361,11361,1,-1>>,
    <<11365,11365,1,-10795>>, <<11366,11366,1,-10792>>, <<11368,11372,2,-1>>,
    <<11379,11379,1,-1>>, <<11382,11382,1,-1>>, <<11393,11431,2,-1>>>>

Upper7 == <<
    <<11433,11491,2,-1>>, <<11500,11502,2,-1>>, <<11507,11507,1,-1>>,
    <<11520,11557,1,-7264>>, <<11559,11559,1,-7264>>, <<11565,11565,1,-7264>>,
    <<42561,42605,2,-1>>, <<42625,42651,2,-1>>, <<42787,42799,2,-1>>,
    <<42803,42863,2,-1>>, <<42874,42876,2,-1>>>>

Upper8 == <<
    <<42879,42887,2,-1>>, <<42892,42892,1,-1>>, <<42897,42899,2,-1>>,
    <<42900,42900,1,48>>, <<42903,42921,2,-1>>, <<42933,42947,2,-1>>,
    <<42952,42954,2,-1>>, <<42961,42961,1,-1>>, <<42967,42969,2,-1>>,
    <<42998,42998,1,-1>>, <<43859,43859,1,-928>>, <<43888,43967,1,-38864>>,
    <<65345,65370,1,-32>>, <<66600,66609,1,-40>>>>

Upper9 == <<
    <<66610,66639,1,-40>>, <<66776,66811,1,-40>>, <<66967,66977,1,-39>>,
    <<66979,66993,1,-39>>, <<66995,67001,1,-39>>, <<67003,67004,1,-39>>,
    <<68800,68848,1,-64>>>>

Upper10 == <<
    <<68849,68850,1,-64>>, <<71872,71903,1,-32>>, <<93792,93823,1,-32>>,
    <<125218,125251,1,-34>>>>

(* mini_unicode_ranges, mini_unicode_lower and mini_unicode_upper.         *)
Ranges ==
    FlattenSeq([i \in 1 .. 18 |->
        Listed(<<Range1, Range2, Range3, Range4, Range5, Range6, Range7, Range8, Range9,
                 Range10, Range11, Range12, Range13, Range14, Range15, Range16, Range17,
                 Range18>>[i])])

LowerTable == Expanded(Lower1 \o Lower2 \o Lower3 \o Lower4 \o Lower5
    \o Lower6 \o Lower7 \o Lower8 \o Lower9 \o Lower10)

UpperTable == Expanded(Upper1 \o Upper2 \o Upper3 \o Upper4 \o Upper5
    \o Upper6 \o Upper7 \o Upper8 \o Upper9 \o Upper10)
=============================================================================
