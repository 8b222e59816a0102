-------------------------- MODULE SizeClassTables --------------------------
(***************************************************************************)
(* The size classes of TCMalloc: size_classes.cc and its two experimental  *)
(* variants, each for four page sizes (kPageShift 13, 15, 18, 12) and for  *)
(* a default alignment of operator new of 8 and of more than 8 bytes       *)
(* ("a16").  Class c of a table is its element c, <<bytes, pages, batch    *)
(* size>>; class 0, which holds nothing, is left out.                      *)
(***************************************************************************)
EXTENDS Integers, Sequences, SequencesExt

\* Consecutive classes with the same pages and batch size.
Rows(pages, batch, sizes) == [i \in 1 .. Len(sizes) |-> <<sizes[i], pages, batch>>]

\* The table t without the classes of the given sizes and with the rows new.
Replace(t, sizes, new) ==
    SortSeq(SelectSeq(t, LAMBDA r : r[1] \notin sizes) \o new, LAMBDA a, b : a[1] < b[1])

kSizeClasses13 ==
    Rows(1, 32, <<8, 16, 24, 32, 40, 48, 56, 64, 72, 80, 88, 96, 104, 112, 120, 128,
            136, 144, 160, 176, 192, 208, 224, 240, 256, 272, 288, 312, 336, 352, 384,
            408, 424, 448, 480, 512, 576, 640, 704, 768, 896, 1024>>)
    \o Rows(2, 32, <<1152, 1280, 1408, 1536, 1792, 2048>>)
    \o <<<<2304, 2, 28>>, <<2688, 2, 24>>, <<3200, 2, 20>>, <<3456, 3, 18>>,
          <<3584, 4, 18>>, <<4096, 2, 16>>, <<4736, 3, 13>>, <<5376, 2, 12>>,
          <<6144, 3, 10>>, <<6528, 4, 10>>, <<7168, 7, 9>>, <<8192, 2, 8>>,
          <<9472, 5, 6>>, <<10240, 4, 6>>, <<12288, 3, 5>>, <<14336, 7, 4>>,
          <<16384, 2, 4>>, <<20480, 5, 3>>, <<24576, 3, 2>>, <<28672, 7, 2>>,
          <<32768, 4, 2>>, <<40960, 5, 2>>, <<49152, 6, 2>>, <<57344, 7, 2>>,
          <<65536, 8, 2>>, <<73728, 9, 2>>, <<81920, 10, 2>>, <<98304, 12, 2>>,
          <<106496, 13, 2>>, <<114688, 14, 2>>, <<131072, 16, 2>>, <<147456, 18, 2>>,
          <<163840, 20, 2>>, <<180224, 22, 2>>, <<204800, 25, 2>>, <<229376, 28, 2>>,
          <<262144, 32, 2>>>>
kSizeClasses15 ==
    Rows(1, 32, <<8, 16, 24, 32, 40, 48, 56, 64, 72, 80, 88, 96, 104, 112, 120, 128,
            144, 160, 176, 192, 208, 224, 240, 256, 280, 304, 336, 368, 416, 464, 512,
            576, 640, 704, 832, 896, 1024, 1152, 1280, 1408, 1536, 1792, 2048>>)
    \o <<<<2176, 1, 30>>, <<2432, 1, 26>>, <<2688, 1, 24>>, <<2944, 1, 22>>,
          <<3200, 1, 20>>, <<3584, 1, 18>>, <<4096, 1, 16>>, <<4608, 1, 14>>,
          <<5376, 1, 12>>, <<6528, 1, 10>>, <<8192, 1, 8>>, <<9344, 2, 7>>,
          <<10880, 1, 6>>, <<13056, 2, 5>>, <<13952, 3, 4>>, <<16384, 1, 4>>,
          <<19072, 3, 3>>, <<21760, 2, 3>>, <<24576, 3, 2>>, <<28032, 6, 2>>,
          <<32768, 1, 2>>, <<38144, 5, 2>>, <<40960, 4, 2>>, <<49152, 3, 2>>,
          <<57344, 7, 2>>, <<65536, 2, 2>>, <<81920, 5, 2>>, <<98304, 3, 2>>,
          <<114688, 7, 2>>, <<131072, 4, 2>>, <<163840, 5, 2>>, <<196608, 6, 2>>,
          <<229376, 7, 2>>, <<262144, 8, 2>>>>
kSizeClasses18 ==
    Rows(1, 32, <<8, 16, 24, 32, 40, 48, 56, 64, 72, 80, 88, 96, 104, 112, 128, 144,
            160, 176, 192, 216, 232, 256, 288, 304, 320, 344, 384, 416, 464, 512, 576,
            640, 704, 832, 960, 1024, 1152, 1280, 1408, 1664, 1792, 1920, 2048>>)
    \o <<<<2176, 1, 30>>, <<2304, 1, 28>>, <<2432, 1, 26>>, <<2688, 1, 24>>,
          <<2944, 1, 22>>, <<3328, 1, 19>>, <<3584, 1, 18>>, <<4096, 1, 16>>,
          <<4736, 1, 13>>, <<5120, 1, 12>>, <<5504, 1, 11>>, <<5760, 1, 11>>,
          <<6144, 1, 10>>, <<6528, 1, 10>>, <<7168, 1, 9>>, <<8192, 1, 8>>,
          <<8704, 1, 7>>, <<9600, 1, 6>>, <<10880, 1, 6>>, <<11904, 1, 5>>,
          <<13056, 1, 5>>, <<14464, 1, 4>>, <<16384, 1, 4>>, <<18688, 1, 3>>,
          <<21760, 1, 3>>>>
    \o Rows(1, 2, <<23808, 26112, 29056, 32768, 37376, 43648>>)
    \o <<<<45568, 2, 2>>, <<52352, 1, 2>>, <<56064, 2, 2>>, <<65536, 1, 2>>,
          <<74880, 2, 2>>, <<87296, 1, 2>>, <<104832, 2, 2>>, <<112256, 3, 2>>,
          <<131072, 1, 2>>, <<149760, 3, 2>>, <<174720, 2, 2>>, <<196608, 3, 2>>,
          <<209664, 4, 2>>, <<262144, 1, 2>>>>
kSizeClasses12 ==
    Rows(1, 32, <<8, 16, 24, 32, 40, 48, 56, 64, 72, 80, 96, 104, 112, 128, 144, 160,
            176, 192, 208, 240, 272, 288, 312, 336, 408, 448, 512>>)
    \o Rows(2, 32, <<576, 640, 704, 896, 1024>>)
    \o Rows(3, 32, <<1152, 1280, 1536>>)
    \o <<<<1792, 4, 32>>, <<2048, 4, 32>>, <<2304, 4, 28>>, <<2688, 4, 24>>,
          <<3200, 4, 20>>, <<4096, 4, 16>>, <<4736, 5, 13>>, <<6144, 3, 10>>,
          <<7168, 7, 9>>, <<8192, 4, 8>>>>
kSizeClasses13a16 ==
    Rows(1, 32, <<8, 16, 32, 48, 64, 80, 96, 112, 128, 144, 160, 176, 192, 208, 224,
            240, 256, 272, 288, 304, 320, 336, 352, 368, 384, 400, 416, 448, 480, 512,
            576, 640, 704, 768, 896, 1024>>)
    \o Rows(2, 32, <<1152, 1280, 1408, 1536, 1792, 2048>>)
    \o <<<<2304, 2, 28>>, <<2688, 2, 24>>, <<2816, 3, 23>>, <<3200, 2, 20>>,
          <<3456, 3, 18>>, <<3584, 4, 18>>, <<4096, 2, 16>>, <<4736, 3, 13>>,
          <<5376, 2, 12>>, <<6144, 3, 10>>, <<6528, 4, 10>>, <<6784, 5, 9>>,
          <<7168, 7, 9>>, <<8192, 2, 8>>, <<9472, 5, 6>>, <<10240, 4, 6>>,
          <<12288, 3, 5>>, <<13568, 5, 4>>, <<14336, 7, 4>>, <<16384, 2, 4>>,
          <<20480, 5, 3>>, <<24576, 3, 2>>, <<28672, 7, 2>>, <<32768, 4, 2>>,
          <<40960, 5, 2>>, <<49152, 6, 2>>, <<57344, 7, 2>>, <<65536, 8, 2>>,
          <<73728, 9, 2>>, <<81920, 10, 2>>, <<90112, 11, 2>>, <<98304, 12, 2>>,
          <<106496, 13, 2>>, <<114688, 14, 2>>, <<131072, 16, 2>>, <<139264, 17, 2>>,
          <<155648, 19, 2>>, <<172032, 21, 2>>, <<196608, 24, 2>>, <<204800, 25, 2>>,
          <<221184, 27, 2>>, <<245760, 30, 2>>, <<262144, 32, 2>>>>
kSizeClasses15a16 ==
    Rows(1, 32, <<8, 16, 32, 48, 64, 80, 96, 112, 128, 144, 160, 176, 192, 208, 224,
            240, 256, 272, 288, 304, 336, 368, 400, 416, 464, 512, 576, 640, 704, 768,
            832, 896, 960, 1024, 1152, 1280, 1408, 1536, 1664, 1920, 2048>>)
    \o <<<<2176, 1, 30>>, <<2304, 1, 28>>, <<2432, 1, 26>>, <<2688, 1, 24>>,
          <<2944, 1, 22>>, <<3200, 1, 20>>, <<3584, 1, 18>>, <<4096, 1, 16>>,
          <<4608, 1, 14>>, <<5376, 1, 12>>, <<6528, 1, 10>>, <<7168, 2, 9>>,
          <<8192, 1, 8>>, <<9344, 2, 7>>, <<10880, 1, 6>>, <<13056, 2, 5>>,
          <<13952, 3, 4>>, <<16384, 1, 4>>, <<19072, 3, 3>>, <<21760, 2, 3>>,
          <<24576, 3, 2>>, <<28032, 6, 2>>, <<32768, 1, 2>>, <<38144, 5, 2>>,
          <<40960, 4, 2>>, <<49152, 3, 2>>, <<57344, 7, 2>>, <<65536, 2, 2>>,
          <<81920, 5, 2>>, <<98304, 3, 2>>, <<114688, 7, 2>>, <<131072, 4, 2>>,
          <<163840, 5, 2>>, <<196608, 6, 2>>, <<229376, 7, 2>>, <<262144, 8, 2>>>>
kSizeClasses18a16 ==
    Rows(1, 32, <<8, 16, 32, 48, 64, 80, 96, 112, 128, 144, 160, 176, 192, 208, 224,
            240, 256, 288, 304, 320, 352, 384, 416, 464, 512, 576, 640, 704, 832, 960,
            1024, 1152, 1280, 1408, 1536, 1664, 1792, 1920, 2048>>)
    \o <<<<2176, 1, 30>>, <<2304, 1, 28>>, <<2432, 1, 26>>, <<2688, 1, 24>>,
          <<2944, 1, 22>>, <<3328, 1, 19>>, <<3584, 1, 18>>, <<4096, 1, 16>>,
          <<4736, 1, 13>>, <<5120, 1, 12>>, <<5504, 1, 11>>, <<5760, 1, 11>>,
          <<6144, 1, 10>>, <<6528, 1, 10>>, <<7168, 1, 9>>, <<7680, 1, 8>>,
          <<8192, 1, 8>>, <<8704, 1, 7>>, <<9344, 1, 7>>, <<9984, 1, 6>>,
          <<10880, 1, 6>>, <<11904, 1, 5>>, <<13056, 1, 5>>, <<14464, 1, 4>>,
          <<16384, 1, 4>>>>
    \o Rows(1, 3, <<17408, 18688, 20096, 21760>>)
    \o Rows(1, 2, <<23808, 26112, 29056, 32768, 37376, 43648>>)
    \o <<<<45568, 2, 2>>, <<52352, 1, 2>>, <<56064, 2, 2>>, <<65536, 1, 2>>,
          <<74880, 2, 2>>, <<87296, 1, 2>>, <<104832, 2, 2>>, <<112256, 3, 2>>,
          <<131072, 1, 2>>, <<149760, 3, 2>>, <<174720, 2, 2>>, <<196608, 3, 2>>,
          <<209664, 4, 2>>, <<262144, 1, 2>>>>
kSizeClasses12a16 ==
    Rows(1, 32, <<8, 16, 32, 48, 64, 80, 96, 112, 128, 144, 160, 176, 192, 208, 224,
            240, 256, 272, 288, 304, 336, 368, 400, 448, 512>>)
    \o Rows(2, 32, <<576, 640, 704, 768, 896, 1024>>)
    \o Rows(3, 32, <<1152, 1280, 1536>>)
    \o <<<<1792, 4, 32>>, <<2048, 4, 32>>, <<2304, 4, 28>>, <<2688, 4, 24>>,
          <<3200, 4, 20>>, <<3584, 7, 18>>, <<4096, 4, 16>>, <<4736, 5, 13>>,
          <<6144, 3, 10>>, <<7168, 7, 9>>, <<8192, 4, 8>>>>
kExperimentalSizeClasses13 == Replace(kSizeClasses13, {56}, <<<<2816, 3, 23>>>>)
kExperimentalSizeClasses15 == Replace(kSizeClasses15, {56}, <<<<7168, 2, 9>>>>)
kExperimentalSizeClasses18 == Replace(kSizeClasses18, {56}, <<<<7680, 1, 8>>>>)
kExperimentalSizeClasses12 == Replace(kSizeClasses12, {56}, <<<<120, 1, 32>>>>)
kExperimentalSizeClasses13a16 == kSizeClasses13a16
kExperimentalSizeClasses15a16 == kSizeClasses15a16
kExperimentalSizeClasses18a16 == kSizeClasses18a16
kExperimentalSizeClasses12a16 == kSizeClasses12a16
kExperimental4kSizeClasses13 == Replace(kSizeClasses13, {4096, 8192}, <<<<4096, 1, 16>>, <<8192, 1, 8>>>>)
kExperimental4kSizeClasses15 == kSizeClasses15
kExperimental4kSizeClasses18 == kSizeClasses18
kExperimental4kSizeClasses12 == kSizeClasses12
kExperimental4kSizeClasses13a16 == Replace(kSizeClasses13a16, {4096, 8192}, <<<<4096, 1, 16>>, <<8192, 1, 8>>>>)
kExperimental4kSizeClasses15a16 == kSizeClasses15a16
kExperimental4kSizeClasses18a16 == kSizeClasses18a16
kExperimental4kSizeClasses12a16 == kSizeClasses12a16
=============================================================================
