------------------------------ MODULE AesTables ------------------------------
(***************************************************************************)
(* The tables of AES: S_Box of HLS/aes/AES.cpp, which src/main.cc:291      *)
(* repeats as sbox with the same values; isbox of main.cc:292, which       *)
(* nothing in the program uses; and aes_expanded_key as main.cc:277-288    *)
(* initialises it, the table that HLS/aes/main.cpp tests with.             *)
(***************************************************************************)
EXTENDS Integers

S_Box ==
    <<99, 124, 119, 123, 242, 107, 111, 197, 48, 1, 103, 43, 254, 215, 171,
      118, 202, 130, 201, 125, 250, 89, 71, 240, 173, 212, 162, 175, 156,
      164, 114, 192, 183, 253, 147, 38, 54, 63, 247, 204, 52, 165, 229, 241,
      113, 216, 49, 21, 4, 199, 35, 195, 24, 150, 5, 154, 7, 18, 128, 226,
      235, 39, 178, 117, 9, 131, 44, 26, 27, 110, 90, 160, 82, 59, 214, 179,
      41, 227, 47, 132, 83, 209, 0, 237, 32, 252, 177, 91, 106, 203, 190,
      57, 74, 76, 88, 207, 208, 239, 170, 251, 67, 77, 51, 133, 69, 249, 2,
      127, 80, 60, 159, 168, 81, 163, 64, 143, 146, 157, 56, 245, 188, 182,
      218, 33, 16, 255, 243, 210, 205, 12, 19, 236, 95, 151, 68, 23, 196,
      167, 126, 61, 100, 93, 25, 115, 96, 129, 79, 220, 34, 42, 144, 136,
      70, 238, 184, 20, 222, 94, 11, 219, 224, 50, 58, 10, 73, 6, 36, 92,
      194, 211, 172, 98, 145, 149, 228, 121, 231, 200, 55, 109, 141, 213,
      78, 169, 108, 86, 244, 234, 101, 122, 174, 8, 186, 120, 37, 46, 28,
      166, 180, 198, 232, 221, 116, 31, 75, 189, 139, 138, 112, 62, 181,
      102, 72, 3, 246, 14, 97, 53, 87, 185, 134, 193, 29, 158, 225, 248,
      152, 17, 105, 217, 142, 148, 155, 30, 135, 233, 206, 85, 40, 223, 140,
      161, 137, 13, 191, 230, 66, 104, 65, 153, 45, 15, 176, 84, 187, 22>>

isbox ==
    <<82, 9, 106, 213, 48, 54, 165, 56, 191, 64, 163, 158, 129, 243, 215,
      251, 124, 227, 57, 130, 155, 47, 255, 135, 52, 142, 67, 68, 196, 222,
      233, 203, 84, 123, 148, 50, 166, 194, 35, 61, 238, 76, 149, 11, 66,
      250, 195, 78, 8, 46, 161, 102, 40, 217, 36, 178, 118, 91, 162, 73,
      109, 139, 209, 37, 114, 248, 246, 100, 134, 104, 152, 22, 212, 164,
      92, 204, 93, 101, 182, 146, 108, 112, 72, 80, 253, 237, 185, 218, 94,
      21, 70, 87, 167, 141, 157, 132, 144, 216, 171, 0, 140, 188, 211, 10,
      247, 228, 88, 5, 184, 179, 69, 6, 208, 44, 30, 143, 202, 63, 15, 2,
      193, 175, 189, 3, 1, 19, 138, 107, 58, 145, 17, 65, 79, 103, 220, 234,
      151, 242, 207, 206, 240, 180, 230, 115, 150, 172, 116, 34, 231, 173,
      53, 133, 226, 249, 55, 232, 28, 117, 223, 110, 71, 241, 26, 113, 29,
      41, 197, 137, 111, 183, 98, 14, 170, 24, 190, 27, 252, 86, 62, 75,
      198, 210, 121, 32, 154, 219, 192, 254, 120, 205, 90, 244, 31, 221,
      168, 51, 136, 7, 199, 49, 177, 18, 16, 89, 39, 128, 236, 95, 96, 81,
      127, 169, 25, 181, 74, 13, 45, 229, 122, 159, 147, 201, 156, 239, 160,
      224, 59, 77, 174, 42, 245, 176, 200, 235, 187, 60, 131, 83, 153, 97,
      23, 43, 4, 126, 186, 119, 214, 38, 225, 105, 20, 99, 85, 33, 12, 125>>

aes_expanded_key ==
    <<0, 1, 2, 3, 4, 5, 6, 7, 8, 9, 10, 11, 12, 13, 14, 15, 214, 170, 116,
      253, 210, 175, 114, 250, 218, 166, 120, 241, 214, 171, 118, 254, 182,
      146, 207, 11, 100, 61, 189, 241, 190, 155, 197, 0, 104, 48, 179, 254,
      182, 255, 116, 78, 210, 194, 201, 191, 108, 89, 12, 191, 4, 105, 191,
      65, 71, 247, 247, 188, 149, 53, 62, 3, 249, 108, 50, 188, 253, 5, 141,
      253, 60, 170, 163, 232, 169, 159, 157, 235, 80, 243, 175, 87, 173,
      246, 34, 170, 94, 57, 15, 125, 247, 166, 146, 150, 167, 85, 61, 193,
      10, 163, 31, 107, 20, 249, 112, 26, 227, 95, 226, 140, 68, 10, 223,
      77, 78, 169, 192, 38, 71, 67, 135, 53, 164, 28, 101, 185, 224, 22,
      186, 244, 174, 191, 122, 210, 84, 153, 50, 209, 240, 133, 87, 104, 16,
      147, 237, 156, 190, 44, 151, 78, 19, 17, 29, 127, 227, 148, 74, 23,
      243, 7, 167, 139, 77, 43, 48, 197>>
=============================================================================
