----------------------------- MODULE MCCiphers -----------------------------
(***************************************************************************)
(* Ciphers with the tables of the code and answers of other                *)
(* implementations: FIPS 197 (its two examples), the key of the table in   *)
(* main.cc, the blocks of the two test benches (des/testbench.cpp,         *)
(* aes/main.cpp), a textbook example of DES and one of its validation      *)
(* suite, and OpenSSL for the rest.                                        *)
(***************************************************************************)
EXTENDS Ciphers, DesTables, AesTables

TableKey == <<\h00, \h01, \h02, \h03, \h04, \h05, \h06, \h07,
              \h08, \h09, \h0A, \h0B, \h0C, \h0D, \h0E, \h0F>>
FipsKey == <<\h2B, \h7E, \h15, \h16, \h28, \hAE, \hD2, \hA6,
             \hAB, \hF7, \h15, \h88, \h09, \hCF, \h4F, \h3C>>
LectureKey == <<\h13, \h34, \h57, \h79, \h9B, \hBC, \hDF, \hF1,
                \hE9, \hC3, \h3F, \h59, \hBE, \h1B, \h74, \hCA>>
BenchKey == <<\hE9, \hC3, \h3F, \h59, \hBE, \h1B, \h74, \hCA,
              \h7C, \hA1, \h10, \h45, \h4A, \h1A, \h6E, \h57>>
SuiteKey == <<\h7C, \hA1, \h10, \h45, \h4A, \h1A, \h6E, \h57,
              \h00, \h00, \h00, \h00, \h00, \h00, \h00, \h00>>

Entry(core, key0, in, out) == [core |-> core, key |-> key0, in |-> in, out |-> out]

MCAnswers ==
    {Entry("des", TableKey,
        <<\h00, \h11, \h22, \h33, \h44, \h55, \h66, \h77>>,
        <<\h3E, \hF0, \hA8, \h91, \hCF, \h8E, \hD9, \h90>>),
     Entry("aes", TableKey,
        <<\h00, \h11, \h22, \h33, \h44, \h55, \h66, \h77,
          \h88, \h99, \hAA, \hBB, \hCC, \hDD, \hEE, \hFF>>,
        <<\h69, \hC4, \hE0, \hD8, \h6A, \h7B, \h04, \h30,
          \hD8, \hCD, \hB7, \h80, \h70, \hB4, \hC5, \h5A>>),
     Entry("aes", TableKey,
        <<\hE1, \hFA, \h65, \hA9, \h00, \h20, \h13, \h48,
          \h31, \h85, \h7F, \h71, \hE2, \h06, \h75, \h99>>,
        <<\h6B, \hFF, \hFE, \hA1, \h60, \h88, \h21, \h42,
          \h58, \h73, \hA5, \h5D, \hEE, \hCC, \h14, \hD7>>),
     Entry("des", FipsKey,
        <<\h32, \h43, \hF6, \hA8, \h88, \h5A, \h30, \h8D>>,
        <<\h61, \hCB, \h4A, \h69, \hBF, \hCC, \h9B, \hC4>>),
     Entry("aes", FipsKey,
        <<\h32, \h43, \hF6, \hA8, \h88, \h5A, \h30, \h8D,
          \h31, \h31, \h98, \hA2, \hE0, \h37, \h07, \h34>>,
        <<\h39, \h25, \h84, \h1D, \h02, \hDC, \h09, \hFB,
          \hDC, \h11, \h85, \h97, \h19, \h6A, \h0B, \h32>>),
     Entry("des", LectureKey,
        <<\h01, \h23, \h45, \h67, \h89, \hAB, \hCD, \hEF>>,
        <<\h85, \hE8, \h13, \h54, \h0F, \h0A, \hB4, \h05>>),
     Entry("aes", LectureKey,
        <<\h01, \h23, \h45, \h67, \h89, \hAB, \hCD, \hEF,
          \h65, \h6D, \h13, \hCC, \hCF, \h8D, \h34, \hE8>>,
        <<\hE3, \hB8, \h77, \hD1, \h8E, \h54, \hFC, \h33,
          \hCF, \h2C, \h7F, \hBF, \h9F, \h8D, \h45, \hB2>>),
     Entry("des", BenchKey,
        <<\h65, \h6D, \h13, \hCC, \hCF, \h8D, \h34, \hE8>>,
        <<\h2E, \h80, \h36, \h04, \h3E, \h93, \hF0, \hFC>>),
     Entry("aes", BenchKey,
        <<\h65, \h6D, \h13, \hCC, \hCF, \h8D, \h34, \hE8,
          \h00, \h00, \h00, \h00, \h00, \h00, \h00, \h00>>,
        <<\hE8, \h61, \hAC, \h6A, \h17, \h45, \h61, \hAF,
          \hC3, \hBE, \h91, \h36, \h15, \h41, \h4B, \hF8>>),
     Entry("des", SuiteKey,
        <<\h01, \hA1, \hD6, \hD0, \h39, \h77, \h67, \h42>>,
        <<\h69, \h0F, \h5B, \h0D, \h9A, \h26, \h93, \h9B>>),
     Entry("aes", SuiteKey,
        <<\hFF, \hFF, \hFF, \hFF, \hFF, \hFF, \hFF, \hFF,
          \hFF, \hFF, \hFF, \hFF, \hFF, \hFF, \hFF, \hFF>>,
        <<\h20, \h87, \h28, \hCE, \h35, \hD3, \h11, \hE5,
          \h3E, \h2C, \h03, \h01, \hC3, \hFE, \hF0, \hE7>>)}
=============================================================================
