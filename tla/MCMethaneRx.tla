---------------------------- MODULE MCMethaneRx -----------------------------
(* Instances of MethaneRx for TLC. *)
EXTENDS MethaneRx

\* A frame with the given ppm, LEL 1 % and status 0xAA (normal).
Body(ppm) == <<172, 172, 19, 170, 0, 0, 0, 0, 0, 0, ppm % 256, ppm \div 256, 1, 170,
               0, 0, 0, 0>>
FrameOf(ppm) == Append(Body(ppm), Checksum(Body(ppm)))

\* 500 ppm; 236 ppm, whose checksum is 0xAC; 44204 ppm, which is 0xACAC.
NastyFrames == {FrameOf(500), FrameOf(236), FrameOf(44204)}
ChecksumIsHeader == {FrameOf(236)}

\* In these no 19 bytes but frames pass for one.
ASSUME Unambiguous
=============================================================================
