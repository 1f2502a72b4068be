------------------------------ MODULE MCExifutil ------------------------------
(* Exifutil with the bytes that it tells apart, and lengths of 0, 1, 2 and 4 *)
(* besides those that lead behind the end of the file.                        *)
EXTENDS Exifutil

MCBytes == {0, 1, 2, 4, 208, 216, 217, 218, 225, 255}
===============================================================================
