---------------------------- MODULE MCConfigurer ----------------------------
(* Texts of different lengths, so that what is left behind one shows.        *)
EXTENDS Configurer

CONSTANTS a, b

TwoTexts == {<<a>>, <<b, b>>}
=============================================================================
