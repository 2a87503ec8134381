---------------------------- MODULE MCStartup ----------------------------
(* Two instances with the same image or an older, a newer and an edited    *)
(* one.                                                                    *)
EXTENDS Startup

CONSTANTS f, g

MCImages == {<<f, NoFile>>, <<f, f>>, <<g, f>>}
=============================================================================
