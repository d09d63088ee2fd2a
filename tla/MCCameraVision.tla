--------------------------- MODULE MCCameraVision ---------------------------
(* CameraVision with frames at up to MaxTime instants, a rate limit that     *)
(* rejects some of them, and the queue bound of the code.                    *)
EXTENDS CameraVision
=============================================================================
