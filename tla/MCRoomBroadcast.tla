--------------------------- MODULE MCRoomBroadcast ---------------------------
EXTENDS RoomBroadcast
=============================================================================
