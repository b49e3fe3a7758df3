--------------------------- MODULE MCWebSocketHub ---------------------------
EXTENDS WebSocketHub, TLC
============================================================================
