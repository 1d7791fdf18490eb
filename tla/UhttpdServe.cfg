CONSTANTS
  Clients = {c1, c2}
  NoClient = NoClient
  Listener = Listener
  Plugins = {"cgi", "lua"}
  Hangs = {"lua"}
SPECIFICATION WebSpec
INVARIANT WebTypeOK
INVARIANT OneHandler
PROPERTY Served
PROPERTY ServesOneByOne
