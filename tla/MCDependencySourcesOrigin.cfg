CONSTANTS
  s1 = s1
  s2 = s2
  m1 = m1
  m2 = m2
  j1 = j1
  j2 = j2
  y1 = y1
  y2 = y2
  y3 = y3
  y4 = y4
  Servers = {s1}
  Modules = {m1, m2}
  Jars = {j1, j2}
  Jdk = jdk
  Types = {y1, y2, y3, y4}
  JdkNamed <- MCJdkNamed
  Classpath <- MCClasspath
  ClassesIn <- MCClassesIn
  SourcesIn <- MCSourcesIn
  None = None
SPECIFICATION Spec
INVARIANT OriginClasspathRemembered
